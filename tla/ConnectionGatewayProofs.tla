----------------------- MODULE ConnectionGatewayProofs -----------------------
(***************************************************************************)
(* A session in service owns its source, for every number of connections,  *)
(* sources and calls in flight and every length of a lease.                *)
(***************************************************************************)
EXTENDS ConnectionGateway, TLAPS

(* A call that goes on, or begins by reading its session, is well formed.  *)
LEMMA IdleIsCall == Idle \in CallRecord /\ CallOK(Idle) /\ ~(Idle.step \in BindSteps)
BY GatewayAssumption DEF Idle, CallOK, CallRecord, Steps, BindSteps, Leases, Leasing

LEMMA ThenGoesOn ==
  ASSUME NEW f \in CallRecord, NEW step \in Steps
  PROVE  /\ Then(f, step) \in CallRecord /\ CallOK(Then(f, step))
         /\ Then(f, step).step = step
         /\ Then(f, step).stale = {} /\ Then(f, step).after = "idle"
         /\ step = "idle" => Then(f, step) = Idle
         /\ step # "idle" => Then(f, step).conn = f.conn
         /\ step \in Leasing => Then(f, step).status = f.status /\ Then(f, step).left = f.left
<1>1. f.conn \in Conns \cup {None} /\ f.status \in Statuses \cup {None} /\ f.left \in Leases
  BY DEF CallRecord
<1>2. CASE step = "idle"
  BY <1>2, IdleIsCall DEF Then, Idle, Leasing
<1>3. CASE step # "idle"
  <2>1. Then(f, step) = [conn |-> f.conn, step |-> step,
                         status |-> IF step \in Leasing THEN f.status ELSE None,
                         left |-> IF step \in Leasing THEN f.left ELSE 0,
                         stale |-> {}, after |-> "idle"]
    BY <1>3 DEF Then, Idle
  <2>2. "idle" \in Steps /\ 0 \in Leases
    BY GatewayAssumption DEF Steps, Leases
  <2> QED BY <1>1, <1>3, <2>1, <2>2 DEF CallRecord, CallOK
<1> QED BY <1>2, <1>3

(* What get returns to the call of c that makes it.                        *)
LEMMA GetsSession ==
  ASSUME TypeOK, NEW c \in Conns,
         NEW found \in {"closeSave", "refresh", "deleteKeys", "metaSave", "idle"},
         NEW missing \in {"idle", "renewed"}, NEW g, g = AfterGet(c, found, missing)
  PROVE  /\ g \in CallRecord /\ CallOK(g)
         /\ g.step \in {"purge", found, missing} /\ g.after \in {"idle", "renewed"}
         /\ g.step # "idle" => g.conn = c
         /\ g.step = "idle" => g.conn = None
         /\ g.step = "purge" => g.stale = {c} /\ record[c] # None
         /\ g.step # "purge" => g.stale = {} /\ g.after = "idle"
         /\ g.step \in {"refresh", "metaSave"} => g.status \in Statuses
         /\ g.step = "metaSave" => g.status = record[c].status /\ g.left = record[c].left
<1> DEFINE f == [Idle EXCEPT !.conn = c]
           read == [f EXCEPT !.status = record[c].status,
                             !.left = IF found = "refresh" THEN Lease ELSE record[c].left]
<1>1. f \in CallRecord /\ f.conn = c /\ found \in Steps /\ missing \in Steps
  BY IdleIsCall DEF CallRecord, Steps, Idle
<1>2. CASE Unexpired(c)
  <2> DEFINE lease == IF found = "refresh" THEN Lease ELSE record[c].left
  <2>1. record[c] \in SessionRecord
    BY <1>2 DEF TypeOK, Unexpired
  <2>2. record[c].status \in Statuses /\ lease \in Leases
    BY <2>1, GatewayAssumption DEF SessionRecord, Leases
  <2>3. found # "refresh" => lease = record[c].left
    OBVIOUS
  <2>4. read = [f EXCEPT !.status = record[c].status, !.left = lease]
    OBVIOUS
  <2>5. g = Then(read, found)
    BY <1>2 DEF AfterGet
  <2> HIDE DEF f, read, lease
  <2>6. /\ read \in CallRecord /\ read.conn = c /\ read.status = record[c].status
        /\ found # "refresh" => read.left = record[c].left
    BY <1>1, <2>2, <2>3, <2>4 DEF CallRecord
  <2> QED BY <1>1, <2>2, <2>5, <2>6, ThenGoesOn DEF Leasing, Idle
<1>3. CASE record[c] = None
  <2>1. g = Then(f, missing)
    BY <1>3 DEF AfterGet, Unexpired
  <2> HIDE DEF f
  <2> QED BY <1>1, <2>1, ThenGoesOn DEF Idle
<1>4. CASE ~Unexpired(c) /\ record[c] # None
  <2>1. g = [conn |-> c, step |-> "purge", status |-> None, left |-> 0, stale |-> {c},
             after |-> missing]
    BY <1>4 DEF AfterGet, Idle
  <2>2. "purge" \in Steps /\ 0 \in Leases
    BY GatewayAssumption DEF Steps, Leases
  <2> QED BY <1>1, <1>4, <2>1, <2>2 DEF CallRecord, CallOK, Leasing
<1> QED BY <1>2, <1>3, <1>4

-----------------------------------------------------------------------------
(* The shape of the state, and that a connection is bound once.            *)
BindsIn(f) == f.step \in BindSteps \/ f.after = "claim"

Shape ==
  /\ \A k \in Calls :
       /\ call[k].step # "idle" => call[k].conn \in Conns
       /\ call[k].after \in {"idle", "renewed", "claim"}
       /\ call[k].after # "idle" => call[k].step \in {"purge", "unindex", "unlock"}
       /\ call[k].step \in {"refresh", "renewSave", "metaSave"} => call[k].status \in Statuses
  /\ \A j, k \in Calls :
       BindsIn(call[j]) /\ BindsIn(call[k]) /\ call[j].conn = call[k].conn => j = k

GatewayInv == TypeOK /\ Shape

(* A call goes on: its bind begins, goes on or ends with it.               *)
Calling(k, g) ==
  /\ g \in CallRecord /\ CallOK(g) /\ call' = [call EXCEPT ![k] = g]
  /\ g.step # "idle" => g.conn \in Conns
  /\ g.after \in {"idle", "renewed", "claim"}
  /\ g.after # "idle" => g.step \in {"purge", "unindex", "unlock"}
  /\ g.step \in {"refresh", "renewSave", "metaSave"} => g.status \in Statuses

Binding(f, g) ==
  \/ /\ ~BindsIn(f) /\ ~BindsIn(g)
     /\ \A c \in Conns : \/ binding'[c] = binding[c]
                         \/ {binding[c], binding'[c]} \subseteq {"none", "open", "closed"}
  \/ BindsIn(f) /\ BindsIn(g) /\ g.conn = f.conn /\ binding' = binding
  \/ /\ BindsIn(f) /\ ~BindsIn(g)
     /\ \E b \in {"open", "closed"} : binding' = [binding EXCEPT ![f.conn] = b]
  \/ /\ ~BindsIn(f) /\ BindsIn(g) /\ binding[g.conn] # "pending"
     /\ binding' = [binding EXCEPT ![g.conn] = "pending"]

LEMMA CallingKeepsShape ==
  ASSUME GatewayInv, NEW k \in Calls, NEW g, Calling(k, g), Binding(call[k], g)
  PROVE  /\ Shape' /\ call' \in [Calls -> CallRecord] /\ \A j \in Calls : CallOK(call'[j])
         /\ \A c \in Conns : binding'[c] = "pending" <=> \E j \in Calls : Binds(j)' /\ call'[j].conn = c
<1>1. /\ call \in [Calls -> CallRecord] /\ \A j \in Calls : CallOK(call[j])
      /\ binding \in [Conns -> {"none", "pending", "open", "closed"}]
      /\ \A c \in Conns :
           binding[c] = "pending" <=> \E j \in Calls : BindsIn(call[j]) /\ call[j].conn = c
      /\ \A i, j \in Calls : BindsIn(call[i]) /\ BindsIn(call[j]) /\ call[i].conn = call[j].conn => i = j
  BY DEF GatewayInv, TypeOK, Shape, Binds, BindsIn
<1>2. call'[k] = g /\ \A j \in Calls \ {k} : call'[j] = call[j]
  BY <1>1 DEF Calling
<1>3. call' \in [Calls -> CallRecord] /\ \A j \in Calls : CallOK(call'[j])
  BY <1>1, <1>2 DEF Calling
<1>4. \A j \in Calls :
        /\ call'[j].step # "idle" => call'[j].conn \in Conns
        /\ call'[j].after \in {"idle", "renewed", "claim"}
        /\ call'[j].after # "idle" => call'[j].step \in {"purge", "unindex", "unlock"}
        /\ call'[j].step \in {"refresh", "renewSave", "metaSave"} => call'[j].status \in Statuses
  BY <1>1, <1>2 DEF Calling, GatewayInv, Shape
<1>5. \A j \in Calls : BindsIn(call[j]) => call[j].conn \in Conns
  BY DEF GatewayInv, Shape, BindsIn, BindSteps
<1>6. BindsIn(g) => g.conn \in Conns
  BY DEF Calling, BindsIn, BindSteps
<1>7. ASSUME NEW i \in Calls, NEW j \in Calls,
             BindsIn(call'[i]), BindsIn(call'[j]), call'[i].conn = call'[j].conn
      PROVE  i = j
  <2>1. CASE BindsIn(call[k]) /\ BindsIn(g)
    BY <1>1, <1>2, <1>7, <2>1 DEF Binding
  <2>2. CASE ~BindsIn(g)
    BY <1>1, <1>2, <1>7, <2>2
  <2>3. CASE ~BindsIn(call[k]) /\ BindsIn(g)
    <3>1. \A l \in Calls : BindsIn(call[l]) => call[l].conn # g.conn
      BY <1>1, <1>6, <2>3 DEF Binding
    <3> QED BY <1>1, <1>2, <1>7, <2>3, <3>1
  <2> QED BY <2>1, <2>2, <2>3
<1>8. ASSUME NEW c \in Conns
      PROVE  binding'[c] = "pending" <=> \E j \in Calls : BindsIn(call'[j]) /\ call'[j].conn = c
  <2>1. CASE ~BindsIn(call[k]) /\ ~BindsIn(g)
    BY <1>1, <1>2, <2>1 DEF Binding
  <2>2. CASE BindsIn(call[k]) /\ BindsIn(g)
    BY <1>1, <1>2, <2>2 DEF Binding
  <2>3. CASE BindsIn(call[k]) /\ ~BindsIn(g)
    BY <1>1, <1>2, <1>5, <2>3 DEF Binding
  <2>4. CASE ~BindsIn(call[k]) /\ BindsIn(g)
    BY <1>1, <1>2, <1>5, <1>6, <2>4 DEF Binding
  <2> QED BY <2>1, <2>2, <2>3, <2>4
<1>9. Shape'
  BY <1>4, <1>7 DEF Shape, BindsIn
<1> QED BY <1>3, <1>8, <1>9 DEF Binds, BindsIn

(* A handler goes on with its call, ...                                    *)
LEMMA HandlerGoesOn ==
  ASSUME GatewayInv, NEW k \in Calls, call[k].step # "idle", NEW step \in Steps, Goes(k, step),
         step \in {"refresh", "renewSave", "metaSave"} => call[k].status \in Statuses
  PROVE  /\ Calling(k, Then(call[k], step)) /\ call[k].conn \in Conns
         /\ BindsIn(Then(call[k], step)) <=> step \in BindSteps
         /\ step # "idle" => Then(call[k], step).conn = call[k].conn
<1>1. call[k] \in CallRecord /\ call[k].conn \in Conns
  BY DEF GatewayInv, TypeOK, Shape
<1>2. /\ Then(call[k], step) \in CallRecord /\ CallOK(Then(call[k], step))
      /\ Then(call[k], step).step = step /\ Then(call[k], step).after = "idle"
      /\ step # "idle" => Then(call[k], step).conn = call[k].conn
      /\ step \in Leasing => Then(call[k], step).status = call[k].status
  BY <1>1, ThenGoesOn
<1> QED BY <1>1, <1>2 DEF Goes, Becomes, Calling, BindsIn, Leasing

(* ... and one that reads its session has no part in a bind.               *)
LEMMA ReaderGoesOn ==
  ASSUME GatewayInv, NEW k \in Calls, NEW c \in Conns,
         NEW found \in {"closeSave", "refresh", "deleteKeys", "metaSave", "idle"},
         NEW missing \in {"idle", "renewed"}, Becomes(k, AfterGet(c, found, missing))
  PROVE  Calling(k, AfterGet(c, found, missing)) /\ ~BindsIn(AfterGet(c, found, missing))
<1>1. TypeOK
  BY DEF GatewayInv
<1> DEFINE g == AfterGet(c, found, missing)
<1>2. /\ g \in CallRecord /\ CallOK(g) /\ (g.step # "idle" => g.conn = c)
      /\ g.step \in {"purge", found, missing} /\ g.after \in {"idle", "renewed"}
      /\ g.step # "purge" => g.after = "idle"
      /\ g.step \in {"refresh", "metaSave"} => g.status \in Statuses
  BY <1>1, GetsSession
<1> HIDE DEF g
<1>3. Calling(k, g) /\ ~BindsIn(g)
  BY <1>2 DEF Becomes, g, Calling, BindsIn, BindSteps
<1> QED BY <1>3 DEF g

(* The types of everything but the calls.                                  *)
RestOK ==
  /\ source \in [Conns -> Sources] /\ open \subseteq Conns
  /\ binding \in [Conns -> {"none", "pending", "open", "closed"}]
  /\ record \in [Conns -> SessionRecord \cup {None}] /\ index \subseteq Conns
  /\ lock \in [Sources -> [owner : Conns \cup {None}, left : Leases]]
  /\ resurrected \subseteq Conns

LEMMA CallingKeepsTypes ==
  ASSUME GatewayInv, NEW k \in Calls, NEW g, Calling(k, g), Binding(call[k], g), RestOK'
  PROVE  GatewayInv'
BY CallingKeepsShape DEF GatewayInv, TypeOK, RestOK

(* What a handler saves, claims and releases has its type.                 *)
LEMMA SavesType ==
  ASSUME GatewayInv
  PROVE  /\ RestOK
         /\ \A c \in Conns, status \in Statuses, left \in Leases :
              Save(c, status, left) => /\ record' \in [Conns -> SessionRecord \cup {None}]
                                       /\ index' \subseteq Conns
         /\ \A c \in Conns : Owns(c) => lock' \in [Sources -> [owner : Conns \cup {None}, left : Leases]]
         /\ \A D \in SUBSET Conns :
              Release(D) => lock' \in [Sources -> [owner : Conns \cup {None}, left : Leases]]
<1>1. RestOK
  BY DEF GatewayInv, TypeOK, RestOK
<1>2. Lease \in Leases /\ 0 \in Leases
  BY GatewayAssumption DEF Leases
<1>3. \A status \in Statuses, left \in Leases : [status |-> status, left |-> left] \in SessionRecord
  BY DEF SessionRecord
<1>4. /\ \A c \in Conns : [owner |-> c, left |-> Lease] \in [owner : Conns \cup {None}, left : Leases]
      /\ NoOwner \in [owner : Conns \cup {None}, left : Leases]
  BY <1>2 DEF NoOwner
<1>5. \A c \in Conns, status \in Statuses, left \in Leases :
        Save(c, status, left) => /\ record' \in [Conns -> SessionRecord \cup {None}]
                                 /\ index' \subseteq Conns
  BY <1>1, <1>3 DEF RestOK, Save
<1>6. \A c \in Conns : Owns(c) => lock' \in [Sources -> [owner : Conns \cup {None}, left : Leases]]
  BY <1>1, <1>4 DEF RestOK, Owns
<1>7. \A D \in SUBSET Conns :
        Release(D) => lock' \in [Sources -> [owner : Conns \cup {None}, left : Leases]]
  BY <1>1, <1>4 DEF RestOK, Release
<1> QED BY <1>1, <1>5, <1>6, <1>7

(* A call begins, ...                                                      *)
LEMMA BeginningKeepsTypes ==
  ASSUME GatewayInv, NEW k \in Calls, NEW c \in Conns,
         Close(k, c) \/ Message(k, c) \/ Delete(k, c) \/ Patch(k, c) \/ Lookup(k, c)
  PROVE  GatewayInv'
<1>1. RestOK
  BY SavesType
<1>2. call[k] = Idle => ~BindsIn(call[k])
  BY IdleIsCall DEF BindsIn, Idle
<1>3. \A found \in {"closeSave", "refresh", "deleteKeys", "metaSave", "idle"},
         missing \in {"idle", "renewed"} :
        Becomes(k, AfterGet(c, found, missing)) =>
          Calling(k, AfterGet(c, found, missing)) /\ ~BindsIn(AfterGet(c, found, missing))
  BY ReaderGoesOn
<1>4. ASSUME NEW found \in {"closeSave", "refresh", "deleteKeys", "metaSave", "idle"},
             NEW missing \in {"idle", "renewed"}, Begins(k, AfterGet(c, found, missing)),
             RestOK',
             binding' = binding \/ (binding[c] = "open" /\ binding' = [binding EXCEPT ![c] = "closed"])
      PROVE  GatewayInv'
  <2> DEFINE g == AfterGet(c, found, missing)
  <2>1. Calling(k, g) /\ ~BindsIn(g) /\ ~BindsIn(call[k])
    BY <1>2, <1>3, <1>4 DEF Begins
  <2> HIDE DEF g
  <2>2. Binding(call[k], g)
    BY <1>1, <1>4, <2>1 DEF Binding, RestOK
  <2> QED BY <1>4, <2>1, <2>2, CallingKeepsTypes
<1>5. CASE Close(k, c)
  <2>1. RestOK'
    BY <1>1, <1>5 DEF Close, RestOK
  <2>2. CASE binding[c] = "open"
    BY <1>4, <1>5, <2>1, <2>2 DEF Close
  <2>3. CASE binding[c] # "open"
    <3>1. call' = call /\ \A d \in Conns : binding'[d] = "pending" <=> binding[d] = "pending"
      BY <1>1, <1>5, <2>3 DEF Close, RestOK
    <3> QED BY <2>1, <3>1 DEF GatewayInv, TypeOK, RestOK, Shape, Binds, BindsIn
  <2> QED BY <2>2, <2>3
<1>6. CASE Message(k, c)
  <2>1. RestOK' /\ binding' = binding
    BY <1>1, <1>6 DEF Message, RestOK
  <2> QED BY <1>4, <1>6, <2>1 DEF Message
<1>7. CASE Delete(k, c)
  <2>1. RestOK' /\ (binding' = binding \/ (binding[c] = "open" /\ binding' = [binding EXCEPT ![c] = "closed"]))
    BY <1>1, <1>7 DEF Delete, Drops, RestOK
  <2> QED BY <1>4, <1>7, <2>1 DEF Delete
<1>8. CASE Patch(k, c)
  <2>1. RestOK' /\ binding' = binding
    BY <1>1, <1>8 DEF Patch, RestOK
  <2> QED BY <1>4, <1>8, <2>1 DEF Patch
<1>9. CASE Lookup(k, c)
  <2>1. RestOK' /\ binding' = binding
    BY <1>1, <1>9 DEF Lookup, RestOK
  <2> QED BY <1>4, <1>9, <2>1 DEF Lookup
<1> QED BY <1>5, <1>6, <1>7, <1>8, <1>9

(* ... and a bind begins only once for its connection.                     *)
LEMMA BindKeepsTypes ==
  ASSUME GatewayInv, NEW k \in Calls, NEW c \in Conns, Bind(k, c)
  PROVE  /\ GatewayInv' /\ call[k] = Idle
         /\ \E g : /\ Calling(k, g) /\ g.step \in {"idle", "claim", "purge"}
                   /\ g.step # "idle" => g.conn = c
                   /\ \A d \in g.stale : record[d] # None /\ ~Unexpired(d)
                   /\ g.step # "purge" => g.stale = {} /\ g.after = "idle"
                   /\ BindsIn(g) => binding'[c] = "pending"
                   /\ ~BindsIn(g) => binding'[c] = "closed"
                   /\ g.step = "purge" => g.after \in {"claim", "idle"}
<1> DEFINE listed == {d \in Conns : source[d] = source[c] /\ record[d] # None}
           live == {d \in listed : Unexpired(d)}
           allowed == Cardinality(live) < MaxSessions
           next == IF allowed THEN "claim" ELSE "idle"
           lease == IF allowed THEN Lease ELSE 0
           new == [Idle EXCEPT !.conn = c, !.left = lease]
           g == IF listed = live THEN Then(new, next)
                ELSE [new EXCEPT !.step = "purge", !.stale = listed \ live, !.after = next]
<1>1. /\ c \in open /\ binding[c] = "none" /\ Begins(k, g)
      /\ IF allowed THEN binding' = [binding EXCEPT ![c] = "pending"] /\ UNCHANGED open ELSE Drops(c)
      /\ UNCHANGED <<source, record, index, lock, resurrected>>
  BY DEF Bind
<1>2. /\ next \in {"claim", "idle"} /\ lease \in Leases /\ (next = "idle" => lease = 0)
      /\ allowed <=> next = "claim"
  BY GatewayAssumption DEF Leases
<1>3. /\ listed \ live \subseteq Conns
      /\ \A d \in listed \ live : record[d] # None /\ ~Unexpired(d)
  OBVIOUS
<1> DEFINE gone == listed \ live
<1>4. g = IF listed = live THEN Then(new, next)
          ELSE [new EXCEPT !.step = "purge", !.stale = gone, !.after = next]
  OBVIOUS
<1>5. /\ c \in open /\ binding[c] = "none" /\ Begins(k, g)
      /\ next = "claim" => binding' = [binding EXCEPT ![c] = "pending"] /\ UNCHANGED open
      /\ next = "idle" => Drops(c)
      /\ UNCHANGED <<source, record, index, lock, resurrected>>
  BY <1>1, <1>2
<1>6. new \in CallRecord /\ new.conn = c /\ new.step = "idle" /\ new.after = "idle"
      /\ new.stale = {} /\ new.left = lease /\ new.status = None
  BY <1>2 DEF CallRecord, Idle, Steps
<1> HIDE DEF allowed, gone, new, next, lease
<1> HIDE DEF g, listed, live
<1>8. /\ g \in CallRecord /\ CallOK(g) /\ g.step \in {"idle", "claim", "purge"}
      /\ g.step # "idle" => g.conn = c
      /\ g.stale \subseteq gone
      /\ g.step # "purge" => g.stale = {} /\ g.after = "idle" /\ g.step = next
      /\ g.step = "purge" => g.after = next
  <2>1. CASE g = Then(new, next)
    BY <1>2, <1>6, <2>1, ThenGoesOn, IdleIsCall DEF Steps, BindSteps
  <2>2. CASE g = [new EXCEPT !.step = "purge", !.stale = gone, !.after = next]
    <3>1. /\ g.step = "purge" /\ g.conn = c /\ g.stale = gone /\ g.after = next
          /\ g.left = lease /\ g.status = None /\ g \in CallRecord
      BY <1>2, <1>3, <1>6, <2>2 DEF CallRecord, Steps, BindSteps, gone
    <3> QED BY <1>2, <3>1 DEF CallOK, Leasing
  <2> QED BY <1>4, <2>1, <2>2
<1>9. Calling(k, g) /\ call[k] = Idle
  BY <1>2, <1>5, <1>8 DEF Calling, Begins, Becomes
<1>10. BindsIn(g) <=> next = "claim"
  BY <1>2, <1>8 DEF BindsIn, BindSteps
<1>11. ~BindsIn(call[k])
  BY <1>9, IdleIsCall DEF BindsIn, Idle
<1>12. RestOK
  BY SavesType
<1>13. RestOK' /\ binding'[c] \in {"pending", "closed"} /\ (binding'[c] = "pending" <=> next = "claim")
  BY <1>2, <1>5, <1>12 DEF RestOK, Drops
<1>14. Binding(call[k], g)
  BY <1>2, <1>5, <1>8, <1>10, <1>11, <1>12 DEF Binding, RestOK, Drops, BindsIn, BindSteps
<1>15. GatewayInv'
  BY <1>9, <1>13, <1>14, CallingKeepsTypes
<1>16. \A d \in gone : record[d] # None /\ ~Unexpired(d)
  BY <1>3 DEF gone
<1> QED BY <1>2, <1>8, <1>9, <1>10, <1>13, <1>15, <1>16

(* ... and goes on, with what it saves, claims and releases, ...           *)
LEMMA HandlingKeepsTypes ==
  ASSUME GatewayInv, NEW k \in Calls, Handle(k)
  PROVE  GatewayInv'
<1> DEFINE f == call[k]
           c == f.conn
<1>1. f.step # "idle"
  BY DEF Handle, Purge, Unindex, Unlock, Claim, SaveNew, Undo, Bound, Refresh, RenewSave, Renewed,
         MetaSave, CloseSave, DeleteKeys, ReleaseOwner, Fail
<1>2. /\ f \in CallRecord /\ CallOK(f) /\ c \in Conns
      /\ f.after \in {"idle", "renewed", "claim"} /\ f.left \in Leases /\ f.stale \in SUBSET Conns
      /\ f.after # "idle" => f.step \in {"purge", "unindex", "unlock"}
      /\ f.status \in Statuses \cup {None}
      /\ f.step \in {"refresh", "renewSave", "metaSave"} => f.status \in Statuses
  BY <1>1 DEF GatewayInv, TypeOK, Shape, CallRecord
<1>4. ASSUME NEW step \in Steps, Goes(k, step), RestOK',
             step \in {"refresh", "renewSave", "metaSave"} => f.status \in Statuses,
             \/ BindsIn(f) /\ step \in BindSteps /\ binding' = binding
             \/ ~BindsIn(f) /\ step \notin BindSteps /\ binding' = binding
             \/ /\ BindsIn(f) /\ step \notin BindSteps
                /\ \E b \in {"open", "closed"} : binding' = [binding EXCEPT ![c] = b]
      PROVE  GatewayInv'
  <2> DEFINE g == Then(f, step)
  <2>1. Calling(k, g) /\ (BindsIn(g) <=> step \in BindSteps) /\ (step # "idle" => g.conn = c)
    BY <1>1, <1>4, HandlerGoesOn DEF BindSteps
  <2> HIDE DEF g
  <2>2. Binding(f, g)
    BY <1>4, <2>1 DEF Binding, BindSteps
  <2> QED BY <1>4, <2>1, <2>2, CallingKeepsTypes
<1>5. ASSUME NEW step \in {"unindex", "unlock"}, f.step \in {"purge", "unindex"},
             Becomes(k, [f EXCEPT !.step = step]), RestOK', binding' = binding
      PROVE  GatewayInv'
  <2> DEFINE g == [f EXCEPT !.step = step]
  <2>1. /\ g \in CallRecord /\ g.step = step /\ g.conn = c /\ g.after = f.after /\ g.status = f.status
        /\ g.left = f.left
    BY <1>2 DEF CallRecord, Steps
  <2> HIDE DEF g
  <2>2. CallOK(g)
    BY <1>2, <1>5, <2>1 DEF CallOK, Leasing
  <2>3. Calling(k, g)
    BY <1>2, <1>5, <2>1, <2>2 DEF Calling, Becomes, g
  <2>4. Binding(f, g)
    BY <1>5, <2>1 DEF Binding, BindsIn, BindSteps
  <2> QED BY <1>5, <2>3, <2>4, CallingKeepsTypes
<1>6. RestOK /\ GatewayAssumption /\ Lease \in Leases
  BY SavesType, GatewayAssumption DEF Leases
<1>7. /\ \A status \in Statuses, left \in Leases :
           Save(c, status, left) => /\ record' \in [Conns -> SessionRecord \cup {None}]
                                    /\ index' \subseteq Conns
      /\ Owns(c) => lock' \in [Sources -> [owner : Conns \cup {None}, left : Leases]]
      /\ \A D \in SUBSET Conns :
           Release(D) => lock' \in [Sources -> [owner : Conns \cup {None}, left : Leases]]
  BY <1>2, SavesType
<1> HIDE DEF f, c
<1>8. CASE Purge(k)
  <2>1. RestOK' /\ binding' = binding
    BY <1>6, <1>8 DEF Purge, RestOK
  <2> QED BY <1>5, <1>8, <2>1 DEF Purge, f
<1>9. CASE Unindex(k)
  <2>1. RestOK' /\ binding' = binding
    BY <1>6, <1>9 DEF Unindex, RestOK
  <2> QED BY <1>5, <1>9, <2>1 DEF Unindex, f
<1>10. CASE Unlock(k)
  <2>1. RestOK' /\ binding' = binding /\ Goes(k, f.after) /\ f.step = "unlock"
    BY <1>2, <1>6, <1>7, <1>10 DEF Unlock, RestOK, f
  <2>2. /\ f.after \in Steps /\ (f.after \in BindSteps <=> BindsIn(f))
        /\ f.after \notin {"refresh", "renewSave", "metaSave"}
    BY <1>2, <2>1 DEF BindsIn, BindSteps, Steps
  <2> QED BY <1>4, <2>1, <2>2
<1>11. CASE Claim(k)
  <2>1. f.step = "claim" /\ BindsIn(f) /\ "save" \in BindSteps /\ "idle" \notin BindSteps
        /\ "save" \in Steps /\ "idle" \in Steps
    BY <1>11 DEF Claim, f, BindsIn, BindSteps, Steps
  <2>2. CASE MayOwn(c)
    <3>1. RestOK' /\ binding' = binding /\ Goes(k, "save")
      BY <1>6, <1>7, <1>11, <2>2 DEF Claim, RestOK, f, c
    <3> QED BY <1>4, <2>1, <3>1
  <2>3. CASE ~MayOwn(c)
    <3>1. RestOK' /\ binding' = [binding EXCEPT ![c] = "closed"] /\ Goes(k, "idle")
      BY <1>6, <1>2, <1>11, <2>3 DEF Claim, RestOK, Drops, f, c
    <3> QED BY <1>4, <2>1, <3>1
  <2> QED BY <2>2, <2>3
<1>12. CASE SaveNew(k)
  <2>1. f.step = "save" /\ BindsIn(f) /\ {"bound", "undo"} \subseteq BindSteps /\ BindSteps \subseteq Steps
    BY <1>12 DEF SaveNew, f, BindsIn, BindSteps, Steps
  <2>2. "connected" \in Statuses
    BY DEF Statuses
  <2>3. RestOK' /\ binding' = binding
    BY <1>2, <1>6, <1>7, <1>12, <2>2 DEF SaveNew, RestOK, f, c
  <2>4. Goes(k, "bound") \/ Goes(k, "undo")
    BY <1>12 DEF SaveNew
  <2> QED BY <1>4, <2>1, <2>3, <2>4
<1>13. CASE Undo(k)
  <2>1. f.step = "undo" /\ BindsIn(f) /\ "idle" \notin BindSteps /\ "idle" \in Steps
    BY <1>13 DEF Undo, f, BindsIn, BindSteps, Steps
  <2>2. RestOK' /\ binding' = [binding EXCEPT ![c] = "closed"] /\ Goes(k, "idle")
    BY <1>2, <1>6, <1>7, <1>13 DEF Undo, RestOK, Drops, f, c
  <2> QED BY <1>4, <2>1, <2>2
<1>14. CASE Bound(k)
  <2>1. f.step = "bound" /\ BindsIn(f) /\ "idle" \notin BindSteps /\ "idle" \in Steps
    BY <1>14 DEF Bound, f, BindsIn, BindSteps, Steps
  <2>2. RestOK' /\ binding' = [binding EXCEPT ![c] = "open"] /\ Goes(k, "idle")
    BY <1>2, <1>6, <1>14 DEF Bound, RestOK, f, c
  <2> QED BY <1>4, <2>1, <2>2
<1>15. ASSUME f.step \notin BindSteps, f.after = "idle"
       PROVE  ~BindsIn(f)
  BY <1>15 DEF BindsIn
<1>16. CASE Refresh(k)
  <2>1. ~BindsIn(f) /\ {"renewSave", "renewed"} \subseteq Steps \ BindSteps /\ f.status \in Statuses
    BY <1>2, <1>15, <1>16 DEF Refresh, f, BindSteps, Steps
  <2>2. RestOK' /\ binding' = binding /\ (Goes(k, "renewSave") \/ Goes(k, "renewed"))
    BY <1>6, <1>7, <1>16 DEF Refresh, RestOK, f, c
  <2> QED BY <1>4, <2>1, <2>2
<1>17. CASE RenewSave(k) \/ MetaSave(k)
  <2>1. ~BindsIn(f) /\ {"idle", "renewed"} \subseteq Steps \ BindSteps
    BY <1>2, <1>15, <1>17 DEF RenewSave, MetaSave, f, BindSteps, Steps
  <2>2. SaveRead(k) /\ (Goes(k, "renewed") \/ Goes(k, "idle"))
    BY <1>17 DEF RenewSave, MetaSave
  <2>3. f.status \in Statuses
    BY <1>2, <1>17 DEF RenewSave, MetaSave, f
  <2>4. \E status \in Statuses, left \in Leases : Save(c, status, left)
    BY <1>2, <2>2, <2>3 DEF SaveRead, f, c
  <2>5. RestOK' /\ binding' = binding
    BY <1>2, <1>6, <1>7, <2>2, <2>4 DEF SaveRead, RestOK, c, f
  <2> QED BY <1>4, <2>1, <2>2, <2>5
<1>18. CASE Renewed(k)
  <2>1. ~BindsIn(f) /\ "idle" \in Steps \ BindSteps
    BY <1>2, <1>15, <1>18 DEF Renewed, f, BindSteps, Steps
  <2>2. RestOK' /\ binding' = binding
    BY <1>6, <1>18 DEF Renewed, RestOK
  <2>3. CASE Goes(k, "idle")
    BY <1>4, <2>1, <2>2, <2>3
  <2>4. ASSUME NEW found \in {"metaSave", "idle"}, Becomes(k, AfterGet(c, found, "idle"))
        PROVE  GatewayInv'
    <3>1. Calling(k, AfterGet(c, found, "idle")) /\ ~BindsIn(AfterGet(c, found, "idle"))
      BY <1>2, <2>4, ReaderGoesOn
    <3>2. Binding(f, AfterGet(c, found, "idle"))
      BY <2>1, <2>2, <3>1 DEF Binding
    <3> QED BY <2>2, <3>1, <3>2, CallingKeepsTypes DEF f
  <2> QED BY <1>18, <2>3, <2>4 DEF Renewed, f, c
<1>19. CASE CloseSave(k)
  <2>1. ~BindsIn(f) /\ "release" \in Steps \ BindSteps /\ "closed" \in Statuses
    BY <1>2, <1>15, <1>19 DEF CloseSave, f, BindSteps, Steps, Statuses
  <2>2. RestOK' /\ binding' = binding /\ Goes(k, "release")
    BY <1>2, <1>6, <1>7, <1>19, <2>1 DEF CloseSave, RestOK, f, c
  <2> QED BY <1>4, <2>1, <2>2
<1>20. CASE DeleteKeys(k)
  <2>1. ~BindsIn(f) /\ "release" \in Steps \ BindSteps
    BY <1>2, <1>15, <1>20 DEF DeleteKeys, f, BindSteps, Steps
  <2>2. RestOK' /\ binding' = binding /\ Goes(k, "release")
    BY <1>6, <1>20 DEF DeleteKeys, RestOK
  <2> QED BY <1>4, <2>1, <2>2
<1>21. CASE ReleaseOwner(k)
  <2>1. ~BindsIn(f) /\ "idle" \in Steps \ BindSteps
    BY <1>2, <1>15, <1>21 DEF ReleaseOwner, f, BindSteps, Steps
  <2>2. RestOK' /\ binding' = binding /\ Goes(k, "idle")
    BY <1>2, <1>6, <1>7, <1>21 DEF ReleaseOwner, RestOK, f, c
  <2> QED BY <1>4, <2>1, <2>2
<1>22. CASE Fail(k)
  <2>1. /\ Calling(k, Idle) /\ ~BindsIn(Idle)
    BY <1>22, IdleIsCall DEF Fail, Calling, Becomes, BindsIn, Idle
  <2>2. RestOK' /\ Binding(f, Idle)
    BY <1>2, <1>6, <1>22, <2>1 DEF Fail, RestOK, Drops, Binding, Binds, BindsIn, f, c
  <2> QED BY <2>1, <2>2, CallingKeepsTypes DEF f
<1> QED BY <1>1, <1>2, <1>8, <1>9, <1>10, <1>11, <1>12, <1>13, <1>14, <1>16, <1>17, <1>18, <1>19, <1>20, <1>21,
            <1>22 DEF Handle, f, c

(* ... until its gateway crashes; time passes for all.                     *)
LEMMA FaultKeepsTypes ==
  ASSUME GatewayInv, (\E D \in SUBSET Conns : Crash(D)) \/ Tick \/ (\E c \in Conns : Expire(c))
  PROVE  GatewayInv'
<1>1. /\ RestOK /\ call \in [Calls -> CallRecord] /\ Shape
      /\ \A k \in Calls : CallOK(call[k])
      /\ \A c \in Conns : binding[c] = "pending" <=> \E k \in Calls : Binds(k) /\ call[k].conn = c
  BY SavesType DEF GatewayInv, TypeOK
<1>2. \A left \in Leases : Less(left) \in Leases /\ Less(left) <= left
  BY GatewayAssumption DEF Leases, Less
<1>3. CASE \E c \in Conns : Expire(c)
  BY <1>1, <1>3 DEF Expire, RestOK, GatewayInv, TypeOK, Shape, Binds, BindsIn
<1>4. CASE Tick
  <2>1. RestOK'
    <3>1. record' \in [Conns -> SessionRecord \cup {None}]
      <4>1. ASSUME NEW c \in Conns, record[c] # None
            PROVE  [record[c] EXCEPT !.left = Less(@)] \in SessionRecord
        BY <1>1, <1>2, <4>1 DEF RestOK, SessionRecord
      <4> QED BY <1>4, <4>1 DEF Tick
    <3>2. lock' \in [Sources -> [owner : Conns \cup {None}, left : Leases]]
      <4>1. ASSUME NEW s \in Sources
            PROVE  (IF lock[s].left > 1 THEN [lock[s] EXCEPT !.left = @ - 1] ELSE NoOwner)
                     \in [owner : Conns \cup {None}, left : Leases]
        <5>1. lock[s] \in [owner : Conns \cup {None}, left : Leases]
          BY <1>1 DEF RestOK
        <5> QED BY <5>1, GatewayAssumption DEF Leases, NoOwner
      <4> QED BY <1>4, <4>1 DEF Tick
    <3> QED BY <1>1, <1>4, <3>1, <3>2 DEF Tick, RestOK
  <2>2. ASSUME NEW k \in Calls
        PROVE  /\ call'[k] \in CallRecord /\ CallOK(call'[k])
               /\ call'[k].conn = call[k].conn /\ call'[k].step = call[k].step
               /\ call'[k].after = call[k].after /\ call'[k].status = call[k].status
    <3>1. call[k] \in CallRecord /\ call[k].left \in Leases /\ CallOK(call[k])
      BY <1>1 DEF CallRecord
    <3>2. call'[k] = [call[k] EXCEPT !.left = Less(@)]
      BY <1>4 DEF Tick
    <3>3. /\ call'[k] \in CallRecord /\ call'[k].left = Less(call[k].left)
          /\ call'[k].conn = call[k].conn /\ call'[k].step = call[k].step
          /\ call'[k].after = call[k].after /\ call'[k].status = call[k].status
      BY <1>2, <3>1, <3>2 DEF CallRecord
    <3>4. call[k] = Idle => call'[k] = Idle
      BY <3>2 DEF Idle, Less
    <3>5. CallOK(call'[k])
      BY <3>1, <3>3, <3>4 DEF CallOK, Less
    <3> QED BY <3>3, <3>5
  <2>3. call' \in [Calls -> CallRecord]
    BY <1>4, <2>2 DEF Tick
  <2>4. Shape'
    BY <1>1, <2>2 DEF Shape, BindsIn
  <2>5. \A k \in Calls : Binds(k)' <=> Binds(k)
    BY <2>2 DEF Binds
  <2>6. binding' = binding /\ resurrected' = resurrected
    BY <1>4 DEF Tick
  <2>7. \A c \in Conns : binding'[c] = "pending" <=> \E k \in Calls : Binds(k)' /\ call'[k].conn = c
    BY <1>1, <2>2, <2>5, <2>6
  <2> QED BY <2>1, <2>2, <2>3, <2>4, <2>7 DEF GatewayInv, TypeOK, RestOK
<1>5. ASSUME NEW D \in SUBSET Conns, Crash(D)
      PROVE  GatewayInv'
  <2>1. RestOK'
    BY <1>1, <1>5 DEF Crash, RestOK
  <2>2. \A k \in Calls : \/ call'[k] = Idle /\ call[k].conn \in D
                         \/ call'[k] = call[k] /\ call[k].conn \notin D
    BY <1>5 DEF Crash
  <2>3. call' \in [Calls -> CallRecord] /\ \A k \in Calls : CallOK(call'[k])
    BY <1>1, <1>5, <2>2, IdleIsCall DEF Crash
  <2>4. Idle.step = "idle" /\ Idle.after = "idle" /\ ~BindsIn(Idle)
    BY DEF Idle, BindsIn, BindSteps
  <2>5. Shape'
    <3>1. ASSUME NEW k \in Calls
          PROVE  /\ call'[k].step # "idle" => call'[k].conn \in Conns
                 /\ call'[k].after \in {"idle", "renewed", "claim"}
                 /\ call'[k].after # "idle" => call'[k].step \in {"purge", "unindex", "unlock"}
                 /\ call'[k].step \in {"refresh", "renewSave", "metaSave"} => call'[k].status \in Statuses
      BY <1>1, <2>2, <2>4 DEF Shape
    <3>2. ASSUME NEW j \in Calls, NEW k \in Calls,
                 BindsIn(call'[j]), BindsIn(call'[k]), call'[j].conn = call'[k].conn
          PROVE  j = k
      BY <1>1, <2>2, <2>4, <3>2 DEF Shape
    <3> QED BY <3>1, <3>2 DEF Shape, BindsIn
  <2>6. ASSUME NEW c \in Conns
        PROVE  binding'[c] = "pending" <=> \E k \in Calls : Binds(k)' /\ call'[k].conn = c
    <3>1. \A k \in Calls : Binds(k) <=> BindsIn(call[k])
      BY DEF Binds, BindsIn
    <3>2. \A k \in Calls : Binds(k)' <=> BindsIn(call'[k])
      BY DEF Binds, BindsIn
    <3>3. binding'[c] = IF c \in D THEN "closed" ELSE binding[c]
      BY <1>5 DEF Crash
    <3> QED BY <1>1, <2>2, <2>4, <3>1, <3>2, <3>3
  <2> QED BY <1>5, <2>1, <2>3, <2>5, <2>6 DEF Crash, GatewayInv, TypeOK, RestOK
<1> QED BY <1>3, <1>4, <1>5

LEMMA InitTypes == Init => GatewayInv
<1> SUFFICES ASSUME Init PROVE GatewayInv
  OBVIOUS
<1>1. NoOwner \in [owner : Conns \cup {None}, left : Leases]
  BY GatewayAssumption DEF NoOwner, Leases
<1>2. \A k \in Calls : call[k] = Idle
  BY DEF Init
<1>3. Idle \in CallRecord /\ CallOK(Idle) /\ ~BindsIn(Idle) /\ Idle.step = "idle" /\ Idle.after = "idle"
  BY IdleIsCall DEF BindsIn, Idle
<1>4. RestOK
  BY <1>1 DEF Init, RestOK
<1>5. call \in [Calls -> CallRecord] /\ \A k \in Calls : CallOK(call[k])
  BY <1>2, <1>3 DEF Init
<1>6. Shape
  BY <1>2, <1>3 DEF Shape
<1>7. \A c \in Conns : binding[c] = "pending" <=> \E k \in Calls : Binds(k) /\ call[k].conn = c
  BY <1>2, <1>3 DEF Init, Binds, BindsIn
<1> QED BY <1>4, <1>5, <1>6, <1>7 DEF GatewayInv, TypeOK, RestOK

LEMMA NextKeepsTypes == GatewayInv /\ [Next]_vars => GatewayInv'
<1> SUFFICES ASSUME GatewayInv, [Next]_vars PROVE GatewayInv'
  OBVIOUS
<1>1. ASSUME NEW k \in Calls, NEW c \in Conns,
             \/ Close(k, c) \/ Bind(k, c) \/ Message(k, c)
             \/ Delete(k, c) \/ Patch(k, c) \/ Lookup(k, c)
      PROVE  GatewayInv'
  BY <1>1, BeginningKeepsTypes, BindKeepsTypes
<1>2. ASSUME NEW k \in Calls, Handle(k) PROVE GatewayInv'
  BY <1>2, HandlingKeepsTypes
<1>3. CASE (\E D \in SUBSET Conns : Crash(D)) \/ Tick \/ (\E c \in Conns : Expire(c))
  BY <1>3, FaultKeepsTypes
<1>4. CASE UNCHANGED vars
  BY <1>4 DEF vars, GatewayInv, TypeOK, Shape, Binds, BindsIn
<1> QED BY <1>1, <1>2, <1>3, <1>4 DEF Next

(* The state keeps its shape: a call saves what it has read, a connection   *)
(* is pending exactly while its one bind is in flight, and no lease is     *)
(* longer than ownerLeaseTtlMs.                                            *)
THEOREM GatewayTypes == Spec => []TypeOK
<1>1. Spec => []GatewayInv
  BY InitTypes, NextKeepsTypes, PTL DEF Spec
<1>2. GatewayInv => TypeOK
  BY DEF GatewayInv
<1> QED BY <1>1, <1>2, PTL

-----------------------------------------------------------------------------
(* What a lease promises: c holds its source for at least left ticks.      *)
Secure(c, left) == left > 0 => Holder(source[c]) = c /\ lock[source[c]].left >= left

(* A session that needs no promise: its connection has closed, or its end   *)
(* was overwritten.  One that has ended gives its source back, if its end  *)
(* was not overwritten.                                                    *)
Excused(c) == c \in resurrected \/ binding[c] = "closed"
Ended(c) == ~Live(c) \/ c \in resurrected

(* Until its bind has saved it, nobody but its bind knows of a session.     *)
Unsaved(f) == f.step \in {"claim", "save"} \/ f.after = "claim"
Young(c) == binding[c] = "none" \/ \E k \in Calls : call[k].conn = c /\ Unsaved(call[k])
Alone(k, c) == \A j \in Calls \ {k} : c \notin call[j].stale /\ call[j].conn # c

Youth ==
  \A c \in Conns : Young(c) =>
    /\ record[c] = None
    /\ \A k \in Calls : c \notin call[k].stale /\ (call[k].conn = c => Unsaved(call[k]))

(* A live session holds its source for its lease, and so does one that a    *)
(* call is about to save; a call that gives a source back does so for a    *)
(* session that has ended.                                                 *)
HeldAt(c) == Live(c) /\ ~Excused(c) => Secure(c, record[c].left) /\ c \in index

HeldBy(k, c) ==
  /\ call[k].conn = c =>
       /\ call[k].step \in {"renewSave", "metaSave"} /\ call[k].status = "connected"
            /\ Live(c) /\ ~Excused(c) => Secure(c, call[k].left)
       /\ call[k].step = "save" => Secure(c, call[k].left)
       /\ call[k].step = "release" => Ended(c)
  /\ call[k].step \in {"unindex", "unlock"} /\ c \in call[k].stale => Ended(c)

OwnInv ==
  /\ GatewayInv /\ Youth
  /\ \A c \in Conns : HeldAt(c)
  /\ \A k \in Calls, c \in Conns : HeldBy(k, c)

(* An unsaved session has one call, its bind, and is not ended by others.   *)
LEMMA YoungFacts ==
  ASSUME OwnInv
  PROVE  /\ \A k \in Calls : Unsaved(call[k]) => BindsIn(call[k]) /\ call[k].conn \in Conns
         /\ \A k \in Calls : BindsIn(call[k]) => binding[call[k].conn] = "pending"
         /\ \A k \in Calls : Unsaved(call[k]) =>
              Young(call[k].conn) /\ record[call[k].conn] = None /\ Alone(k, call[k].conn)
         /\ \A c \in Conns : Young(c) => binding[c] \in {"none", "pending"}
         /\ \A c \in Conns, k \in Calls : call[k].conn = c /\ ~Unsaved(call[k]) => ~Young(c)
         /\ \A c \in Conns, k \in Calls : binding[c] = "none" => Alone(k, c)
<1>1. TypeOK /\ Shape /\ Youth
  BY DEF OwnInv, GatewayInv
<1>2. \A k \in Calls : Unsaved(call[k]) => BindsIn(call[k])
  BY DEF Unsaved, BindsIn, BindSteps
<1>3. \A k \in Calls : BindsIn(call[k]) => call[k].conn \in Conns
  BY <1>1 DEF Shape, BindsIn, BindSteps
<1>4. \A k \in Calls : BindsIn(call[k]) => binding[call[k].conn] = "pending"
  BY <1>1, <1>3 DEF TypeOK, Binds, BindsIn
<1>5. ASSUME NEW k \in Calls, Unsaved(call[k])
      PROVE  Young(call[k].conn) /\ record[call[k].conn] = None /\ Alone(k, call[k].conn)
  <2>1. Young(call[k].conn)
    BY <1>5 DEF Young
  <2>2. call[k].conn \in Conns
    BY <1>2, <1>3, <1>5
  <2> QED BY <1>1, <1>2, <1>5, <2>1, <2>2 DEF Youth, Alone, Shape
<1>6. \A c \in Conns : Young(c) => binding[c] \in {"none", "pending"}
  BY <1>2, <1>4 DEF Young
<1>7. \A c \in Conns, k \in Calls : call[k].conn = c /\ ~Unsaved(call[k]) => ~Young(c)
  BY <1>1 DEF Youth
<1>8. \A c \in Conns, k \in Calls : binding[c] = "none" => Alone(k, c)
  BY <1>1, <1>2, <1>4 DEF Youth, Young, Alone
<1> QED BY <1>2, <1>3, <1>4, <1>5, <1>6, <1>7, <1>8

(* What a step of call k leaves to the sessions it is not about.            *)
LEMMA OthersKeep ==
  ASSUME OwnInv, GatewayInv', source' = source, NEW k \in Calls,
         \A j \in Calls \ {k} : call'[j] = call[j],
         \A d \in Conns : Young(d)' =>
           Young(d) /\ record'[d] = None /\ d \notin call'[k].stale /\ (call'[k].conn = d => Unsaved(call'[k])),
         \A d \in Conns : \/ Alone(k, d)
                          \/ /\ Live(d)' /\ ~Excused(d)' => Live(d) /\ ~Excused(d)
                             /\ Ended(d) => Ended(d)',
         \A d \in Conns, left \in Leases :
           Secure(d, left) /\ (Young(d) \/ (Live(d) /\ ~Excused(d) /\ ~Excused(d)')) => Secure(d, left)',
         \A d \in Conns : HeldAt(d)',
         \A d \in Conns : HeldBy(k, d)'
  PROVE  OwnInv'
<1>1. TypeOK /\ Shape /\ Youth /\ call \in [Calls -> CallRecord]
  BY DEF OwnInv, GatewayInv, TypeOK
<1>2. Youth'
  <2>1. \A d \in Conns : Young(d)' =>
          \A j \in Calls \ {k} : d \notin call'[j].stale /\ (call'[j].conn = d => Unsaved(call'[j]))
    BY <1>1 DEF Youth
  <2> QED BY <2>1 DEF Youth, Unsaved
<1>3. ASSUME NEW j \in Calls \ {k}, NEW d \in Conns PROVE HeldBy(j, d)'
  <2>1. /\ call'[j] = call[j] /\ call[j].left \in Leases /\ HeldBy(j, d)
        /\ call[j].step = "save" => Unsaved(call[j])
    BY <1>1 DEF CallRecord, OwnInv, Unsaved
  <2>2. \A left \in Leases :
          Secure(d, left) /\ (Young(d) \/ (Live(d) /\ ~Excused(d) /\ ~Excused(d)')) => Secure(d, left)'
    OBVIOUS
  <2>3. call[j].conn = d \/ d \in call[j].stale =>
          (Live(d)' /\ ~Excused(d)' => Live(d) /\ ~Excused(d)) /\ (Ended(d) => Ended(d)')
    BY DEF Alone
  <2>4. call[j].conn = d /\ call[j].step = "save" => Young(d)
    BY <2>1 DEF Young
  <2>5. Secure(d, call[j].left) /\ (Young(d) \/ (Live(d) /\ ~Excused(d) /\ ~Excused(d)'))
          => Secure(d, call[j].left)'
    BY <2>1, <2>2 DEF Secure, Holder
  <2> QED BY <2>1, <2>3, <2>4, <2>5 DEF HeldBy
<1> QED BY <1>2, <1>3 DEF OwnInv

(* A step that only changes the state of connections and of call k.         *)
LEMMA YoungStay ==
  ASSUME NEW k \in Calls, \A j \in Calls \ {k} : call'[j] = call[j],
         \A d \in Conns : binding'[d] = "none" => binding[d] = "none",
         Unsaved(call'[k]) => \/ Unsaved(call[k]) /\ call'[k].conn = call[k].conn
                              \/ binding[call'[k].conn] = "none"
  PROVE  \A d \in Conns : Young(d)' => Young(d)
<1> SUFFICES ASSUME NEW d \in Conns, Young(d)' PROVE Young(d)
  OBVIOUS
<1>1. CASE binding'[d] = "none"
  BY <1>1 DEF Young
<1>2. ASSUME NEW j \in Calls, call'[j].conn = d, Unsaved(call'[j]) PROVE Young(d)
  BY <1>2 DEF Young
<1> QED BY <1>1, <1>2 DEF Young, Unsaved

LEMMA QuietKeeps ==
  ASSUME OwnInv, GatewayInv', UNCHANGED <<source, record, index, lock, resurrected>>, NEW k \in Calls,
         \A j \in Calls \ {k} : call'[j] = call[j],
         \A d \in Conns : /\ binding'[d] = "none" => binding[d] = "none"
                          /\ binding[d] = "closed" => binding'[d] = "closed",
         Unsaved(call'[k]) => \/ Unsaved(call[k]) /\ call'[k].conn = call[k].conn
                              \/ binding[call'[k].conn] = "none",
         \A d \in Conns : Young(d)' => d \notin call'[k].stale /\ (call'[k].conn = d => Unsaved(call'[k])),
         \A d \in Conns : HeldBy(k, d)'
  PROVE  OwnInv'
<1>1. \A d \in Conns : Young(d)' => Young(d)
  BY YoungStay
<1>2. \A d \in Conns : Young(d)' => record'[d] = None
  BY <1>1 DEF OwnInv, Youth
<1>3. \A d \in Conns : /\ Live(d)' <=> Live(d)
                       /\ Excused(d) => Excused(d)'
                       /\ Ended(d)' <=> Ended(d)
  BY DEF Live, Excused, Ended
<1>4. \A d \in Conns, left \in Leases : Secure(d, left) => Secure(d, left)'
  BY DEF Secure, Holder
<1>5. \A d \in Conns : HeldAt(d)'
  <2> SUFFICES ASSUME NEW d \in Conns PROVE HeldAt(d)'
    OBVIOUS
  <2>1. HeldAt(d)
    BY DEF OwnInv
  <2>2. Secure(d, record[d].left) => Secure(d, record[d].left)'
    BY DEF Secure, Holder
  <2> QED BY <1>3, <2>1, <2>2 DEF HeldAt
<1> QED BY <1>1, <1>2, <1>3, <1>4, <1>5, OthersKeep

(* A call that reads a session which is not about to be saved.              *)
LEMMA ReadKeeps ==
  ASSUME OwnInv, GatewayInv', UNCHANGED <<source, record, index, lock, resurrected>>,
         NEW k \in Calls, NEW c \in Conns, ~Young(c),
         NEW found \in {"closeSave", "refresh", "deleteKeys", "metaSave", "idle"},
         NEW missing \in {"idle", "renewed"}, Becomes(k, AfterGet(c, found, missing)),
         \A d \in Conns : /\ binding'[d] = "none" => binding[d] = "none"
                          /\ binding[d] = "closed" => binding'[d] = "closed"
  PROVE  OwnInv'
<1> DEFINE g == AfterGet(c, found, missing)
<1>1. TypeOK /\ call \in [Calls -> CallRecord]
  BY DEF OwnInv, GatewayInv, TypeOK
<1>2. /\ g.step \in {"purge", found, missing} /\ g.after \in {"idle", "renewed"}
      /\ g.step # "idle" => g.conn = c
      /\ g.step = "idle" => g.conn = None
      /\ g.step = "purge" => g.stale = {c}
      /\ g.step # "purge" => g.stale = {}
      /\ g.step = "metaSave" => g.left = record[c].left
  BY <1>1, GetsSession
<1>3. call'[k] = g /\ \A j \in Calls \ {k} : call'[j] = call[j]
  BY <1>1 DEF Becomes
<1> HIDE DEF g
<1>4. ~Unsaved(call'[k])
  BY <1>2, <1>3 DEF Unsaved
<1>5. \A d \in Conns : Young(d)' => Young(d)
  BY <1>3, <1>4, YoungStay
<1>6. \A d \in Conns : call'[k].conn = d \/ d \in call'[k].stale => d = c
  BY <1>2, <1>3, NoneAssumption, GatewayAssumption
<1>7. ASSUME NEW d \in Conns PROVE HeldBy(k, d)'
  <2>1. HeldAt(d)
    BY DEF OwnInv
  <2>2. Live(d)' /\ ~Excused(d)' => Live(d) /\ ~Excused(d)
    BY DEF Live, Excused
  <2>3. ASSUME call'[k].step = "metaSave", call'[k].conn = d, Live(d)', ~Excused(d)'
        PROVE  Secure(d, call[k].left)'
    BY <1>2, <1>3, <1>6, <2>1, <2>2, <2>3 DEF HeldAt, Secure, Holder
  <2> QED BY <1>2, <1>3, <2>3 DEF HeldBy
<1> QED BY <1>3, <1>4, <1>5, <1>6, <1>7, QuietKeeps

LEMMA BeginningKeepsOwned ==
  ASSUME OwnInv, GatewayInv', NEW k \in Calls, NEW c \in Conns,
         Close(k, c) \/ Message(k, c) \/ Delete(k, c) \/ Patch(k, c) \/ Lookup(k, c)
  PROVE  OwnInv'
<1>1. RestOK /\ call \in [Calls -> CallRecord] /\ Youth
  BY SavesType DEF OwnInv, GatewayInv, TypeOK
<1>2. \A d \in Conns : record[d] # None \/ binding[d] = "open" => ~Young(d)
  BY <1>1, YoungFacts DEF Youth
<1>3. CASE Close(k, c) /\ binding[c] # "open"
  <2>1. /\ UNCHANGED <<source, record, index, lock, resurrected, call>>
        /\ binding' = [binding EXCEPT ![c] = IF @ = "none" THEN "closed" ELSE @]
    BY <1>3 DEF Close
  <2>2. \A d \in Conns : /\ binding'[d] = "none" => binding[d] = "none"
                         /\ binding[d] = "closed" => binding'[d] = "closed"
    BY <1>1, <2>1 DEF RestOK
  <2>3. \A d \in Conns : Young(d)' => Young(d)
    BY <2>1, <2>2, YoungStay
  <2>4. \A d \in Conns : Young(d)' => d \notin call'[k].stale /\ (call'[k].conn = d => Unsaved(call'[k]))
    BY <1>1, <2>1, <2>3 DEF Youth
  <2>5. \A d \in Conns : HeldBy(k, d)'
    <3> SUFFICES ASSUME NEW d \in Conns PROVE HeldBy(k, d)'
      OBVIOUS
    <3>1. HeldBy(k, d)
      BY DEF OwnInv
    <3> QED BY <2>1, <2>2, <3>1 DEF HeldBy, Live, Excused, Ended, Secure, Holder
  <2> QED BY <2>1, <2>2, <2>4, <2>5, QuietKeeps
<1>4. CASE Close(k, c) /\ binding[c] = "open"
  <2>1. /\ Becomes(k, AfterGet(c, "closeSave", "idle")) /\ ~Young(c)
        /\ UNCHANGED <<source, record, index, lock, resurrected>>
        /\ binding' = [binding EXCEPT ![c] = "closed"]
    BY <1>2, <1>4 DEF Close, Begins
  <2>2. \A d \in Conns : /\ binding'[d] = "none" => binding[d] = "none"
                         /\ binding[d] = "closed" => binding'[d] = "closed"
    BY <1>1, <2>1 DEF RestOK
  <2> QED BY <2>1, <2>2, ReadKeeps
<1>5. CASE Message(k, c)
  <2>1. /\ Becomes(k, AfterGet(c, "refresh", "renewed")) /\ ~Young(c)
        /\ UNCHANGED <<source, record, index, lock, resurrected, binding>>
    BY <1>2, <1>5 DEF Message, Begins
  <2> QED BY <2>1, ReadKeeps
<1>6. CASE Delete(k, c)
  <2>1. /\ Becomes(k, AfterGet(c, "deleteKeys", "idle")) /\ ~Young(c)
        /\ UNCHANGED <<source, record, index, lock, resurrected>>
        /\ binding' = [binding EXCEPT ![c] = "closed"] \/ binding' = binding
    BY <1>2, <1>6 DEF Delete, Drops, Begins
  <2>2. \A d \in Conns : /\ binding'[d] = "none" => binding[d] = "none"
                         /\ binding[d] = "closed" => binding'[d] = "closed"
    BY <1>1, <2>1 DEF RestOK
  <2> QED BY <2>1, <2>2, ReadKeeps
<1>7. CASE Patch(k, c)
  <2>1. /\ Becomes(k, AfterGet(c, "metaSave", "idle")) /\ ~Young(c)
        /\ UNCHANGED <<source, record, index, lock, resurrected, binding>>
    BY <1>2, <1>7 DEF Patch, Begins
  <2> QED BY <2>1, ReadKeeps
<1>8. CASE Lookup(k, c)
  <2>1. /\ Becomes(k, AfterGet(c, "idle", "idle")) /\ ~Young(c)
        /\ UNCHANGED <<source, record, index, lock, resurrected, binding>>
    BY <1>2, <1>8 DEF Lookup, Begins
  <2> QED BY <2>1, ReadKeeps
<1> QED BY <1>3, <1>4, <1>5, <1>6, <1>7, <1>8

(* A bind begins for a connection nobody knows of yet.                     *)
LEMMA BindKeepsOwned ==
  ASSUME OwnInv, GatewayInv', NEW k \in Calls, NEW c \in Conns, Bind(k, c)
  PROVE  OwnInv'
<1>1. RestOK /\ call \in [Calls -> CallRecord] /\ Youth /\ GatewayInv
  BY SavesType DEF OwnInv, GatewayInv, TypeOK
<1>2. PICK g : /\ Calling(k, g) /\ g.step \in {"idle", "claim", "purge"}
               /\ g.step # "idle" => g.conn = c
               /\ \A d \in g.stale : record[d] # None /\ ~Unexpired(d)
               /\ g.step # "purge" => g.stale = {} /\ g.after = "idle"
               /\ BindsIn(g) => binding'[c] = "pending"
               /\ ~BindsIn(g) => binding'[c] = "closed"
               /\ g.step = "purge" => g.after \in {"claim", "idle"}
  BY <1>1, BindKeepsTypes
<1>3. /\ binding[c] = "none" /\ UNCHANGED <<source, record, index, lock, resurrected>>
      /\ \A d \in Conns \ {c} : binding'[d] = binding[d]
  BY <1>1 DEF Bind, Drops, RestOK
<1>4. /\ call'[k] = g /\ (\A j \in Calls \ {k} : call'[j] = call[j])
      /\ (g.step = "idle" => g.conn = None) /\ (Unsaved(g) <=> BindsIn(g))
  <2>1. CallOK(g) /\ call'[k] = g /\ \A j \in Calls \ {k} : call'[j] = call[j]
    BY <1>1, <1>2 DEF Calling
  <2>2. g.step = "idle" => g.conn = None
    BY <2>1 DEF CallOK, Idle
  <2>3. Unsaved(g) <=> BindsIn(g)
    BY <1>2 DEF Unsaved, BindsIn, BindSteps
  <2> QED BY <2>1, <2>2, <2>3
<1>5. \A d \in Conns : /\ binding'[d] = "none" => binding[d] = "none"
                       /\ binding[d] = "closed" => binding'[d] = "closed"
  BY <1>2, <1>3
<1>6. Unsaved(call'[k]) => binding[call'[k].conn] = "none"
  BY <1>2, <1>3, <1>4 DEF Unsaved
<1>7. \A d \in Conns : Young(d)' => Young(d)
  BY <1>4, <1>5, <1>6, YoungStay
<1>8. Alone(k, c)
  BY <1>3, YoungFacts
<1>9. ASSUME NEW d \in Conns, Young(d)'
      PROVE  d \notin call'[k].stale /\ (call'[k].conn = d => Unsaved(call'[k]))
  <2>1. record[d] = None
    BY <1>1, <1>7, <1>9 DEF Youth
  <2>2. call'[k].conn = d /\ ~Unsaved(call'[k]) => ~Young(d)'
    <3> SUFFICES ASSUME call'[k].conn = d, ~Unsaved(call'[k]) PROVE ~Young(d)'
      OBVIOUS
    <3>1. d = c /\ binding'[c] = "closed"
      BY <1>2, <1>4, NoneAssumption, GatewayAssumption
    <3>2. \A j \in Calls : call'[j].conn = d => ~Unsaved(call'[j])
      BY <1>4, <1>8, <3>1 DEF Alone
    <3> QED BY <3>1, <3>2 DEF Young, Unsaved
  <2> QED BY <1>2, <1>4, <1>9, <2>1, <2>2
<1>10. \A d \in Conns : HeldBy(k, d)'
  BY <1>2, <1>4 DEF HeldBy
<1> QED BY <1>3, <1>4, <1>5, <1>6, <1>9, <1>10, QuietKeeps

(* What remains of call k when its handler goes on at step.                 *)
LEMMA GoesTo ==
  ASSUME GatewayInv, NEW k \in Calls, call[k].step # "idle", NEW step \in Steps, Goes(k, step)
  PROVE  /\ \A j \in Calls \ {k} : call'[j] = call[j]
         /\ call'[k].step = step /\ call'[k].stale = {} /\ call'[k].after = "idle"
         /\ call'[k].conn = IF step = "idle" THEN None ELSE call[k].conn
         /\ step \in Leasing => call'[k].left = call[k].left
         /\ call[k] \in CallRecord /\ call[k].conn \in Conns
<1>1. call \in [Calls -> CallRecord] /\ call[k] \in CallRecord /\ call[k].conn \in Conns
  BY DEF GatewayInv, TypeOK, Shape
<1>2. /\ Then(call[k], step).step = step
      /\ Then(call[k], step).stale = {} /\ Then(call[k], step).after = "idle"
      /\ step = "idle" => Then(call[k], step) = Idle
      /\ step # "idle" => Then(call[k], step).conn = call[k].conn
      /\ step \in Leasing => Then(call[k], step).left = call[k].left
  BY <1>1, ThenGoesOn
<1>3. call'[k] = Then(call[k], step) /\ \A j \in Calls \ {k} : call'[j] = call[j]
  BY <1>1 DEF Goes, Becomes
<1> QED BY <1>1, <1>2, <1>3 DEF Idle

(* A session that is saved, or will not be, is no longer unsaved.           *)
LEMMA BindGrowsUp ==
  ASSUME OwnInv, NEW k \in Calls, \A j \in Calls \ {k} : call'[j] = call[j],
         \A d \in Conns : binding'[d] = "none" => binding[d] = "none",
         Unsaved(call'[k]) => Unsaved(call[k]) /\ call'[k].conn = call[k].conn,
         call'[k].conn \in {call[k].conn, None}, call'[k].stale \subseteq call[k].stale
  PROVE  /\ \A d \in Conns : Young(d)' =>
              /\ Young(d) /\ record[d] = None
              /\ d \notin call'[k].stale /\ (call'[k].conn = d => Unsaved(call'[k]))
         /\ \A d \in Conns : call[k].conn = d /\ ~Unsaved(call'[k]) => ~Young(d)'
<1>1. \A d \in Conns : Young(d)' => Young(d)
  BY YoungStay
<1>2. Youth
  BY DEF OwnInv
<1>3. ASSUME NEW d \in Conns, call[k].conn = d, ~Unsaved(call'[k])
      PROVE  ~Young(d)'
  <2>1. CASE ~Unsaved(call[k])
    BY <1>1, <1>3, <2>1, YoungFacts
  <2>2. CASE Unsaved(call[k])
    <3>1. binding[d] = "pending" /\ Alone(k, d)
      BY <1>3, <2>2, YoungFacts
    <3>2. binding'[d] # "none" /\ \A j \in Calls : call'[j].conn = d => ~Unsaved(call'[j])
      BY <1>3, <3>1 DEF Alone
    <3> QED BY <3>2 DEF Young, Unsaved
  <2> QED BY <2>1, <2>2
<1>4. \A d \in Conns : call'[k].conn = d => call[k].conn = d
  BY NoneAssumption, GatewayAssumption
<1> QED BY <1>1, <1>2, <1>3, <1>4 DEF Youth

(* A step that changes no session, whatever it does to the locks.           *)
LEMMA LockKeeps ==
  ASSUME OwnInv, GatewayInv', UNCHANGED <<source, record, index, resurrected>>, NEW k \in Calls,
         \A j \in Calls \ {k} : call'[j] = call[j],
         \A d \in Conns : /\ binding'[d] = "none" => binding[d] = "none"
                          /\ binding[d] = "closed" => binding'[d] = "closed",
         Unsaved(call'[k]) => Unsaved(call[k]) /\ call'[k].conn = call[k].conn,
         call'[k].conn \in {call[k].conn, None}, call'[k].stale \subseteq call[k].stale,
         \A d \in Conns, left \in Leases :
           Secure(d, left) /\ (Young(d) \/ (Live(d) /\ ~Excused(d) /\ ~Excused(d)')) => Secure(d, left)',
         \A d \in Conns : HeldBy(k, d)'
  PROVE  OwnInv'
<1>1. \A d \in Conns : Young(d)' =>
        Young(d) /\ record'[d] = None /\ d \notin call'[k].stale /\ (call'[k].conn = d => Unsaved(call'[k]))
  BY BindGrowsUp
<1>2. \A d \in Conns : /\ Live(d)' <=> Live(d)
                       /\ Excused(d) => Excused(d)'
                       /\ Ended(d)' <=> Ended(d)
  BY DEF Live, Excused, Ended
<1>3. ASSUME NEW d \in Conns PROVE HeldAt(d)'
  <2>1. SUFFICES ASSUME Live(d)', ~Excused(d)' PROVE Secure(d, record[d].left)' /\ d \in index'
    BY DEF HeldAt
  <2>2. Live(d) /\ ~Excused(d)
    BY <1>2, <2>1
  <2>3. Secure(d, record[d].left) /\ d \in index /\ record[d].left \in Leases
    BY <2>2 DEF OwnInv, HeldAt, GatewayInv, TypeOK, Live, SessionRecord
  <2>4. \A left \in Leases : Secure(d, left) => Secure(d, left)'
    BY <2>1, <2>2
  <2> QED BY <2>3, <2>4 DEF Secure, Holder
<1> QED BY <1>1, <1>2, <1>3, OthersKeep

(* A source is given back only for a session that has ended, and taken only *)
(* when nobody has it: no other session loses it.                          *)
LEMMA ReleaseTakesNothing ==
  ASSUME OwnInv, source' = source, NEW D \in SUBSET Conns, Release(D), NEW d \in Conns, d \notin D,
         NEW left \in Leases, Secure(d, left)
  PROVE  Secure(d, left)'
<1>1. source[d] \in Sources
  BY DEF OwnInv, GatewayInv, TypeOK
<1> QED BY <1>1 DEF Secure, Release, Holder

LEMMA OwnsTakesNothing ==
  ASSUME OwnInv, source' = source, NEW c \in Conns, MayOwn(c), Owns(c), NEW d \in Conns,
         NEW left \in Leases
  PROVE  /\ Secure(d, left) => Secure(d, left)'
         /\ Secure(c, left)'
<1>1. /\ source[d] \in Sources /\ source[c] \in Sources
      /\ lock \in [Sources -> [owner : Conns \cup {None}, left : Leases]]
  BY DEF OwnInv, GatewayInv, TypeOK
<1>2. lock'[source[c]].owner = c /\ lock'[source[c]].left = Lease /\ left <= Lease /\ Lease \in Nat
  BY <1>1, GatewayAssumption DEF Owns, Leases
<1>3. source[d] # source[c] => lock'[source[d]] = lock[source[d]]
  BY <1>1 DEF Owns
<1>4. Secure(c, left)'
  BY <1>2, GatewayAssumption DEF Secure, Holder, Leases
<1>5. ASSUME Secure(d, left), source[d] = source[c], left > 0 PROVE d = c
  BY <1>5, NoneAssumption, GatewayAssumption DEF Secure, MayOwn, Holder
<1>6. Secure(d, left) => Secure(d, left)'
  BY <1>3, <1>4, <1>5 DEF Secure, Holder
<1> QED BY <1>4, <1>6

LEMMA LockingKeepsOwned ==
  ASSUME OwnInv, GatewayInv', NEW k \in Calls,
         \/ Unlock(k) \/ Claim(k) \/ Undo(k) \/ Bound(k)
         \/ Refresh(k) \/ Renewed(k) \/ ReleaseOwner(k) \/ Fail(k)
  PROVE  OwnInv'
<1> DEFINE f == call[k]
<1>1. /\ GatewayInv /\ RestOK /\ Shape /\ call \in [Calls -> CallRecord]
      /\ UNCHANGED <<source, record, index, resurrected>>
  BY SavesType DEF OwnInv, GatewayInv, TypeOK, Unlock, Claim, Undo, Bound, Refresh, Renewed, ReleaseOwner, Fail
<1>2. /\ f.step # "idle" /\ f.conn \in Conns /\ f \in CallRecord /\ f.stale \subseteq Conns
      /\ f.after \in {"idle", "renewed", "claim"}
      /\ f.after # "idle" => f.step \in {"purge", "unindex", "unlock"}
  BY <1>1 DEF Shape, CallRecord, Unlock, Claim, Undo, Bound, Refresh, Renewed, ReleaseOwner, Fail
<1>3. PICK c \in Conns : c = call[k].conn
  BY <1>2
<1>4. \A step \in Steps : Goes(k, step) =>
        /\ \A j \in Calls \ {k} : call'[j] = call[j]
        /\ call'[k].step = step /\ call'[k].stale = {} /\ call'[k].after = "idle"
        /\ call'[k].conn = IF step = "idle" THEN None ELSE c
        /\ step \in Leasing => call'[k].left = f.left
  BY <1>3, <1>1, <1>2, GoesTo
<1>5. {"idle", "save", "renewSave", "renewed", "claim"} \subseteq Steps
  BY DEF Steps, BindSteps
<1> HIDE DEF f
<1>6. ASSUME NEW step \in Steps, Goes(k, step), step \in {"claim", "save"} => Unsaved(f),
             \A d \in Conns : /\ binding'[d] = "none" => binding[d] = "none"
                              /\ binding[d] = "closed" => binding'[d] = "closed",
             \A d \in Conns, left \in Leases :
               Secure(d, left) /\ (Young(d) \/ (Live(d) /\ ~Excused(d) /\ ~Excused(d)')) => Secure(d, left)',
             step \notin {"release", "metaSave"},
             step \in {"save", "renewSave"} => \A left \in Leases : Secure(c, left)'
      PROVE  OwnInv'
  <2>1. /\ \A j \in Calls \ {k} : call'[j] = call[j]
        /\ call'[k].step = step /\ call'[k].stale = {} /\ call'[k].after = "idle"
        /\ call'[k].conn = IF step = "idle" THEN None ELSE call[k].conn
        /\ step \in Leasing => call'[k].left = call[k].left
    BY <1>3, <1>4, <1>6 DEF f
  <2>2. Unsaved(call'[k]) => Unsaved(call[k]) /\ call'[k].conn = call[k].conn
    BY <1>6, <2>1 DEF Unsaved, f
  <2>3. ASSUME NEW d \in Conns PROVE HeldBy(k, d)'
    <3>1. call'[k].conn = d => d = c
      BY <1>3, <2>1, NoneAssumption, GatewayAssumption DEF f
    <3>2. step \in {"save", "renewSave"} => call'[k].left \in Leases /\ call'[k].left = f.left
      BY <1>2, <2>1 DEF CallRecord, Leasing, f
    <3>3. step \in {"save", "renewSave"} => (call'[k].conn = d => Secure(d, call[k].left)')
      BY <1>6, <3>1, <3>2 DEF Secure, Holder
    <3> QED BY <1>6, <2>1, <3>3 DEF HeldBy
  <2> QED BY <1>1, <1>6, <2>1, <2>2, <2>3, LockKeeps
<1>7. CASE Unlock(k)
  <2>1. f.step = "unlock" /\ Goes(k, f.after) /\ Release(f.stale) /\ binding' = binding
    BY <1>7 DEF Unlock, f
  <2>2. \A d \in f.stale : Ended(d) /\ ~Young(d)
    BY <1>2, <2>1 DEF OwnInv, HeldBy, Youth, f
  <2>3. ASSUME NEW d \in Conns, NEW left \in Leases, Secure(d, left), Young(d) \/ (Live(d) /\ ~Excused(d))
        PROVE  Secure(d, left)'
    <3>1. d \notin f.stale
      BY <2>2, <2>3 DEF Ended, Excused
    <3> QED BY <1>1, <1>2, <2>1, <2>3, <3>1, ReleaseTakesNothing
  <2>4. f.after \in Steps /\ f.after \notin {"save", "renewSave", "release", "metaSave"}
        /\ (f.after = "claim" => Unsaved(f))
    BY <1>2 DEF Steps, BindSteps, Unsaved
  <2> QED BY <1>6, <2>1, <2>3, <2>4
<1>8. CASE Claim(k) /\ MayOwn(c)
  <2>1. Unsaved(f) /\ Goes(k, "save") /\ Owns(c) /\ binding' = binding
    BY <1>3, <1>8 DEF Claim, Unsaved, f
  <2>2. \A d \in Conns, left \in Leases : (Secure(d, left) => Secure(d, left)') /\ Secure(c, left)'
    BY <1>1, <1>2, <1>8, <2>1, OwnsTakesNothing
  <2> QED BY <1>5, <1>6, <2>1, <2>2
<1>9. CASE Refresh(k) /\ MayOwn(c)
  <2>1. Goes(k, "renewSave") /\ Owns(c) /\ binding' = binding
    BY <1>3, <1>9 DEF Refresh, f
  <2>2. \A d \in Conns, left \in Leases : (Secure(d, left) => Secure(d, left)') /\ Secure(c, left)'
    BY <1>1, <1>2, <1>9, <2>1, OwnsTakesNothing
  <2> QED BY <1>5, <1>6, <2>1, <2>2
<1>10. ASSUME NEW step \in {"idle", "renewed"}, Goes(k, step), lock' = lock,
             \A d \in Conns : /\ binding'[d] = "none" => binding[d] = "none"
                              /\ binding[d] = "closed" => binding'[d] = "closed"
      PROVE  OwnInv'
  <2>1. \A d \in Conns, left \in Leases : Secure(d, left) => Secure(d, left)'
    BY <1>1, <1>10 DEF Secure, Holder
  <2> QED BY <1>5, <1>6, <1>10, <2>1
<1>11. CASE (Claim(k) /\ ~MayOwn(c)) \/ Bound(k)
  <2>1. Goes(k, "idle") /\ lock' = lock
    BY <1>3, <1>11 DEF Claim, Bound, f
  <2>2. binding[c] = "pending"
    BY <1>3, <1>11, YoungFacts DEF Claim, Bound, BindsIn, BindSteps, f
  <2>3. binding' = [binding EXCEPT ![c] = "closed"] \/ binding' = [binding EXCEPT ![c] = "open"]
    BY <1>3, <1>11 DEF Claim, Bound, Drops, f
  <2>4. \A d \in Conns : /\ binding'[d] = "none" => binding[d] = "none"
                         /\ binding[d] = "closed" => binding'[d] = "closed"
    BY <1>1, <1>2, <2>2, <2>3 DEF RestOK
  <2> QED BY <1>10, <2>1, <2>4
<1>12. CASE Refresh(k) /\ ~MayOwn(c)
  <2>1. Goes(k, "renewed") /\ lock' = lock /\ binding' = binding
    BY <1>3, <1>12 DEF Refresh, f
  <2> QED BY <1>10, <2>1
<1>13. CASE Undo(k)
  <2>1. f.step = "undo" /\ Goes(k, "idle") /\ Release({c}) /\ binding' = [binding EXCEPT ![c] = "closed"]
    BY <1>3, <1>13 DEF Undo, Drops, f
  <2>2. binding[c] = "pending" /\ ~Young(c)
    <3>1. BindsIn(call[k]) /\ ~Unsaved(call[k])
      BY <1>2, <2>1 DEF BindsIn, BindSteps, Unsaved, f
    <3> QED BY <1>3, <1>2, <3>1, YoungFacts DEF f
  <2>3. \A d \in Conns : /\ binding'[d] = "none" => binding[d] = "none"
                         /\ binding[d] = "closed" => binding'[d] = "closed"
    BY <1>1, <2>1 DEF RestOK
  <2>4. Excused(c)'
    BY <1>1, <1>2, <2>1 DEF Excused, RestOK
  <2>5. ASSUME NEW d \in Conns, NEW left \in Leases, Secure(d, left), d # c PROVE Secure(d, left)'
    BY <1>1, <1>2, <2>1, <2>5, ReleaseTakesNothing
  <2>6. \A d \in Conns, left \in Leases :
          Secure(d, left) /\ (Young(d) \/ (Live(d) /\ ~Excused(d) /\ ~Excused(d)')) => Secure(d, left)'
    BY <2>2, <2>4, <2>5
  <2> QED BY <1>5, <1>6, <2>1, <2>3, <2>6
<1>14. CASE ReleaseOwner(k)
  <2>1. f.step = "release" /\ Goes(k, "idle") /\ Release({c}) /\ binding' = binding
    BY <1>3, <1>14 DEF ReleaseOwner, f
  <2>2. Ended(c) /\ ~Young(c)
    <3>1. HeldBy(k, c) /\ ~Unsaved(call[k])
      BY <1>2, <2>1 DEF OwnInv, Unsaved, f
    <3> QED BY <1>3, <1>2, <2>1, <3>1, YoungFacts DEF HeldBy, f
  <2>3. ASSUME NEW d \in Conns, NEW left \in Leases, Secure(d, left), Young(d) \/ (Live(d) /\ ~Excused(d))
        PROVE  Secure(d, left)'
    <3>1. d # c
      BY <2>2, <2>3 DEF Ended, Excused
    <3> QED BY <1>1, <1>2, <2>1, <2>3, <3>1, ReleaseTakesNothing
  <2> QED BY <1>5, <1>6, <2>1, <2>3
<1>15. CASE Renewed(k)
  <2>1. f.step = "renewed" /\ lock' = lock /\ binding' = binding
    BY <1>15 DEF Renewed, f
  <2>2. ~Young(c)
    <3>1. ~Unsaved(call[k])
      BY <1>2, <2>1 DEF Unsaved, f
    <3> QED BY <1>3, <1>2, <3>1, YoungFacts DEF f
  <2>3. CASE Goes(k, "idle")
    BY <1>10, <2>1, <2>3
  <2>4. ASSUME NEW found \in {"metaSave", "idle"}, Becomes(k, AfterGet(call[k].conn, found, "idle"))
        PROVE  OwnInv'
    <3>1. Becomes(k, AfterGet(c, found, "idle"))
      BY <1>3, <2>4
    <3> QED BY <1>1, <2>1, <2>2, <3>1, ReadKeeps
  <2> QED BY <1>15, <2>3, <2>4 DEF Renewed
<1>16. CASE Fail(k)
  <2>1. Goes(k, "idle") /\ lock' = lock
    <3>1. Then(call[k], "idle") = Idle
      BY DEF Then
    <3> QED BY <1>16, <3>1 DEF Fail, Goes
  <2>2. binding' = binding \/ binding' = [binding EXCEPT ![c] = "closed"]
    BY <1>3, <1>16 DEF Fail, Drops, f
  <2>3. \A d \in Conns : /\ binding'[d] = "none" => binding[d] = "none"
                         /\ binding[d] = "closed" => binding'[d] = "closed"
    BY <1>1, <2>2 DEF RestOK
  <2> QED BY <1>10, <2>1, <2>3
<1> QED BY <1>7, <1>8, <1>9, <1>11, <1>12, <1>13, <1>14, <1>15, <1>16

(* A record is saved with a lease that its source is held for; a session    *)
(* that ends is given back afterwards.                                     *)
LEMMA RecordingKeepsOwned ==
  ASSUME OwnInv, GatewayInv', NEW k \in Calls,
         \/ Purge(k) \/ Unindex(k) \/ SaveNew(k) \/ RenewSave(k) \/ MetaSave(k)
         \/ CloseSave(k) \/ DeleteKeys(k)
  PROVE  OwnInv'
<1> DEFINE f == call[k]
<1>1. /\ GatewayInv /\ RestOK /\ Shape /\ call \in [Calls -> CallRecord]
      /\ UNCHANGED <<source, binding, lock>>
  BY SavesType DEF OwnInv, GatewayInv, TypeOK, Purge, Unindex, SaveNew, RenewSave, MetaSave,
                   SaveRead, CloseSave, DeleteKeys
<1>2. /\ f.step # "idle" /\ f.conn \in Conns /\ f \in CallRecord /\ f.stale \subseteq Conns
      /\ f.left \in Leases
      /\ f.after # "idle" => f.step \in {"purge", "unindex", "unlock"}
  BY <1>1 DEF Shape, CallRecord, Purge, Unindex, SaveNew, RenewSave, MetaSave, CloseSave, DeleteKeys
<1>3. PICK c \in Conns : c = call[k].conn
  BY <1>2
<1>4. \A step \in Steps : Goes(k, step) =>
        /\ \A j \in Calls \ {k} : call'[j] = call[j]
        /\ call'[k].step = step /\ call'[k].stale = {} /\ call'[k].after = "idle"
        /\ call'[k].conn = IF step = "idle" THEN None ELSE c
  BY <1>1, <1>2, <1>3, GoesTo
<1>5. {"idle", "bound", "undo", "renewed", "release"} \subseteq Steps
  BY DEF Steps, BindSteps
<1> HIDE DEF f
<1>6. \A d \in Conns, left \in Leases : Secure(d, left) => Secure(d, left)'
  BY <1>1 DEF Secure, Holder
<1>7. \A d \in Conns : HeldAt(d) /\ HeldBy(k, d) /\ (Live(d) => record[d].left \in Leases)
  BY <1>1 DEF OwnInv, RestOK, Live, SessionRecord
<1>8. ASSUME UNCHANGED resurrected, \A j \in Calls \ {k} : call'[j] = call[j],
             call'[k] = [f EXCEPT !.step = "unindex"] \/ call'[k] = [f EXCEPT !.step = "unlock"],
             f.step \in {"purge", "unindex"},
             \A d \in Conns : record'[d] \in {record[d], None},
             \A d \in Conns : d \in f.stale => Ended(d)',
             \A d \in index \ index' : Ended(d)'
      PROVE  OwnInv'
  <2>1. /\ call'[k].conn = c /\ call'[k].stale = f.stale /\ call'[k].after = f.after
        /\ call'[k].step \in {"unindex", "unlock"}
    BY <1>2, <1>3, <1>8 DEF CallRecord, f
  <2>2. Unsaved(call'[k]) => Unsaved(call[k]) /\ call'[k].conn = call[k].conn
    BY <1>3, <2>1 DEF Unsaved, f
  <2>3. \A d \in Conns : Young(d)' =>
          Young(d) /\ record[d] = None /\ d \notin call'[k].stale /\ (call'[k].conn = d => Unsaved(call'[k]))
    BY <1>1, <1>3, <1>8, <2>1, <2>2, BindGrowsUp DEF f
  <2>4. \A d \in Conns : Young(d)' =>
          Young(d) /\ record'[d] = None /\ d \notin call'[k].stale /\ (call'[k].conn = d => Unsaved(call'[k]))
    BY <1>8, <2>3
  <2>5. \A d \in Conns : /\ Live(d)' => Live(d) /\ record'[d] = record[d]
                         /\ Excused(d)' <=> Excused(d)
    BY <1>1, <1>8 DEF Live, Excused
  <2>6. \A d \in Conns : Ended(d) => Ended(d)'
    BY <1>8, <2>5 DEF Ended
  <2>7. ASSUME NEW d \in Conns PROVE HeldAt(d)'
    <3>1. SUFFICES ASSUME Live(d)', ~Excused(d)' PROVE Secure(d, record[d].left)' /\ d \in index'
      BY DEF HeldAt
    <3>2. ~Ended(d)' /\ Secure(d, record[d].left) /\ d \in index /\ record[d].left \in Leases
          /\ record'[d] = record[d]
      BY <1>7, <2>5, <3>1 DEF HeldAt, Ended, Excused
    <3> QED BY <1>1, <1>8, <3>2 DEF Secure, Holder
  <2>8. \A d \in Conns : HeldBy(k, d)'
    BY <1>8, <2>1 DEF HeldBy
  <2> QED BY <1>1, <1>6, <1>8, <2>4, <2>5, <2>6, <2>7, <2>8, OthersKeep
<1>9. CASE Purge(k)
  <2>1. /\ f.step = "purge" /\ call' = [call EXCEPT ![k] = [f EXCEPT !.step = "unindex"]]
        /\ record' = [d \in Conns |-> IF d \in f.stale THEN None ELSE record[d]]
        /\ UNCHANGED <<index, resurrected>>
    BY <1>9 DEF Purge, Becomes, f
  <2>2. \A d \in Conns : d \in f.stale => Ended(d)'
    BY <2>1 DEF Ended, Live
  <2>3. \A d \in Conns : record'[d] \in {record[d], None}
    BY <2>1
  <2>4. call'[k] = [f EXCEPT !.step = "unindex"] /\ \A j \in Calls \ {k} : call'[j] = call[j]
    BY <1>1, <2>1
  <2> QED BY <1>8, <2>1, <2>2, <2>3, <2>4
<1>10. CASE Unindex(k)
  <2>1. /\ f.step = "unindex" /\ call' = [call EXCEPT ![k] = [f EXCEPT !.step = "unlock"]]
        /\ index' = index \ f.stale /\ UNCHANGED <<record, resurrected>>
    BY <1>10 DEF Unindex, Becomes, f
  <2>2. \A d \in Conns : d \in f.stale => Ended(d)
    BY <1>7, <2>1 DEF HeldBy, f
  <2>3. \A d \in Conns : Ended(d) => Ended(d)'
    BY <2>1 DEF Ended, Live
  <2>4. call'[k] = [f EXCEPT !.step = "unlock"] /\ \A j \in Calls \ {k} : call'[j] = call[j]
    BY <1>1, <2>1
  <2> QED BY <1>2, <1>8, <2>1, <2>2, <2>3, <2>4
<1>11. ASSUME NEW step \in {"idle", "bound", "undo", "renewed", "release"}, Goes(k, step),
              f.step \notin {"purge", "unindex"}, resurrected \subseteq resurrected',
              \A d \in Conns \ {c} : record'[d] = record[d] /\ (d \in index => d \in index')
                                     /\ (d \in resurrected' => d \in resurrected),
              ~Young(c)' \/ record'[c] = record[c],
              \/ Alone(k, c)
              \/ /\ Live(c)' /\ ~Excused(c)' => Live(c) /\ ~Excused(c)
                 /\ Ended(c) => Ended(c)',
              HeldAt(c)', step = "release" => Ended(c)'
       PROVE  OwnInv'
  <2>1. /\ \A j \in Calls \ {k} : call'[j] = call[j]
        /\ call'[k].step = step /\ call'[k].stale = {} /\ call'[k].after = "idle"
        /\ call'[k].conn = IF step = "idle" THEN None ELSE c
    BY <1>4, <1>5, <1>11
  <2>2. ~Unsaved(call'[k])
    BY <2>1 DEF Unsaved
  <2>3. \A d \in Conns : Young(d)' => Young(d) /\ record[d] = None /\ call'[k].conn # d
    BY <1>1, <1>3, <2>1, <2>2, BindGrowsUp
  <2>4. \A d \in Conns : Young(d)' =>
          Young(d) /\ record'[d] = None /\ d \notin call'[k].stale /\ (call'[k].conn = d => Unsaved(call'[k]))
    BY <1>11, <2>1, <2>3
  <2>5. \A d \in Conns \ {c} : /\ Live(d)' <=> Live(d)
                               /\ Excused(d)' <=> Excused(d)
                               /\ Ended(d) => Ended(d)'
    BY <1>1, <1>11 DEF Live, Excused, Ended
  <2>6. \A d \in Conns : \/ Alone(k, d)
                         \/ /\ Live(d)' /\ ~Excused(d)' => Live(d) /\ ~Excused(d)
                            /\ Ended(d) => Ended(d)'
    BY <1>11, <2>5
  <2>7. ASSUME NEW d \in Conns \ {c} PROVE HeldAt(d)'
    BY <1>1, <1>7, <1>11, <2>5 DEF HeldAt, Secure, Holder
  <2>8. \A d \in Conns : HeldBy(k, d)'
    BY <1>11, <2>1 DEF HeldBy
  <2> QED BY <1>1, <1>6, <1>11, <2>1, <2>4, <2>6, <2>7, <2>8, OthersKeep
<1>12. CASE SaveNew(k) /\ UNCHANGED <<record, index>>
  <2>1. f.step = "save" /\ resurrected' = resurrected /\ (Goes(k, "bound") \/ Goes(k, "undo"))
    BY <1>12 DEF SaveNew, f
  <2>2. Live(c)' <=> Live(c)
    BY <1>12 DEF Live
  <2>3. (Excused(c)' <=> Excused(c)) /\ (Ended(c)' <=> Ended(c))
    BY <1>1, <2>1, <2>2 DEF Excused, Ended
  <2>4. HeldAt(c)'
    BY <1>1, <1>7, <1>12, <2>2, <2>3 DEF HeldAt, Secure, Holder
  <2> QED BY <1>11, <1>12, <2>1, <2>2, <2>3, <2>4
<1>13. CASE SaveNew(k) /\ Save(c, "connected", f.left)
  <2>1. f.step = "save" /\ resurrected' = resurrected /\ (Goes(k, "bound") \/ Goes(k, "undo"))
    BY <1>13 DEF SaveNew, f
  <2>2. Unsaved(call[k]) /\ Alone(k, c)
    BY <1>3, <2>1, YoungFacts DEF Unsaved, f
  <2>3. /\ \A j \in Calls \ {k} : call'[j] = call[j]
        /\ call'[k].stale = {} /\ call'[k].conn = c /\ ~Unsaved(call'[k])
    BY <1>4, <1>5, <2>1 DEF Unsaved
  <2>4. ~Young(c)'
    BY <1>1, <1>3, <2>3, BindGrowsUp
  <2>5. /\ record'[c].left = f.left /\ c \in index'
        /\ \A d \in Conns \ {c} : record'[d] = record[d] /\ (d \in index => d \in index')
    BY <1>1, <1>13 DEF Save, RestOK
  <2>6. Secure(c, call[k].left)
    BY <1>3, <1>7, <2>1 DEF HeldBy, f
  <2>7. HeldAt(c)'
    BY <1>1, <2>5, <2>6 DEF HeldAt, Secure, Holder, f
  <2> QED BY <1>11, <2>1, <2>2, <2>4, <2>5, <2>7
<1>14. ASSUME f.step \in {"renewSave", "metaSave", "closeSave", "deleteKeys"}
       PROVE  ~Young(c) /\ \A step \in {"idle", "renewed", "release"} : Goes(k, step) => ~Young(c)'
  <2>1. ~Unsaved(call[k])
    BY <1>2, <1>14 DEF Unsaved, f
  <2>2. ~Young(c)
    BY <1>3, <2>1, YoungFacts
  <2>3. ASSUME NEW step \in {"idle", "renewed", "release"}, Goes(k, step) PROVE ~Young(c)'
    <3>1. /\ \A j \in Calls \ {k} : call'[j] = call[j]
          /\ call'[k].stale = {} /\ call'[k].conn \in {c, None} /\ ~Unsaved(call'[k])
      BY <1>4, <1>5, <2>3 DEF Unsaved
    <3> QED BY <1>1, <1>3, <3>1, BindGrowsUp
  <2> QED BY <2>2, <2>3
<1>15. CASE RenewSave(k) \/ MetaSave(k)
  <2>1. /\ f.step \in {"renewSave", "metaSave"} /\ SaveRead(k) /\ (Goes(k, "renewed") \/ Goes(k, "idle"))
    BY <1>15 DEF RenewSave, MetaSave, f
  <2>2. /\ Save(c, f.status, f.left)
        /\ resurrected' = IF f.status = "connected" /\ ~Live(c) THEN resurrected \cup {c} ELSE resurrected
    BY <1>3, <2>1 DEF SaveRead, f
  <2>3. /\ record'[c].left = f.left /\ record'[c].status = f.status /\ c \in index'
        /\ \A d \in Conns \ {c} : /\ record'[d] = record[d] /\ (d \in index => d \in index')
                                  /\ d \in resurrected' => d \in resurrected
        /\ resurrected \subseteq resurrected'
    BY <1>1, <2>2 DEF Save, RestOK
  <2>4. Live(c)' => f.status = "connected"
    BY <2>3 DEF Live
  <2>5. Live(c)' /\ ~Excused(c)' => Live(c) /\ ~Excused(c)
    BY <1>1, <2>2, <2>4 DEF Excused
  <2>6. Ended(c) => Ended(c)'
    BY <2>2, <2>4 DEF Ended
  <2>7. Live(c) /\ ~Excused(c) /\ f.status = "connected" => Secure(c, call[k].left)
    BY <1>3, <1>7, <2>1 DEF HeldBy, f
  <2>8. HeldAt(c)'
    BY <1>1, <2>3, <2>4, <2>5, <2>7 DEF HeldAt, Secure, Holder, f
  <2>9. ~Young(c)'
    BY <1>14, <2>1
  <2> QED BY <1>11, <2>1, <2>3, <2>5, <2>6, <2>8, <2>9
<1>16. CASE CloseSave(k) \/ DeleteKeys(k)
  <2>1. /\ f.step \in {"closeSave", "deleteKeys"} /\ Goes(k, "release") /\ resurrected' = resurrected
        /\ \/ Save(c, "closed", f.left)
           \/ record' = [record EXCEPT ![c] = None] /\ index' = index \ {c}
    BY <1>3, <1>16 DEF CloseSave, DeleteKeys, f
  <2>2. /\ record'[c] = None \/ record'[c].status = "closed"
        /\ \A d \in Conns \ {c} : record'[d] = record[d] /\ (d \in index => d \in index')
    BY <1>1, <2>1 DEF Save, RestOK
  <2>3. ~Live(c)'
    BY <2>2 DEF Live
  <2>4. ~Young(c)'
    BY <1>14, <2>1
  <2> QED BY <1>11, <2>1, <2>2, <2>3, <2>4 DEF Ended, HeldAt
<1>17. SaveNew(k) => \/ SaveNew(k) /\ UNCHANGED <<record, index>>
                     \/ SaveNew(k) /\ Save(c, "connected", f.left)
  BY <1>3 DEF SaveNew, f
<1> QED BY <1>9, <1>10, <1>12, <1>13, <1>15, <1>16, <1>17

(* A crash ends calls and closes connections, Redis drops keys, and the     *)
(* leases of a session and of its source run out together.                 *)
LEMMA FaultKeepsOwned ==
  ASSUME OwnInv, GatewayInv', (\E D \in SUBSET Conns : Crash(D)) \/ Tick \/ (\E c \in Conns : Expire(c))
  PROVE  OwnInv'
<1>1. /\ RestOK /\ Youth /\ call \in [Calls -> CallRecord]
      /\ \A c \in Conns : HeldAt(c)
      /\ \A k \in Calls, c \in Conns : HeldBy(k, c)
  BY SavesType DEF OwnInv, GatewayInv, TypeOK
<1>2. SUFFICES Youth' /\ (\A c \in Conns : HeldAt(c)') /\ (\A k \in Calls, c \in Conns : HeldBy(k, c)')
  BY DEF OwnInv
<1>3. ASSUME NEW c \in Conns, Expire(c)
      PROVE  Youth' /\ (\A d \in Conns : HeldAt(d)') /\ (\A k \in Calls, d \in Conns : HeldBy(k, d)')
  <2>1. /\ UNCHANGED <<source, binding, index, lock, call, resurrected>>
        /\ \A d \in Conns : record'[d] \in {record[d], None}
    BY <1>1, <1>3 DEF Expire, RestOK
  <2>2. \A d \in Conns : /\ Live(d)' => Live(d) /\ record'[d] = record[d]
                         /\ Excused(d)' <=> Excused(d)
                         /\ Ended(d) => Ended(d)'
    BY <2>1 DEF Live, Excused, Ended
  <2>3. \A d \in Conns : Young(d)' <=> Young(d)
    BY <2>1 DEF Young, Unsaved
  <2>4. Youth'
    BY <1>1, <2>1, <2>3 DEF Youth, Unsaved
  <2>5. \A d \in Conns : HeldAt(d)'
    BY <1>1, <2>1, <2>2 DEF HeldAt, Secure, Holder
  <2>6. \A k \in Calls, d \in Conns : HeldBy(k, d)'
    <3> SUFFICES ASSUME NEW k \in Calls, NEW d \in Conns PROVE HeldBy(k, d)'
      OBVIOUS
    <3>1. HeldBy(k, d)
      BY <1>1
    <3> QED BY <2>1, <2>2, <3>1 DEF HeldBy, Secure, Holder
  <2> QED BY <2>4, <2>5, <2>6
<1>4. ASSUME NEW D \in SUBSET Conns, Crash(D)
      PROVE  Youth' /\ (\A d \in Conns : HeldAt(d)') /\ (\A k \in Calls, d \in Conns : HeldBy(k, d)')
  <2>1. /\ UNCHANGED <<source, record, index, lock, resurrected>>
        /\ \A k \in Calls : call'[k] = Idle \/ call'[k] = call[k]
        /\ \A d \in Conns : binding'[d] = IF d \in D THEN "closed" ELSE binding[d]
    BY <1>4 DEF Crash
  <2>2. Idle.step = "idle" /\ Idle.after = "idle" /\ Idle.stale = {} /\ Idle.conn = None
    BY DEF Idle
  <2>3. \A d \in Conns : /\ Live(d)' <=> Live(d)
                         /\ Excused(d) => Excused(d)'
                         /\ Ended(d)' <=> Ended(d)
    BY <2>1 DEF Live, Excused, Ended
  <2>4. \A k \in Calls : Unsaved(call'[k]) => call'[k] = call[k] /\ Unsaved(call[k])
    BY <2>1, <2>2 DEF Unsaved
  <2>5. \A d \in Conns : Young(d)' => Young(d)
    <3> SUFFICES ASSUME NEW d \in Conns, Young(d)' PROVE Young(d)
      OBVIOUS
    <3>1. CASE binding'[d] = "none"
      BY <2>1, <3>1 DEF Young
    <3>2. ASSUME NEW k \in Calls, call'[k].conn = d, Unsaved(call'[k]) PROVE Young(d)
      BY <2>4, <3>2 DEF Young
    <3> QED BY <3>1, <3>2 DEF Young, Unsaved
  <2>6. ASSUME NEW d \in Conns, Young(d)'
        PROVE  /\ record'[d] = None
               /\ \A k \in Calls : d \notin call'[k].stale /\ (call'[k].conn = d => Unsaved(call'[k]))
    <3>1. None \notin Conns
      BY NoneAssumption, GatewayAssumption
    <3>2. record[d] = None /\ \A k \in Calls : d \notin call[k].stale /\ (call[k].conn = d => Unsaved(call[k]))
      BY <1>1, <2>5, <2>6 DEF Youth
    <3> QED BY <2>1, <2>2, <3>1, <3>2
  <2>7. Youth'
    BY <2>6 DEF Youth, Unsaved
  <2>8. \A d \in Conns : HeldAt(d)'
    BY <1>1, <2>1, <2>3 DEF HeldAt, Secure, Holder
  <2>9. ASSUME NEW k \in Calls, NEW d \in Conns PROVE HeldBy(k, d)'
    <3>1. HeldBy(k, d)
      BY <1>1
    <3>2. CASE call'[k] = Idle
      BY <2>2, <3>2 DEF HeldBy
    <3>3. CASE call'[k] = call[k]
      BY <2>1, <2>3, <3>1, <3>3 DEF HeldBy, Secure, Holder
    <3> QED BY <2>1, <3>2, <3>3
  <2> QED BY <2>7, <2>8, <2>9
<1>5. CASE Tick
  <2>1. /\ UNCHANGED <<source, binding, index, resurrected>>
        /\ \A c \in Conns : record'[c] = IF record[c] = None THEN None ELSE [record[c] EXCEPT !.left = Less(@)]
        /\ \A k \in Calls : call'[k] = [call[k] EXCEPT !.left = Less(@)]
        /\ \A s \in Sources : lock'[s] = IF lock[s].left > 1 THEN [lock[s] EXCEPT !.left = @ - 1] ELSE NoOwner
    BY <1>5 DEF Tick
  <2>2. ASSUME NEW k \in Calls
        PROVE  /\ call'[k].step = call[k].step /\ call'[k].conn = call[k].conn
               /\ call'[k].status = call[k].status /\ call'[k].after = call[k].after
               /\ call'[k].stale = call[k].stale /\ call'[k].left = Less(call[k].left)
               /\ call[k].left \in Leases
    <3>1. call[k] \in CallRecord
      BY <1>1
    <3> QED BY <2>1, <3>1 DEF CallRecord
  <2>3. ASSUME NEW c \in Conns
        PROVE  /\ record[c] = None => record'[c] = None
               /\ Live(c)' => Live(c)
               /\ Live(c) => record'[c].left = Less(record[c].left) /\ record[c].left \in Leases
    <3>1. CASE record[c] = None
      BY <2>1, <3>1 DEF Live
    <3>2. CASE record[c] # None
      <4>1. record[c] \in SessionRecord /\ record'[c] = [record[c] EXCEPT !.left = Less(@)]
        BY <1>1, <2>1, <3>2 DEF RestOK
      <4>2. /\ record'[c] \in [status : Statuses, left : {Less(record[c].left)}]
            /\ record'[c].status = record[c].status /\ record'[c].left = Less(record[c].left)
            /\ record[c].left \in Leases
        BY <4>1 DEF SessionRecord
      <4> QED BY <3>2, <4>2 DEF Live
    <3> QED BY <3>1, <3>2
  <2>4. ASSUME NEW d \in Conns, NEW left \in Leases, NEW rest \in {Less(left)}, Secure(d, left)
        PROVE  Secure(d, rest)'
    <3>1. /\ source[d] \in Sources /\ left \in Nat
          /\ lock[source[d]] \in [owner : Conns \cup {None}, left : Leases]
      BY <1>1, GatewayAssumption DEF RestOK, Leases
    <3>2. CASE left > 1
      <4>1. lock[source[d]].owner = d /\ lock[source[d]].left >= left /\ rest = left - 1
        BY <2>4, <3>1, <3>2 DEF Secure, Holder, Less
      <4>2. lock'[source[d]] = [lock[source[d]] EXCEPT !.left = @ - 1]
        BY <2>1, <3>1, <3>2, <4>1, GatewayAssumption DEF Leases
      <4>3. lock'[source[d]].owner = d /\ lock'[source[d]].left = lock[source[d]].left - 1
        BY <3>1, <4>1, <4>2
      <4> QED BY <2>1, <3>1, <4>1, <4>3, GatewayAssumption DEF Secure, Holder, Leases
    <3>3. CASE ~(left > 1)
      BY <2>4, <3>1, <3>3 DEF Secure, Less
    <3> QED BY <3>2, <3>3
  <2>5. \A d \in Conns : /\ Excused(d)' <=> Excused(d)
                         /\ Ended(d) => Ended(d)'
    BY <2>1, <2>3 DEF Excused, Ended
  <2>6. Youth'
    BY <1>1, <2>1, <2>2, <2>3 DEF Youth, Young, Unsaved
  <2>7. ASSUME NEW d \in Conns PROVE HeldAt(d)'
    <3>1. SUFFICES ASSUME Live(d)', ~Excused(d)' PROVE Secure(d, record[d].left)' /\ d \in index'
      BY DEF HeldAt
    <3>2. Live(d) /\ ~Excused(d) /\ Secure(d, record[d].left) /\ d \in index
      BY <1>1, <2>3, <2>5, <3>1 DEF HeldAt
    <3>3. \A left \in Leases : \A rest \in {Less(left)} : Secure(d, left) => Secure(d, rest)'
      BY <2>4
    <3> QED BY <2>1, <2>3, <3>2, <3>3 DEF Secure, Holder
  <2>8. ASSUME NEW k \in Calls, NEW d \in Conns PROVE HeldBy(k, d)'
    <3>1. HeldBy(k, d)
      BY <1>1
    <3>2. Secure(d, call[k].left) => Secure(d, call[k].left)'
      BY <2>2, <2>4 DEF Secure, Holder
    <3> QED BY <2>2, <2>3, <2>5, <3>1, <3>2 DEF HeldBy
  <2> QED BY <2>6, <2>7, <2>8
<1> QED BY <1>3, <1>4, <1>5

LEMMA InitOwned == Init => OwnInv
<1> SUFFICES ASSUME Init PROVE OwnInv
  OBVIOUS
<1>1. GatewayInv
  BY InitTypes
<1>2. \A k \in Calls : /\ call[k].step = "idle" /\ call[k].after = "idle"
                       /\ call[k].stale = {} /\ call[k].conn = None
  BY DEF Init, Idle
<1>3. None \notin Conns
  BY NoneAssumption, GatewayAssumption
<1>4. Youth /\ (\A c \in Conns : HeldAt(c)) /\ \A k \in Calls, c \in Conns : HeldBy(k, c)
  BY <1>2, <1>3 DEF Init, Youth, HeldAt, HeldBy, Live
<1> QED BY <1>1, <1>4 DEF OwnInv

LEMMA NextKeepsOwned == OwnInv /\ [Next]_vars => OwnInv'
<1> SUFFICES ASSUME OwnInv, [Next]_vars PROVE OwnInv'
  OBVIOUS
<1>1. GatewayInv'
  BY NextKeepsTypes DEF OwnInv
<1>2. ASSUME NEW k \in Calls, NEW c \in Conns,
             \/ Close(k, c) \/ Bind(k, c) \/ Message(k, c)
             \/ Delete(k, c) \/ Patch(k, c) \/ Lookup(k, c)
      PROVE  OwnInv'
  BY <1>1, <1>2, BeginningKeepsOwned, BindKeepsOwned
<1>3. ASSUME NEW k \in Calls, Handle(k) PROVE OwnInv'
  BY <1>1, <1>3, LockingKeepsOwned, RecordingKeepsOwned DEF Handle
<1>4. CASE (\E D \in SUBSET Conns : Crash(D)) \/ Tick \/ (\E c \in Conns : Expire(c))
  BY <1>1, <1>4, FaultKeepsOwned
<1>5. CASE UNCHANGED vars
  BY <1>1, <1>5 DEF vars, OwnInv, Youth, Young, Unsaved, HeldAt, HeldBy, Live, Excused, Ended, Secure, Holder
<1> QED BY <1>2, <1>3, <1>4, <1>5 DEF Next

(* A session in service holds its source for as long as its lease lasts and *)
(* is found by it, whatever other binds, renewals, removals of expired     *)
(* sessions, crashes and late handlers do to the keys they share.          *)
THEOREM SessionsOwnTheirSource == Spec => []OwnedInService
<1>1. Spec => []OwnInv
  BY InitOwned, NextKeepsOwned, PTL DEF Spec
<1>2. OwnInv => OwnedInService
  <2> SUFFICES ASSUME OwnInv, NEW c \in Conns \ resurrected, Served(c)
               PROVE  /\ Holder(source[c]) = c /\ lock[source[c]].left >= record[c].left
                      /\ c \in index
    BY DEF OwnedInService
  <2>1. HeldAt(c) /\ Live(c) /\ ~Excused(c) /\ record[c].left > 0
    BY DEF OwnInv, Served, Active, Unexpired, Excused
  <2> QED BY <2>1 DEF HeldAt, Secure
<1> QED BY <1>1, <1>2, PTL
=============================================================================

-------------------------- MODULE PluginRepoProofs --------------------------
(***************************************************************************)
(* What the use cases leave behind in the repository, for every number of  *)
(* sources, etags and calls.                                               *)
(***************************************************************************)
EXTENDS PluginRepo, TLAPS

(* The steps of each use case, and where a transaction of it may lead.     *)
StepsOf ==
  [none |-> {"new", "done"},
   upload |-> {"create", "refresh", "mark", "files", "insert", "withdraw", "unlist", "disable"},
   install |-> {"create", "files", "insert", "replace", "commit", "register", "unlist", "disable", "stop"},
   confirm |-> {"confirm", "commit", "register", "rollback", "unlist", "disable", "stop"},
   delete |-> {"delete", "commit", "stop"},
   prune |-> {"spare", "wipe", "erase"},
   boot |-> {"boot"}]

AfterOf ==
  [none |-> {}, upload |-> {}, install |-> {"register", "unlist"},
   confirm |-> {"register", "unlist", "done"}, delete |-> {"stop", "done"}, prune |-> {}, boot |-> {}]

(* A call is where its use case goes, for a plugin when it is for one.     *)
Directed(k) ==
  /\ k.step \in StepsOf[k.uc]
  /\ k.step = "commit" => k.after \in AfterOf[k.uc]
  /\ k.uc \in {"upload", "install", "confirm"} => k.source \in Sources /\ k.etag \in Etags
  /\ k.uc = "delete" => k.source \in Sources
  /\ \A x \in DOMAIN k.tx.r : k.tx.r[x] # "none"
  /\ k.step = "wipe" => k.old \subseteq k.gone

LoneOK ==
  /\ DOMAIN lone = DOMAIN NoLone /\ lone.valid \in BOOLEAN
  /\ lone.valid => /\ lone.inst \in [Places -> InstStatus]
                   /\ lone.record \in [Etags -> RecordStatus]
                   /\ lone.running \subseteq Etags

TypeInv == TypeOK /\ LoneOK /\ \A c \in Calls : Directed(call[c])

-----------------------------------------------------------------------------
(* What is backed while calls overlap                                      *)

(* The etags of which a prune has already removed the files.               *)
Wiped(k) == IF k.step = "wipe" THEN k.gone \ k.old ELSE IF k.step = "erase" THEN k.gone ELSE {}

(* The etags whose record a call takes for granted.                        *)
Relies(k) ==
  IF k.step \in {"mark", "replace"} THEN {k.etag}
  ELSE IF k.step = "commit" THEN DOMAIN k.tx.r \cup {p[2] : p \in DOMAIN k.tx.i}
  ELSE {}

(* A prune is alone with what it has wiped, or that is spoilt.             *)
PruneInv ==
  \A c \in Pruning :
    /\ \A d \in Pruning : d = c
    /\ Wiped(call[c]) # {} =>
         call[c].gone \subseteq spoilt \/ \A d \in Calls \ {c} : ~Running(d)
    /\ call[c].step = "erase" =>
         \A e \in call[c].gone \ spoilt, s \in Sources : inst[<<s, e>>] = "none"

BackInv ==
  /\ \A e \in Etags \ spoilt :
       /\ record[e] # "none" => e \in files \/ \E c \in Calls : e \in Wiped(call[c])
       /\ \A s \in Sources : inst[<<s, e>>] # "none" => record[e] # "none"
  /\ \A c \in Calls : \A x \in Relies(call[c]) \ spoilt : record[x] # "none"
  /\ \A c \in Calls : call[c].step = "insert" => call[c].etag \in files \cup spoilt

-----------------------------------------------------------------------------
(* What one use case after another leaves                                  *)

Sound(i, r) ==
  /\ \A s \in Sources, e \in Etags :
       /\ i[<<s, e>>] = "active" => r[e] = "active"
       /\ i[<<s, e>>] # "none" => r[e] # "none"
  /\ \A e \in Etags : r[e] = "active" => \E s \in Sources : i[<<s, e>>] = "active"

(* The other sources are served what they were.                            *)
Others ==
  \A s \in Sources \ {lone.source} : \A e \in Active(lone.inst, s) :
    /\ inst[<<s, e>>] = "active" /\ record[e] = "active"
    /\ e \in lone.running /\ lone.uc # "boot" => e \in running

Same == inst = lone.inst /\ record = lone.record /\ running = lone.running

(* i and r are what a confirmation k has made of the state it began in, so *)
(* that a rollback finds everything to restore.                            *)
Undoable(k, i, r) ==
  LET own == <<k.source, k.etag>>  e == k.etag
      old == {<<k.source, x>> : x \in k.old} IN
  /\ i[own] = "active" /\ lone.inst[own] = "pending"
  /\ \A p \in old : i[p] = "disabled" /\ lone.inst[p] = "active"
  /\ \A p \in Places \ old : p # own => i[p] = lone.inst[p]
  /\ r[e] = "active" /\ lone.record[e] = "disabled" /\ e \notin Referenced(lone.inst)
  /\ \A x \in Etags \ {e} : r[x] = lone.record[x] \/ x \in k.old
  /\ \A x \in k.old : lone.record[x] = "active" /\ r[x] # "none"

(* Where the call k is, it has found or made this.                         *)
Found(k) ==
  LET own == <<k.source, k.etag>> IN
  /\ k.step = "refresh" => inst[own] = "pending"
  /\ k.step = "mark" => inst[own] # "active" /\ record[k.etag] # "none"
  /\ k.step \in {"files", "insert"} => record[k.etag] = "none"
  /\ k.step = "replace" => record[k.etag] # "none"
  /\ k.step \in {"disable", "stop"} => k.gone \cap Referenced(inst) = {}
  /\ k.step = "spare" => \A x \in k.gone : record[x] # "active"
  /\ k.step = "wipe" => \A x \in k.gone, s \in Sources : inst[<<s, x>>] # "active"
  /\ k.step = "erase" => \A x \in k.gone, s \in Sources : inst[<<s, x>>] = "none"

(* What a transaction will do when it commits.                             *)
WillDo(k) ==
  LET i == Over(k.tx.i, inst)  r == Over(k.tx.r, record) IN
  k.step = "commit" =>
    /\ Sound(i, r)
    /\ \A p \in DOMAIN k.tx.i : p[1] = k.source
    /\ k.after = "stop" => k.gone \cap Referenced(i) = {}

(* How far a confirmation has come, and that the way back is open.         *)
Confirming(k) ==
  LET own == <<k.source, k.etag>>  i == Over(k.tx.i, inst)  r == Over(k.tx.r, record) IN
  /\ k.step = "confirm" => Same
  /\ k.step = "commit" /\ k.after # "done" =>
       Same /\ i[own] = "active" /\ (k.after = "register" => Undoable(k, i, r))
  /\ k.step \in {"register", "rollback"} => Undoable(k, inst, record) /\ running = lone.running
  /\ k.step = "commit" /\ k.after = "done" =>
       inst[own] = "active" /\ running = lone.running /\ i = lone.inst /\ r = lone.record
  /\ k.step \in {"unlist", "disable", "stop"} => inst[own] = "active"

LoneInv ==
  lone.valid =>
    /\ \A c, d \in Calls : Running(c) /\ Running(d) => c = d
    /\ Sound(inst, record) /\ Sound(lone.inst, lone.record)
    /\ Others
    /\ \A c \in Calls : Running(c) =>
         /\ call[c].uc = lone.uc
         /\ lone.uc # "boot" => call[c].source = lone.source /\ call[c].etag = lone.etag
         /\ Found(call[c]) /\ WillDo(call[c])
         /\ lone.uc = "confirm" => Confirming(call[c])
    /\ lone.uc = "confirm" /\ AtRest => inst[<<lone.source, lone.etag>>] = "active" \/ Same

IInv == TypeInv /\ PruneInv /\ BackInv /\ LoneInv
-----------------------------------------------------------------------------
(* The calls                                                               *)

(* A transaction of j may have come into conflict, otherwise j is k.       *)
SameBut(k, j) ==
  /\ DOMAIN j = DOMAIN k
  /\ j.uc = k.uc /\ j.source = k.source /\ j.etag = k.etag /\ j.step = k.step
  /\ j.kept = k.kept /\ j.required = k.required /\ j.gone = k.gone /\ j.old = k.old
  /\ j.tx = k.tx /\ j.after = k.after
  /\ j.conflict \in BOOLEAN /\ (j.conflict => k.conflict \/ k.tx # NoWrites)

(* One call moves on.                                                      *)
Moves(c) ==
  /\ DOMAIN call' = Calls
  /\ CallOK(call'[c]) /\ Directed(call'[c])
  /\ \A d \in Calls \ {c} : SameBut(call[d], call'[d])

(* Where a call goes, and that the others stay where they are.             *)
LEMMA BecomesMoves ==
  ASSUME TypeInv, NEW c \in Calls, NEW k, Becomes(c, k)
  PROVE  /\ call'[c] = k
         /\ CallOK(k) /\ Directed(k) => Moves(c)
BY DEF TypeInv, TypeOK, CallOK, Becomes, Moves, SameBut

LEMMA WritesMoves ==
  ASSUME TypeInv, NEW c \in Calls, NEW k, NEW w, Writes(c, w, k)
  PROVE  /\ call'[c] = k
         /\ CallOK(k) /\ Directed(k) => Moves(c)
<1>1. call' = [d \in Calls |->
                 IF d = c THEN k
                 ELSE [call[d] EXCEPT !.conflict = @ \/ DOMAIN call[d].tx.i \cap DOMAIN w.i # {}
                                                     \/ DOMAIN call[d].tx.r \cap DOMAIN w.r # {}]]
  BY DEF Writes
<1>2. DOMAIN NoWrites.i = {} /\ DOMAIN NoWrites.r = {}
  BY DEF NoWrites
<1>3. ASSUME NEW d \in Calls \ {c} PROVE SameBut(call[d], call'[d])
  <2>1. CallOK(call[d])
    BY DEF TypeInv, TypeOK
  <2> QED BY <1>1, <1>2, <2>1 DEF CallOK, SameBut, NewCall
<1> QED BY <1>1, <1>3 DEF Moves

LEMMA NewCallOK == CallOK(NewCall) /\ CallOK(Done) /\ Directed(NewCall) /\ Directed(Done)
BY DEF CallOK, NewCall, Done, Directed, StepsOf, AfterOf, NoWrites, WritesOK, UseCases, Steps

LEMMA SameButOK ==
  ASSUME NEW k, NEW j, CallOK(k), Directed(k), SameBut(k, j)
  PROVE  CallOK(j) /\ Directed(j)
BY DEF CallOK, Directed, SameBut

LEMMA OverOK ==
  ASSUME NEW w, WritesOK(w),
         NEW i \in [Places -> InstStatus], NEW r \in [Etags -> RecordStatus]
  PROVE  Over(w.i, i) \in [Places -> InstStatus] /\ Over(w.r, r) \in [Etags -> RecordStatus]
BY DEF WritesOK, Over

(* Once a call has moved, the variables are what they should be when those *)
(* it wrote are.                                                           *)
LEMMA MovesType ==
  ASSUME TypeInv, NEW c \in Calls, Moves(c),
         inst' \in [Places -> InstStatus], record' \in [Etags -> RecordStatus],
         files' \subseteq Etags, running' \subseteq Etags, spoilt' \subseteq Etags, LoneOK'
  PROVE  TypeInv'
<1>1. ASSUME NEW d \in Calls PROVE CallOK(call'[d]) /\ Directed(call'[d])
  <2>1. CASE d = c  BY <2>1 DEF Moves
  <2>2. CASE d # c
    <3>1. CallOK(call[d]) /\ Directed(call[d]) /\ SameBut(call[d], call'[d])
      BY <2>2 DEF Moves, TypeInv, TypeOK
    <3> QED BY <3>1, SameButOK
  <2> QED BY <2>1, <2>2
<1> QED BY <1>1 DEF Moves, TypeInv, TypeOK

-----------------------------------------------------------------------------
(* Every step of every use case                                            *)

LEMMA StartOK ==
  ASSUME NEW s \in Sources, NEW e \in Etags, NEW gone \in SUBSET Etags, NEW kept \in BOOLEAN
  PROVE  LET Fine(k) == CallOK(k) /\ Directed(k) IN
         /\ Fine([Start("upload", s, e, "create") EXCEPT !.kept = kept])
         /\ Fine([Start("install", s, e, "create") EXCEPT !.gone = gone])
         /\ Fine([Start("confirm", s, e, "confirm") EXCEPT !.gone = gone])
BY DEF CallOK, Directed, Start, NewCall, StepsOf, AfterOf, NoWrites, WritesOK, UseCases, Steps

LEMMA StartAloneOK ==
  ASSUME NEW gone \in SUBSET Etags
  PROVE  LET Fine(k) == CallOK(k) /\ Directed(k) IN
         /\ \A s \in Sources : Fine(Start("delete", s, None, "delete"))
         /\ Fine([Start("prune", None, None, "spare") EXCEPT !.gone = gone])
         /\ Fine([Start("boot", None, None, "boot") EXCEPT !.gone = gone])
BY DEF CallOK, Directed, Start, NewCall, StepsOf, AfterOf, NoWrites, WritesOK, UseCases, Steps

LEMMA BeginsOK ==
  ASSUME TypeInv, NEW c \in Calls, NEW uc, NEW s, NEW e, Begins(c, uc, s, e)
  PROVE  spoilt' \subseteq Etags /\ LoneOK'
<1>1. \A d \in Calls : call[d].gone \subseteq Etags
  BY DEF TypeInv, TypeOK, CallOK
<1> QED BY <1>1 DEF Begins, Pruning, LoneOK, TypeInv, TypeOK, NoLone

LEMMA BeginType ==
  ASSUME TypeInv, NEW c \in Calls,
         \/ \E s \in Sources, e \in Etags : Upload(c, s, e) \/ Install(c, s, e) \/ Confirm(c, s, e)
         \/ \E s \in Sources : Delete(c, s)
         \/ Prune(c)
  PROVE  TypeInv' /\ Moves(c)
<1>1. Records("active") \in SUBSET Etags /\ Records("disabled") \in SUBSET Etags
  BY DEF Records
<1>2. ASSUME NEW uc, NEW s, NEW e, NEW k, Begins(c, uc, s, e), Becomes(c, k), CallOK(k), Directed(k), UNCHANGED data
      PROVE  TypeInv' /\ Moves(c)
  BY <1>2, BeginsOK, BecomesMoves, MovesType DEF data, TypeInv, TypeOK
<1>3. ASSUME NEW s \in Sources, NEW e \in Etags, Upload(c, s, e)  PROVE TypeInv' /\ Moves(c)
  <2>1. (e \in GetPendingPluginIds(System)) \in BOOLEAN
    BY DEF GetPendingPluginIds
  <2> QED BY <1>2, <1>3, <2>1, StartOK DEF Upload
<1>4. ASSUME NEW s \in Sources, NEW e \in Etags, Install(c, s, e)  PROVE TypeInv' /\ Moves(c)
  BY <1>1, <1>2, <1>4, StartOK DEF Install, ListActive
<1>5. ASSUME NEW s \in Sources, NEW e \in Etags, Confirm(c, s, e)  PROVE TypeInv' /\ Moves(c)
  BY <1>1, <1>2, <1>5, StartOK DEF Confirm, ListActive
<1>6. ASSUME NEW s \in Sources, Delete(c, s)  PROVE TypeInv' /\ Moves(c)
  BY <1>2, <1>6, StartAloneOK DEF Delete
<1>7. ASSUME Prune(c)  PROVE TypeInv' /\ Moves(c)
  BY <1>1, <1>2, <1>7, StartAloneOK DEF Prune
<1> QED BY <1>3, <1>4, <1>5, <1>6, <1>7

LEMMA RestartType ==
  ASSUME TypeInv, NEW c \in Calls, Restart(c)
  PROVE  TypeInv'
<1>1. \A d \in Calls : CallOK(call[d]) /\ Directed(call[d]) /\ call[d].gone \subseteq Etags
  BY DEF TypeInv, TypeOK, CallOK
<1>2. ListActive \in SUBSET Etags
  BY DEF ListActive, Records
<1>3. DOMAIN call' = Calls /\ \A d \in Calls : CallOK(call'[d]) /\ Directed(call'[d])
  BY <1>1, <1>2, StartAloneOK, NewCallOK DEF Restart
<1>4. spoilt' \subseteq Etags
  BY <1>1 DEF Restart, Pruning, TypeInv, TypeOK
<1>5. LoneOK'
  BY DEF Restart, LoneOK, TypeInv, TypeOK, NoLone
<1> QED BY <1>3, <1>4, <1>5 DEF Restart, TypeInv, TypeOK

LEMMA UploadStepsType ==
  ASSUME TypeInv, NEW c \in Calls,
         Create(c) \/ Refresh(c) \/ Mark(c) \/ SaveFiles(c) \/ Insert(c) \/ Withdraw(c)
  PROVE  TypeInv' /\ Moves(c)
<1> DEFINE k == call[c]
           Fine(j) == CallOK(j) /\ Directed(j)
<1>1. Fine(k) /\ \A p \in Places : p[2] \in Etags
  BY DEF TypeInv, TypeOK, Places
<1>2. ASSUME NEW step \in StepsOf[k.uc] \ {"commit", "wipe"}, k.step # "commit"
      PROVE  Fine([k EXCEPT !.step = step])
  BY <1>1, <1>2 DEF CallOK, Directed, NewCall, StepsOf, Steps, UseCases
<1>3. ASSUME NEW j, Becomes(c, j), Fine(j), UNCHANGED <<data, lone, spoilt>>
      PROVE  TypeInv' /\ Moves(c)
  BY <1>3, BecomesMoves, MovesType DEF data, TypeInv, TypeOK, LoneOK
<1>4. ASSUME NEW j, NEW w, Writes(c, w, j), Fine(j), WritesOK(w), UNCHANGED <<files, running, lone, spoilt>>
      PROVE  TypeInv' /\ Moves(c)
  <2>1. inst' \in [Places -> InstStatus] /\ record' \in [Etags -> RecordStatus]
    BY <1>4, OverOK DEF Writes, TypeInv, TypeOK
  <2> QED BY <1>4, <2>1, WritesMoves, MovesType DEF TypeInv, TypeOK, LoneOK
<1>5. ASSUME Fails(c), k.uc \in {"upload", "install"}, k.step # "commit", NEW S, files' = S, S \subseteq Etags,
             UNCHANGED <<inst, record, running, lone, spoilt>>
      PROVE  TypeInv' /\ Moves(c)
  <2>1. PICK j : Fine(j) /\ Becomes(c, j)
    BY <1>1, <1>2, <1>5, NewCallOK DEF Fails, Goes, Returns, StepsOf
  <2> QED BY <1>5, <2>1, BecomesMoves, MovesType DEF TypeInv, TypeOK, LoneOK
<1>6. CASE Create(c)
  <2>1. k.uc \in {"upload", "install"} /\ k.etag \in Etags
    BY <1>1, <1>6 DEF Create, Directed, StepsOf, CallOK, UseCases
  <2>2. CASE Fails(c)
    BY <1>5, <1>6, <2>1, <2>2 DEF Create, data, TypeInv, TypeOK
  <2>3. CASE \E step \in {"refresh", "files"} : Goes(c, step) /\ (step = "refresh" => k.uc = "upload")
    BY <1>2, <1>3, <1>6, <2>1, <2>3 DEF Create, Goes, StepsOf
  <2>4. CASE Becomes(c, [k EXCEPT !.step = IF k.uc = "upload" THEN "mark" ELSE "replace",
                                  !.required = record[k.etag] # "active"])
    <3>1. (record[k.etag] # "active") \in BOOLEAN
      OBVIOUS
    <3>2. Fine([k EXCEPT !.step = IF k.uc = "upload" THEN "mark" ELSE "replace", !.required = record[k.etag] # "active"])
      BY <1>1, <1>6, <2>1, <3>1 DEF Create, CallOK, Directed, NewCall, StepsOf, Steps, UseCases
    <3> QED BY <1>3, <1>6, <2>4, <3>2 DEF Create
  <2> QED BY <1>6, <2>2, <2>3, <2>4 DEF Create
<1>7. CASE Refresh(c)
  <2>1. k.uc = "upload" /\ At(c) \in Places
    BY <1>1, <1>7 DEF Refresh, Directed, StepsOf, CallOK, UseCases, At, Places
  <2>2. WritesOK([NoWrites EXCEPT !.i = Those({At(c)} \ {p \in Places : inst[p] = "none"}, "pending")])
    BY <2>1 DEF WritesOK, NoWrites, Those, InstStatus
  <2> QED BY <1>4, <1>7, <2>2, NewCallOK DEF Refresh
<1>8. CASE Mark(c)
  <2>1. k.uc = "upload" /\ At(c) \in Places
    BY <1>1, <1>8 DEF Mark, Directed, StepsOf, CallOK, UseCases, At, Places
  <2>2. WritesOK([NoWrites EXCEPT !.i = Those({At(c)}, "pending")])
    BY <2>1 DEF WritesOK, NoWrites, Those, InstStatus
  <2> QED BY <1>4, <1>8, <2>2, NewCallOK DEF Mark
<1>9. CASE SaveFiles(c)
  <2>1. k.uc \in {"upload", "install"} /\ k.etag \in Etags
    BY <1>1, <1>9 DEF SaveFiles, Directed, StepsOf, CallOK, UseCases
  <2>2. CASE Fails(c) /\ UNCHANGED files
    BY <1>5, <1>9, <2>1, <2>2 DEF SaveFiles, TypeInv, TypeOK
  <2>3. CASE Goes(c, "insert") /\ files' = files \cup {k.etag}
    <3>1. Fine([k EXCEPT !.step = "insert"])
      BY <1>2, <1>9, <2>1 DEF SaveFiles, StepsOf
    <3> QED BY <1>9, <2>1, <2>3, <3>1, BecomesMoves, MovesType DEF SaveFiles, Goes, TypeInv, TypeOK, LoneOK
  <2> QED BY <1>9, <2>2, <2>3 DEF SaveFiles
<1>10. CASE Insert(c)
  <2> DEFINE new == IF record[k.etag] = "none" THEN {k.etag} ELSE {}
             j == [k EXCEPT !.step = IF k.uc = "upload" THEN "mark" ELSE "replace", !.required = TRUE]
  <2>1. k.uc \in {"upload", "install"} /\ k.etag \in Etags
    BY <1>1, <1>10 DEF Insert, Directed, StepsOf, CallOK, UseCases
  <2>2. WritesOK([NoWrites EXCEPT !.r = Those(new, "disabled")])
    BY <2>1 DEF WritesOK, NoWrites, Those, RecordStatus
  <2>3. Fine(j)
    BY <1>1, <1>10, <2>1 DEF Insert, CallOK, Directed, NewCall, StepsOf, Steps, UseCases
  <2> QED BY <1>4, <1>10, <2>2, <2>3 DEF Insert
<1>11. CASE Withdraw(c)
  <2> DEFINE pending == {<<System, call[c].etag>>} \cap {p \in Places : inst[p] = "pending"}
  <2>1. k.uc = "upload" /\ k.etag \in Etags
    BY <1>1, <1>11 DEF Withdraw, Directed, StepsOf, CallOK, UseCases
  <2>2. WritesOK([NoWrites EXCEPT !.i = Those(pending, "disabled")])
    BY DEF WritesOK, NoWrites, Those, InstStatus
  <2>3. Fine([k EXCEPT !.step = "unlist", !.gone = {k.etag}])
    BY <1>1, <1>11, <2>1 DEF Withdraw, CallOK, Directed, NewCall, StepsOf, Steps, UseCases
  <2> QED BY <1>4, <1>11, <2>2, <2>3 DEF Withdraw
<1> QED BY <1>6, <1>7, <1>8, <1>9, <1>10, <1>11

LEMMA BecomesType ==
  ASSUME TypeInv, NEW c \in Calls, NEW k, Becomes(c, k), CallOK(k), Directed(k),
         UNCHANGED <<inst, record, lone>>,
         files' \subseteq Etags, running' \subseteq Etags, spoilt' \subseteq Etags
  PROVE  TypeInv' /\ Moves(c)
BY BecomesMoves, MovesType DEF TypeInv, TypeOK, LoneOK

LEMMA WritesType ==
  ASSUME TypeInv, NEW c \in Calls, NEW k, NEW w, Writes(c, w, k), CallOK(k), Directed(k), WritesOK(w),
         UNCHANGED lone,
         files' \subseteq Etags, running' \subseteq Etags, spoilt' \subseteq Etags
  PROVE  TypeInv' /\ Moves(c)
<1>1. inst' \in [Places -> InstStatus] /\ record' \in [Etags -> RecordStatus]
  BY OverOK DEF Writes, TypeInv, TypeOK
<1> QED BY <1>1, WritesMoves, MovesType DEF TypeInv, TypeOK, LoneOK

LEMMA TransactionsType ==
  ASSUME TypeInv, NEW c \in Calls,
         Replace(c) \/ ConfirmPlugin(c) \/ Rollback(c) \/ DeleteInstallation(c) \/ Commit(c)
  PROVE  TypeInv' /\ Moves(c)
<1> DEFINE k == call[c]
           Fine(j) == CallOK(j) /\ Directed(j)
<1>1. Fine(k) /\ (k.source \in Sources /\ k.etag \in Etags => At(c) \in Places)
  BY DEF TypeInv, TypeOK, At, Places
<1>2. \A S \in SUBSET Etags : \A i : Unreferenced(S, i) \subseteq Etags
  BY DEF Unreferenced
<1>3. Records("active") \subseteq Etags /\ (\A e, i : SameVersion(e, i) \subseteq Etags)
  BY DEF Records, SameVersion, Unreferenced
<1>4. \A s : Active(inst, s) \subseteq Etags
  BY DEF Active
<1>5. ASSUME NEW j, Fine(j), Becomes(c, j), UNCHANGED <<data, lone, spoilt>>
      PROVE  TypeInv' /\ Moves(c)
  BY <1>5, BecomesType DEF data, TypeInv, TypeOK
<1>6. ASSUME Returns(c), UNCHANGED <<data, lone, spoilt>>  PROVE TypeInv' /\ Moves(c)
  BY <1>5, <1>6, NewCallOK DEF Returns
<1>7. CASE Replace(c)
  <2> DEFINE e == k.etag
             activate == k.required \/ record[e] = "disabled"
             i == Those({<<k.source, x>> : x \in Active(inst, k.source) \ {e}}, "disabled")
             j == [p \in DOMAIN i \cup {At(c)} |-> IF p = At(c) THEN "active" ELSE i[p]]
             off == SameVersion(e, Over(j, inst))
             on == IF activate /\ record[e] # "none" THEN {e} ELSE {}
             w == [i |-> j, r |-> [x \in on \cup off |-> IF x \in on THEN "active" ELSE "disabled"]]
             next == [k EXCEPT !.required = activate, !.step = "commit", !.tx = w,
                               !.after = IF activate THEN "register" ELSE "unlist"]
  <2>1. k.uc = "install" /\ k.source \in Sources /\ e \in Etags
    BY SMTT(30), <1>1, <1>7 DEF Replace, Directed, StepsOf, CallOK, UseCases
  <2>2. DOMAIN i \subseteq Places /\ \A p \in DOMAIN i : i[p] = "disabled"
    BY <1>4, <2>1 DEF Those, Places
  <2>3. WritesOK(w) /\ \A x \in DOMAIN w.r : w.r[x] # "none"
    BY <1>1, <1>3, <2>1, <2>2 DEF WritesOK, InstStatus, RecordStatus
  <2>4. activate \in BOOLEAN
    BY <1>1 DEF CallOK
  <2>5. Fine(next)
    <3> HIDE DEF w, activate
    <3>1. /\ DOMAIN next = DOMAIN NewCall /\ next.uc = k.uc /\ next.source = k.source /\ next.etag = k.etag
          /\ next.step = "commit" /\ next.tx = w /\ next.after \in {"register", "unlist"} /\ next.required = activate
          /\ next.kept = k.kept /\ next.conflict = k.conflict /\ next.gone = k.gone /\ next.old = k.old
      BY <1>1 DEF CallOK, NewCall
    <3> HIDE DEF next
    <3>2. CallOK(next)
      BY <1>1, <2>1, <2>3, <2>4, <3>1 DEF CallOK, Steps, UseCases
    <3>3. Directed(next)
      BY <2>1, <2>3, <3>1 DEF Directed, StepsOf, AfterOf
    <3> QED BY <3>2, <3>3
  <2>6. inst[At(c)] # "none" \/ Becomes(c, next)
    BY <1>7 DEF Replace, Commits
  <2> QED BY <1>5, <1>6, <1>7, <2>5, <2>6 DEF Replace
<1>8. CASE ConfirmPlugin(c)
  <2> DEFINE e == k.etag
             old == Active(inst, k.source)
             i == [p \in {At(c)} \cup {<<k.source, x>> : x \in old} |-> IF p = At(c) THEN "active" ELSE "disabled"]
             off == SameVersion(e, Over(i, inst))
             required == e \notin Referenced(inst) /\ record[e] # "active"
             w == [i |-> i, r |-> [x \in off \cup ({e} \ Records("active")) |->
                                     IF x = e THEN "active" ELSE "disabled"]]
             next == [k EXCEPT !.old = old, !.required = required, !.step = "commit", !.tx = w,
                               !.after = IF required THEN "register" ELSE "unlist"]
  <2>1. k.uc = "confirm" /\ k.source \in Sources /\ e \in Etags
    BY <1>1, <1>8 DEF ConfirmPlugin, Directed, StepsOf, CallOK, UseCases
  <2>2. WritesOK(w) /\ \A x \in DOMAIN w.r : w.r[x] # "none"
    <3>1. DOMAIN i \subseteq Places /\ \A p \in DOMAIN i : i[p] \in InstStatus
      BY <1>1, <1>4, <2>1 DEF InstStatus, Places
    <3>2. DOMAIN w.r \subseteq Etags /\ \A x \in DOMAIN w.r : w.r[x] \in {"active", "disabled"}
      BY <1>3, <2>1
    <3> QED BY <3>1, <3>2 DEF WritesOK, RecordStatus
  <2>3. required \in BOOLEAN /\ old \subseteq Etags
    BY <1>4
  <2>4. Fine(next)
    <3> HIDE DEF w, required, old
    <3> QED BY <1>1, <1>8, <2>1, <2>2, <2>3 DEF ConfirmPlugin, CallOK, Directed, NewCall, StepsOf, AfterOf, Steps, UseCases
  <2>5. Returns(c) \/ Becomes(c, next)
    BY <1>8 DEF ConfirmPlugin, Commits
  <2> QED BY <1>5, <1>6, <1>8, <2>4, <2>5 DEF ConfirmPlugin
<1>9. CASE Rollback(c)
  <2> DEFINE back == {<<k.source, x>> : x \in k.old} \cap {p \in Places : inst[p] # "none"}
             own == {At(c)} \cap {p \in Places : inst[p] = "active"}
             i == [p \in own \cup back |-> IF p \in back THEN "active" ELSE "pending"]
             off == Unreferenced({k.etag}, Over(i, inst)) \ Records("none")
             on == k.old \ Records("none")
             w == [i |-> i, r |-> [x \in off \cup on |-> IF x \in off THEN "disabled" ELSE "active"]]
             next == [k EXCEPT !.step = "commit", !.tx = w, !.after = "done"]
  <2>1. k.uc = "confirm" /\ k.source \in Sources /\ k.etag \in Etags /\ k.old \subseteq Etags
    BY <1>1, <1>9 DEF Rollback, Directed, StepsOf, CallOK, UseCases
  <2>2. WritesOK(w) /\ \A x \in DOMAIN w.r : w.r[x] # "none"
    BY <1>2, <2>1 DEF WritesOK, InstStatus, RecordStatus
  <2>3. Fine(next)
    <3> HIDE DEF w
    <3> QED BY <1>1, <1>9, <2>1, <2>2 DEF Rollback, CallOK, Directed, NewCall, StepsOf, AfterOf, Steps, UseCases
  <2> QED BY <1>5, <1>9, <2>3 DEF Rollback, Commits
<1>10. CASE DeleteInstallation(c)
  <2> DEFINE own == Active(inst, k.source)
             i == Those({<<k.source, x>> : x \in own}, "disabled")
             off == Unreferenced(own, Over(i, inst))
             after == IF own \cap Records("none") = {} THEN "stop" ELSE "done"
             w == [i |-> i, r |-> Those(off \ Records("none"), "disabled")]
             next == [k EXCEPT !.gone = off, !.step = "commit", !.tx = w, !.after = after]
  <2>1. k.uc = "delete" /\ k.source \in Sources
    BY <1>1, <1>10 DEF DeleteInstallation, Directed, StepsOf, CallOK, UseCases
  <2>2. WritesOK(w) /\ \A x \in DOMAIN w.r : w.r[x] # "none"
    BY <1>2, <1>4, <2>1 DEF WritesOK, InstStatus, RecordStatus, Those, Places
  <2>3. off \subseteq Etags /\ after \in {"stop", "done"}
    BY <1>2, <1>4
  <2>4. Fine(next)
    <3> HIDE DEF w, off, after
    <3> QED BY <1>1, <1>10, <2>1, <2>2, <2>3 DEF DeleteInstallation, CallOK, Directed, NewCall, StepsOf, AfterOf, Steps, UseCases
  <2>5. Returns(c) \/ Becomes(c, next)
    BY <1>10 DEF DeleteInstallation, Commits
  <2> QED BY <1>5, <1>6, <1>10, <2>4, <2>5 DEF DeleteInstallation
<1>11. CASE Commit(c)
  <2> DEFINE next == IF k.after = "done" THEN Done ELSE [k EXCEPT !.step = k.after, !.tx = NoWrites, !.after = "done"]
  <2>1. k.uc \in {"install", "confirm", "delete"} /\ k.after \in AfterOf[k.uc]
    BY <1>1, <1>11 DEF Commit, Directed, StepsOf, CallOK, UseCases
  <2>2. CASE k.conflict \/ Duplicate(Over(k.tx.i, inst))
    BY <1>6, <1>11, <2>2 DEF Commit, data
  <2>3. CASE ~k.conflict /\ ~Duplicate(Over(k.tx.i, inst))
    <3>1. WritesOK(k.tx) /\ WritesOK(NoWrites) /\ DOMAIN NoWrites.r = {}
      BY <1>1 DEF CallOK, WritesOK, NoWrites
    <3>2. Fine(next)
      BY <1>1, <2>1, <2>3, <3>1, NewCallOK DEF CallOK, Directed, NewCall, StepsOf, AfterOf, Steps, UseCases
    <3>3. Writes(c, k.tx, next) /\ UNCHANGED <<files, running, lone, spoilt>>
      BY <1>11, <2>3 DEF Commit
    <3> QED BY <3>1, <3>2, <3>3, WritesType DEF TypeInv, TypeOK
  <2> QED BY <2>2, <2>3
<1> QED BY <1>7, <1>8, <1>9, <1>10, <1>11

LEMMA RuntimeStepsType ==
  ASSUME TypeInv, NEW c \in Calls,
         Register(c) \/ Unlist(c) \/ Disable(c) \/ Stop(c) \/ RegisterActive(c)
  PROVE  TypeInv' /\ Moves(c)
<1> DEFINE k == call[c]
           Fine(j) == CallOK(j) /\ Directed(j)
<1>1. Fine(k)
  BY DEF TypeInv, TypeOK
<1>2. files \subseteq Etags /\ running \subseteq Etags /\ spoilt \subseteq Etags
  BY DEF TypeInv, TypeOK
<1>3. CASE Register(c)
  <2>1. k.uc \in {"install", "confirm"} /\ k.etag \in Etags
    BY <1>1, <1>3 DEF Register, Directed, StepsOf, CallOK, UseCases
  <2>2. \A step \in {"unlist", "rollback"} : (step = "rollback" => k.uc = "confirm") => Fine([k EXCEPT !.step = step])
    BY <1>1, <1>3, <2>1 DEF Register, CallOK, Directed, NewCall, StepsOf, Steps, UseCases
  <2>3. PICK j : Fine(j) /\ Becomes(c, j)
    BY <1>3, <2>1, <2>2, NewCallOK DEF Register, Goes, Returns
  <2> QED BY <1>2, <1>3, <2>1, <2>3, BecomesType DEF Register
<1>4. CASE Unlist(c)
  <2>1. k.uc \in {"upload", "install", "confirm"}
    BY <1>1, <1>4 DEF Unlist, Directed, StepsOf, CallOK, UseCases
  <2>2. Unreferenced(k.gone, inst) \subseteq Etags
    BY <1>1 DEF Unreferenced, CallOK
  <2>3. Fine([k EXCEPT !.step = "disable", !.gone = Unreferenced(k.gone, inst)])
    BY <1>1, <1>4, <2>1, <2>2 DEF Unlist, CallOK, Directed, NewCall, StepsOf, Steps, UseCases
  <2> QED BY <1>2, <1>4, <2>3, BecomesType, NewCallOK DEF Unlist, Returns, data
<1>5. CASE Disable(c)
  <2>1. k.uc \in {"upload", "install", "confirm"}
    BY <1>1, <1>5 DEF Disable, Directed, StepsOf, CallOK, UseCases
  <2>2. k.uc # "upload" => Fine([k EXCEPT !.step = "stop"])
    BY <1>1, <1>5, <2>1 DEF Disable, CallOK, Directed, NewCall, StepsOf, Steps, UseCases
  <2>3. WritesOK([NoWrites EXCEPT !.r = Those(k.gone \ Records("none"), "disabled")])
    BY <1>1 DEF WritesOK, NoWrites, Those, RecordStatus, CallOK
  <2> QED BY <1>2, <1>5, <2>2, <2>3, WritesType, NewCallOK DEF Disable
<1>6. CASE Stop(c)
  BY <1>2, <1>6, BecomesType, NewCallOK DEF Stop, Returns
<1>7. CASE RegisterActive(c)
  <2>1. k.uc = "boot" /\ k.gone \subseteq Etags
    BY <1>1, <1>7 DEF RegisterActive, Directed, StepsOf, CallOK, UseCases
  <2>2. \A e : Fine([k EXCEPT !.gone = @ \ {e}])
    BY <1>1, <1>7, <2>1 DEF RegisterActive, CallOK, Directed, NewCall, StepsOf, Steps, UseCases
  <2> QED BY <1>2, <1>7, <2>1, <2>2, BecomesType, NewCallOK DEF RegisterActive, Returns
<1> QED BY <1>3, <1>4, <1>5, <1>6, <1>7

LEMMA PruneStepsType ==
  ASSUME TypeInv, NEW c \in Calls, Spare(c) \/ Wipe(c) \/ Forget(c) \/ Erase(c)
  PROVE  TypeInv' /\ Moves(c) /\ c \in Pruning
<1> DEFINE k == call[c]
           Fine(j) == CallOK(j) /\ Directed(j)
<1>1. Fine(k)
  BY DEF TypeInv, TypeOK
<1>2. files \subseteq Etags /\ running \subseteq Etags /\ spoilt \subseteq Etags
  BY DEF TypeInv, TypeOK
<1>3. k.uc = "prune" /\ k.gone \subseteq Etags /\ k.old \subseteq Etags /\ c \in Pruning
  BY <1>1 DEF Spare, Wipe, Forget, Erase, Directed, StepsOf, CallOK, UseCases, Pruning, Running
<1>4. Disturbs(c) \subseteq Etags
  BY <1>2, <1>3 DEF Disturbs
<1>5. CASE Spare(c)
  <2> DEFINE gone == {e \in k.gone : \A s \in Sources : inst[<<s, e>>] # "pending"}
  <2>1. gone \subseteq Etags
    BY <1>3
  <2>2. Fine([k EXCEPT !.step = "wipe", !.gone = gone, !.old = gone])
    <3> HIDE DEF gone
    <3> QED BY <1>1, <1>3, <1>5, <2>1 DEF Spare, CallOK, Directed, NewCall, StepsOf, Steps, UseCases
  <2> QED BY <1>2, <1>3, <1>5, <2>2, BecomesType DEF Spare, data
<1>6. CASE Wipe(c)
  <2>1. \A e : Fine([k EXCEPT !.old = @ \ {e}])
    BY <1>1, <1>3, <1>6 DEF Wipe, CallOK, Directed, NewCall, StepsOf, Steps, UseCases
  <2> QED BY <1>2, <1>3, <1>4, <1>6, <2>1, BecomesType, NewCallOK DEF Wipe, Returns
<1>7. CASE Forget(c)
  <2> DEFINE gone == {p \in Places : p[2] \in k.gone /\ inst[p] # "none"}
  <2>1. WritesOK([NoWrites EXCEPT !.i = Those(gone, "none")])
    BY DEF WritesOK, NoWrites, Those, InstStatus
  <2>2. Fine([k EXCEPT !.step = "erase"])
    BY <1>1, <1>3, <1>7 DEF Forget, CallOK, Directed, NewCall, StepsOf, Steps, UseCases
  <2> QED BY <1>2, <1>3, <1>4, <1>7, <2>1, <2>2, WritesType DEF Forget
<1>8. CASE Erase(c)
  <2>1. WritesOK([NoWrites EXCEPT !.r = Those(k.gone \ Records("none"), "none")])
    BY <1>3 DEF WritesOK, NoWrites, Those, RecordStatus
  <2> QED BY <1>2, <1>3, <1>4, <1>8, <2>1, NewCallOK, WritesType DEF Erase
<1> QED BY <1>3, <1>5, <1>6, <1>7, <1>8

-----------------------------------------------------------------------------
(* Type correctness                                                        *)

LEMMA InitType == Init => TypeInv
<1> SUFFICES ASSUME Init PROVE TypeInv
  OBVIOUS
<1> QED BY NewCallOK DEF Init, TypeInv, TypeOK, LoneOK, NoLone, Records

LEMMA ExpireType ==
  ASSUME TypeInv, NEW s \in Sources, NEW e \in Etags, Expire(s, e)
  PROVE  TypeInv'
BY DEF Expire, TypeInv, TypeOK, LoneOK, NoLone, InstStatus

LEMMA StutterType == TypeInv /\ UNCHANGED vars => TypeInv'
BY DEF vars, data, TypeInv, TypeOK, LoneOK

LEMMA NextType == TypeInv /\ [Next]_vars => TypeInv'
<1> SUFFICES ASSUME TypeInv, Next PROVE TypeInv'
  BY StutterType
<1>1. ASSUME NEW c \in Calls, Begin(c)  PROVE TypeInv'
  BY <1>1, BeginType, RestartType DEF Begin
<1>2. ASSUME NEW c \in Calls, Continue(c)  PROVE TypeInv'
  BY <1>2, UploadStepsType, TransactionsType, RuntimeStepsType, PruneStepsType DEF Continue
<1> QED BY <1>1, <1>2, ExpireType DEF Next

(* Every variable always holds what its declaration says.                  *)
THEOREM RepoTypes == Spec => []TypeOK
<1>1. TypeInv => TypeOK
  BY DEF TypeInv
<1> QED BY <1>1, InitType, NextType, PTL DEF Spec

-----------------------------------------------------------------------------
(* What is backed while calls overlap: the steps of the other use cases    *)

SameTarget(k, j) == j.uc = k.uc /\ j.source = k.source /\ j.etag = k.etag

(* A use case goes on or is over.                                          *)
LEMMA ContinueGoesOn ==
  ASSUME TypeInv, NEW c \in Calls, Continue(c)
  PROVE  Running(c) /\ (call'[c] = Done \/ SameTarget(call[c], call'[c]))
<1>1. CallOK(call[c])
  BY DEF TypeInv, TypeOK
<1>2. Done.uc = "none"
  BY DEF Done, NewCall
<1>3. \A j : Becomes(c, j) => call'[c] = j
  BY BecomesMoves
<1>4. \A j, w : Writes(c, w, j) => call'[c] = j
  BY WritesMoves
<1>5. CASE Create(c)
  BY ZenonT(60), <1>1, <1>2, <1>3, <1>5 DEF Create, Goes, Returns, Fails, Running, CallOK, NewCall, SameTarget
<1>6. CASE Refresh(c) \/ Mark(c) \/ Insert(c) \/ Withdraw(c) \/ Disable(c) \/ Forget(c) \/ Erase(c)
  BY ZenonT(60), <1>1, <1>2, <1>4, <1>6 DEF Refresh, Mark, Insert, Withdraw, Disable, Forget, Erase, Running, CallOK, NewCall, SameTarget
<1>7. CASE SaveFiles(c) \/ Register(c) \/ Unlist(c) \/ Stop(c) \/ Spare(c) \/ Wipe(c) \/ RegisterActive(c)
  BY ZenonT(60), <1>1, <1>2, <1>3, <1>7
     DEF SaveFiles, Register, Unlist, Stop, Spare, Wipe, RegisterActive, Goes, Returns, Fails, Running, CallOK, NewCall, SameTarget
<1>8. CASE Replace(c) \/ ConfirmPlugin(c) \/ Rollback(c) \/ DeleteInstallation(c)
  <2>1. ASSUME NEW w, NEW j, NEW after, Commits(c, w, j, after), DOMAIN j = DOMAIN NewCall
        PROVE  SameTarget(j, call'[c])
    BY <1>3, <2>1 DEF Commits, SameTarget, NewCall
  <2>2. CASE Replace(c)
    BY SMTT(30), <1>1, <1>2, <1>3, <2>1, <2>2 DEF Replace, Returns, Running, CallOK, NewCall, SameTarget
  <2>3. CASE ConfirmPlugin(c)
    <3>1. Returns(c) \/ \E w, old, required, after :
             Commits(c, w, [call[c] EXCEPT !.old = old, !.required = required], after)
      BY <2>3 DEF ConfirmPlugin
    <3>2. ASSUME NEW old, NEW required
          PROVE  LET j == [call[c] EXCEPT !.old = old, !.required = required] IN
                 DOMAIN j = DOMAIN NewCall /\ SameTarget(call[c], j)
      BY <1>1 DEF CallOK, NewCall, SameTarget
    <3>3. Running(c)
      BY <2>3 DEF ConfirmPlugin, Running
    <3>4. CASE Returns(c)
      BY <1>2, <1>3, <3>3, <3>4 DEF Returns
    <3>5. CASE ~Returns(c)
      <4>1. PICK w, old, required, after :
               Commits(c, w, [call[c] EXCEPT !.old = old, !.required = required], after)
        BY <3>1, <3>5
      <4> DEFINE j == [call[c] EXCEPT !.old = old, !.required = required]
      <4>2. DOMAIN j = DOMAIN NewCall /\ SameTarget(call[c], j)
        BY <3>2
      <4>3. Commits(c, w, j, after)
        BY <4>1
      <4> HIDE DEF j
      <4>4. SameTarget(j, call'[c])
        BY <2>1, <4>2, <4>3
      <4> QED BY <3>3, <4>2, <4>4 DEF SameTarget
    <3> QED BY <3>4, <3>5
  <2>4. CASE Rollback(c)
    BY <1>1, <1>2, <1>3, <2>1, <2>4 DEF Rollback, Returns, Running, CallOK, NewCall, SameTarget
  <2>5. CASE DeleteInstallation(c)
    <3>1. ASSUME NEW w, NEW gone, NEW after, Commits(c, w, [call[c] EXCEPT !.gone = gone], after)
          PROVE  SameTarget(call[c], call'[c])
      <4> DEFINE j == [call[c] EXCEPT !.gone = gone]
      <4>1. DOMAIN j = DOMAIN NewCall /\ SameTarget(call[c], j)
        BY <1>1 DEF CallOK, NewCall, SameTarget
      <4>2. Commits(c, w, j, after)
        BY <3>1
      <4> HIDE DEF j
      <4> QED BY <2>1, <4>1, <4>2 DEF SameTarget
    <3>2. Returns(c) => call'[c] = Done
      BY <1>3 DEF Returns
    <3> QED BY <2>5, <3>1, <3>2 DEF DeleteInstallation, Running
  <2> QED BY <1>8, <2>2, <2>3, <2>4, <2>5
<1>9. CASE Commit(c)
  BY ZenonT(60), <1>1, <1>2, <1>3, <1>4, <1>9 DEF Commit, Returns, Running, CallOK, NewCall, SameTarget
<1> QED BY <1>5, <1>6, <1>7, <1>8, <1>9 DEF Continue

(* Only a prune wipes.                                                     *)
LEMMA WipedByPrunes ==
  ASSUME TypeInv, NEW c \in Calls
  PROVE  /\ Wiped(call[c]) \subseteq call[c].gone
         /\ Wiped(call[c]) # {} => c \in Pruning
         /\ Relies(call[c]) # {} => Running(c)
         /\ call[c].step = "insert" => Running(c)
<1>1. CallOK(call[c]) /\ Directed(call[c])
  BY DEF TypeInv, TypeOK
<1> QED BY <1>1 DEF Wiped, Relies, Directed, CallOK, StepsOf, UseCases, Pruning, Running

LEMMA OthersStay ==
  ASSUME TypeInv, NEW c \in Calls, Moves(c), NEW d \in Calls \ {c}
  PROVE  /\ Wiped(call'[d]) = Wiped(call[d]) /\ Relies(call'[d]) = Relies(call[d])
         /\ call'[d].gone = call[d].gone /\ call'[d].step = call[d].step /\ call'[d].etag = call[d].etag
         /\ call'[d].uc = call[d].uc
         /\ Running(d)' <=> Running(d)
         /\ (d \in Pruning)' <=> d \in Pruning
BY DEF Moves, SameBut, Wiped, Relies, Running, Pruning

LEMMA PruneKept ==
  ASSUME TypeInv, TypeInv', PruneInv, NEW c \in Calls, Moves(c), Running(c), c \notin Pruning,
         call'[c].uc # "prune", spoilt \subseteq spoilt'
  PROVE  PruneInv'
<1>1. Pruning' \subseteq Pruning /\ c \notin Pruning'
  BY OthersStay DEF Pruning
<1>2. ASSUME NEW d \in Pruning'
      PROVE  /\ \A x \in Pruning' : x = d
             /\ Wiped(call'[d]) # {} =>
                  call'[d].gone \subseteq spoilt' \/ \A x \in Calls \ {d} : ~Running(x)'
             /\ call'[d].step = "erase" =>
                  \A e \in call'[d].gone \ spoilt', s \in Sources : inst'[<<s, e>>] = "none"
  <2>1. d \in Pruning /\ d \in Calls \ {c}
    BY <1>1 DEF Pruning
  <2>2. Wiped(call[d]) # {} => call[d].gone \subseteq spoilt
    BY <2>1 DEF PruneInv
  <2>3. call[d].step = "erase" => Wiped(call[d]) = call[d].gone
    BY DEF Wiped
  <2> QED BY <1>1, <2>1, <2>2, <2>3, OthersStay DEF PruneInv
<1> QED BY <1>2 DEF PruneInv

LEMMA BackKept ==
  ASSUME TypeInv, TypeInv', BackInv, NEW c \in Calls, Moves(c), c \notin Pruning,
         spoilt' = spoilt, files \subseteq files',
         \A e \in Etags : record[e] # "none" => record'[e] # "none",
         \A e \in Etags : record[e] = "none" /\ record'[e] # "none" => e \in files' \cup spoilt,
         \A s \in Sources, e \in Etags :
           inst[<<s, e>>] = "none" /\ inst'[<<s, e>>] # "none" => record[e] # "none" \/ e \in spoilt,
         \A x \in Relies(call'[c]) \ spoilt : record'[x] # "none",
         call'[c].step = "insert" => call'[c].etag \in files' \cup spoilt
  PROVE  BackInv'
<1>1. ASSUME NEW e \in Etags \ spoilt
      PROVE  /\ record'[e] # "none" => e \in files' \/ \E d \in Calls : e \in Wiped(call'[d])
             /\ \A s \in Sources : inst'[<<s, e>>] # "none" => record'[e] # "none"
  <2>1. Wiped(call[c]) = {}
    BY WipedByPrunes
  <2>2. \A d \in Calls : Wiped(call[d]) # {} => Wiped(call'[d]) = Wiped(call[d])
    BY <2>1, OthersStay
  <2>3. record[e] # "none" => e \in files \/ \E d \in Calls : e \in Wiped(call[d])
    BY DEF BackInv
  <2>4. \A s \in Sources : inst[<<s, e>>] # "none" => record[e] # "none"
    BY DEF BackInv
  <2> QED BY <2>2, <2>3, <2>4
<1>2. ASSUME NEW d \in Calls, NEW x \in Relies(call'[d]) \ spoilt  PROVE record'[x] # "none"
  <2>1. CASE d = c  BY <1>2, <2>1
  <2>2. CASE d # c
    <3>1. x \in Relies(call[d]) /\ record[x] # "none"
      BY <2>2, OthersStay DEF BackInv
    <3>2. x \in Etags
      <4>1. CallOK(call[d]) /\ Directed(call[d])
        BY DEF TypeInv, TypeOK
      <4> QED BY <3>1, <4>1 DEF Relies, CallOK, Directed, StepsOf, UseCases, WritesOK, Places
    <3> QED BY <3>1, <3>2
  <2> QED BY <2>1, <2>2
<1>3. ASSUME NEW d \in Calls, call'[d].step = "insert"  PROVE call'[d].etag \in files' \cup spoilt
  BY <1>3, OthersStay DEF BackInv
<1> QED BY <1>1, <1>2, <1>3 DEF BackInv

LEMMA BackSteps ==
  ASSUME TypeInv, TypeInv', BackInv, NEW c \in Calls, Moves(c), c \notin Pruning, Continue(c)
  PROVE  BackInv'
<1> DEFINE k == call[c]
<1>1. /\ CallOK(k) /\ Directed(k) /\ CallOK(Done)
      /\ record \in [Etags -> RecordStatus] /\ inst \in [Places -> InstStatus]
  BY NewCallOK DEF TypeInv, TypeOK
<1>2. \A s \in Sources, e \in Etags : inst[<<s, e>>] # "none" => record[e] # "none" \/ e \in spoilt
  BY DEF BackInv
<1>3. \A x \in Relies(k) : record[x] # "none" \/ x \in spoilt
  BY DEF BackInv
<1>4. Relies(Done) = {} /\ Done.step = "done"
  BY DEF Relies, Done, NewCall
<1>5. ASSUME NEW j, Becomes(c, j), UNCHANGED <<inst, record, files, spoilt>>, j.step # "insert",
             \A x \in Relies(j) : record[x] # "none" \/ x \in spoilt
      PROVE  BackInv'
  <2>1. call'[c] = j
    BY <1>5, BecomesMoves
  <2>2. \A x \in Relies(call'[c]) \ spoilt : record'[x] # "none"
    BY <1>5, <2>1
  <2>3. \A s \in Sources, e \in Etags :
           inst[<<s, e>>] = "none" /\ inst'[<<s, e>>] # "none" => record[e] # "none" \/ e \in spoilt
    BY <1>5
  <2> QED BY <1>5, <2>1, <2>2, <2>3, BackKept
<1>6. ASSUME NEW j, NEW w, Writes(c, w, j), UNCHANGED <<files, spoilt>>, j.step # "insert", WritesOK(w),
             \A x \in DOMAIN w.r : w.r[x] # "none" /\ (record[x] # "none" \/ x \in files \cup spoilt),
             \A p \in DOMAIN w.i : inst[p] # "none" \/ record[p[2]] # "none" \/ p[2] \in spoilt,
             \A x \in Relies(j) : record'[x] # "none" \/ x \in spoilt
      PROVE  BackInv'
  <2>1. call'[c] = j
    BY <1>6, WritesMoves
  <2>2. \A e \in Etags : record'[e] = IF e \in DOMAIN w.r THEN w.r[e] ELSE record[e]
    BY <1>1, <1>6 DEF Writes, Over
  <2>3. \A p \in Places : inst'[p] = IF p \in DOMAIN w.i THEN w.i[p] ELSE inst[p]
    BY <1>1, <1>6 DEF Writes, Over
  <2>4. \A s \in Sources, e \in Etags : <<s, e>> \in Places /\ <<s, e>>[2] = e
    BY DEF Places
  <2>5. \A s \in Sources, e \in Etags :
           inst[<<s, e>>] = "none" /\ inst'[<<s, e>>] # "none" => record[e] # "none" \/ e \in spoilt
    BY <1>6, <2>3, <2>4
  <2>6. \A x \in Relies(call'[c]) \ spoilt : record'[x] # "none"
    BY <1>6, <2>1
  <2> QED BY <1>6, <2>1, <2>2, <2>5, <2>6, BackKept
<1>7. CASE Create(c)
  <2>1. CASE Fails(c)
    BY <1>1, <1>4, <1>5, <1>7, <2>1 DEF Create, Fails, Goes, Returns, data, Relies, CallOK, NewCall
  <2>2. CASE \E step \in {"refresh", "files"} : Goes(c, step)
    BY <1>1, <1>5, <1>7, <2>2 DEF Create, Goes, data, Relies, CallOK, NewCall
  <2>3. CASE /\ record[k.etag] # "none"
             /\ Becomes(c, [k EXCEPT !.step = IF k.uc = "upload" THEN "mark" ELSE "replace",
                                     !.required = record[k.etag] # "active"])
    BY <1>1, <1>5, <1>7, <2>3 DEF Create, data, Relies, CallOK, NewCall
  <2> QED BY <1>7, <2>1, <2>2, <2>3 DEF Create
<1>8. CASE Refresh(c)
  <2>1. k.uc = "upload" /\ At(c) \in Places
    BY <1>1, <1>8 DEF Refresh, Directed, StepsOf, CallOK, UseCases, At, Places
  <2> DEFINE w == [NoWrites EXCEPT !.i = Those({At(c)} \ {p \in Places : inst[p] = "none"}, "pending")]
  <2>2. WritesOK(w) /\ DOMAIN w.r = {} /\ \A p \in DOMAIN w.i : inst[p] # "none"
    BY <2>1 DEF WritesOK, NoWrites, Those, InstStatus
  <2> QED BY <1>4, <1>6, <1>8, <2>2 DEF Refresh
<1>9. CASE Mark(c)
  <2>1. k.uc = "upload" /\ At(c) \in Places /\ At(c)[2] = k.etag
    BY <1>1, <1>9 DEF Mark, Directed, StepsOf, CallOK, UseCases, At, Places
  <2> DEFINE w == [NoWrites EXCEPT !.i = Those({At(c)}, "pending")]
  <2>2. k.etag \in Relies(k)
    BY <1>9 DEF Mark, Relies
  <2>3. WritesOK(w) /\ DOMAIN w.r = {} /\ DOMAIN w.i = {At(c)}
    BY <2>1 DEF WritesOK, NoWrites, Those, InstStatus
  <2> QED BY <1>3, <1>4, <1>6, <1>9, <2>1, <2>2, <2>3 DEF Mark
<1>10. CASE SaveFiles(c)
  <2>1. CASE Fails(c) /\ UNCHANGED files
    BY <1>1, <1>4, <1>5, <1>10, <2>1 DEF SaveFiles, Fails, Goes, Returns, Relies, CallOK, NewCall
  <2>2. CASE Goes(c, "insert") /\ files' = files \cup {k.etag}
    <3>1. call'[c] = [k EXCEPT !.step = "insert"]
      BY <2>2, BecomesMoves DEF Goes
    <3>2. call'[c].step = "insert" /\ call'[c].etag = k.etag /\ Relies(call'[c]) = {}
      BY <1>1, <3>1 DEF Relies, CallOK, NewCall
    <3> QED BY <1>10, <2>2, <3>2, BackKept DEF SaveFiles
  <2> QED BY <1>10, <2>1, <2>2 DEF SaveFiles
<1>11. CASE Insert(c)
  <2> DEFINE new == IF record[k.etag] = "none" THEN {k.etag} ELSE {}
             w == [NoWrites EXCEPT !.r = Those(new, "disabled")]
             j == [k EXCEPT !.step = IF k.uc = "upload" THEN "mark" ELSE "replace", !.required = TRUE]
  <2>1. k.etag \in Etags /\ k.etag \in files \cup spoilt
    BY <1>1, <1>11 DEF Insert, Directed, StepsOf, CallOK, UseCases, BackInv
  <2>2. WritesOK(w) /\ DOMAIN w.i = {} /\ DOMAIN w.r = new /\ \A x \in new : w.r[x] = "disabled"
    BY <2>1 DEF WritesOK, NoWrites, Those, RecordStatus
  <2>3. j.step # "insert" /\ Relies(j) = {k.etag}
    BY <1>1 DEF Relies, CallOK, NewCall
  <2>4. Writes(c, w, j) /\ UNCHANGED <<files, spoilt>>
    BY <1>11 DEF Insert
  <2>5. record'[k.etag] # "none"
    BY <1>1, <2>1, <2>2, <2>4 DEF Writes, Over
  <2> HIDE DEF w, j
  <2> QED BY <1>6, <2>1, <2>2, <2>3, <2>4, <2>5
<1>12. CASE Withdraw(c)
  <2> DEFINE pending == {<<System, call[c].etag>>} \cap {p \in Places : inst[p] = "pending"}
             w == [NoWrites EXCEPT !.i = Those(pending, "disabled")]
             j == [k EXCEPT !.step = "unlist", !.gone = {k.etag}]
  <2>1. WritesOK(w) /\ DOMAIN w.r = {} /\ DOMAIN w.i = pending
    BY DEF WritesOK, NoWrites, Those, InstStatus
  <2>2. j.step # "insert" /\ Relies(j) = {}
    BY <1>1 DEF Relies, CallOK, NewCall
  <2>3. Writes(c, w, j) /\ UNCHANGED <<files, spoilt>>
    BY <1>12 DEF Withdraw
  <2>4. \A p \in DOMAIN w.i : inst[p] # "none"
    BY <2>1
  <2> HIDE DEF w, j
  <2> QED BY <1>6, <2>1, <2>2, <2>3, <2>4
<1> DEFINE CommitsTo(w, j) == Becomes(c, j) /\ UNCHANGED <<data, lone, spoilt>> /\ j.step = "commit" /\ j.tx = w
           Backed(w) == /\ \A x \in DOMAIN w.r : record[x] # "none" \/ x \in spoilt
                        /\ \A p \in DOMAIN w.i : record[p[2]] # "none" \/ p[2] \in spoilt
<1>13. ASSUME NEW w, NEW j, CommitsTo(w, j), Backed(w)  PROVE BackInv'
  <2>1. Relies(j) = DOMAIN w.r \cup {p[2] : p \in DOMAIN w.i}
    BY <1>13 DEF Relies
  <2>2. \A x \in Relies(j) : record[x] # "none" \/ x \in spoilt
    BY <1>13, <2>1
  <2> QED BY <1>5, <1>13, <2>2 DEF data
<1>14. ASSUME Returns(c), UNCHANGED <<data, lone, spoilt>>  PROVE BackInv'
  BY <1>4, <1>5, <1>14 DEF Returns, data
<1>15. \A e, i : \A x \in SameVersion(e, i) : record[x] = "active"
  BY DEF SameVersion, Unreferenced, Records
<1>16. k.source \in Sources => \A x \in Active(inst, k.source) : record[x] # "none" \/ x \in spoilt
  BY <1>2 DEF Active
<1>17. CASE Replace(c)
  <2> DEFINE e == k.etag
             activate == k.required \/ record[e] = "disabled"
             i == Those({<<k.source, x>> : x \in Active(inst, k.source) \ {e}}, "disabled")
             j == [p \in DOMAIN i \cup {At(c)} |-> IF p = At(c) THEN "active" ELSE i[p]]
             off == SameVersion(e, Over(j, inst))
             on == IF activate /\ record[e] # "none" THEN {e} ELSE {}
             w == [i |-> j, r |-> [x \in on \cup off |-> IF x \in on THEN "active" ELSE "disabled"]]
             next == [k EXCEPT !.required = activate, !.step = "commit", !.tx = w,
                               !.after = IF activate THEN "register" ELSE "unlist"]
  <2>1. k.uc = "install" /\ k.source \in Sources /\ e \in Etags
    BY <1>1, <1>17 DEF Replace, Directed, StepsOf, CallOK, UseCases
  <2>2. e \in Relies(k)
    BY <1>17 DEF Replace, Relies
  <2>3. \A p \in DOMAIN w.i : p[2] = e \/ p[2] \in Active(inst, k.source)
    BY DEF Those, At
  <2>4. Backed(w)
    BY <1>3, <1>15, <1>16, <2>1, <2>2, <2>3
  <2>5. next.step = "commit" /\ next.tx = w
    BY <1>1 DEF CallOK, NewCall
  <2>6. Returns(c) \/ Becomes(c, next)
    BY <1>17 DEF Replace, Commits
  <2>7. UNCHANGED <<data, lone, spoilt>>
    BY <1>17 DEF Replace
  <2> HIDE DEF w, next
  <2> QED BY <1>13, <1>14, <2>4, <2>5, <2>6, <2>7
<1>18. CASE ConfirmPlugin(c)
  <2> DEFINE e == k.etag
             old == Active(inst, k.source)
             i == [p \in {At(c)} \cup {<<k.source, x>> : x \in old} |-> IF p = At(c) THEN "active" ELSE "disabled"]
             off == SameVersion(e, Over(i, inst))
             required == e \notin Referenced(inst) /\ record[e] # "active"
             w == [i |-> i, r |-> [x \in off \cup ({e} \ Records("active")) |->
                                     IF x = e THEN "active" ELSE "disabled"]]
             next == [k EXCEPT !.old = old, !.required = required, !.step = "commit", !.tx = w,
                               !.after = IF required THEN "register" ELSE "unlist"]
  <2>1. k.uc = "confirm" /\ k.source \in Sources /\ e \in Etags
    BY <1>1, <1>18 DEF ConfirmPlugin, Directed, StepsOf, CallOK, UseCases
  <2>2. \A p \in DOMAIN w.i : p[2] = e \/ p[2] \in Active(inst, k.source)
    BY DEF At
  <2>3. record[e] # "none" => Backed(w)
    BY <1>15, <1>16, <2>1, <2>2
  <2>4. next.step = "commit" /\ next.tx = w
    BY <1>1 DEF CallOK, NewCall
  <2>5. (Returns(c) \/ Becomes(c, next)) /\ (record[e] = "none" => Returns(c))
    <3>1. record[e] = "none" => Returns(c)
      BY <1>18 DEF ConfirmPlugin
    <3>2. Returns(c) \/ Becomes(c, next)
      BY <1>18 DEF ConfirmPlugin, Commits
    <3> QED BY <3>1, <3>2
  <2>6. UNCHANGED <<data, lone, spoilt>>
    BY <1>18 DEF ConfirmPlugin
  <2> HIDE DEF w, next
  <2> QED BY <1>13, <1>14, <2>3, <2>4, <2>5, <2>6
<1>19. CASE Rollback(c)
  <2> DEFINE back == {<<k.source, x>> : x \in k.old} \cap {p \in Places : inst[p] # "none"}
             own == {At(c)} \cap {p \in Places : inst[p] = "active"}
             i == [p \in own \cup back |-> IF p \in back THEN "active" ELSE "pending"]
             off == Unreferenced({k.etag}, Over(i, inst)) \ Records("none")
             on == k.old \ Records("none")
             w == [i |-> i, r |-> [x \in off \cup on |-> IF x \in off THEN "disabled" ELSE "active"]]
             next == [k EXCEPT !.step = "commit", !.tx = w, !.after = "done"]
  <2>1. k.uc = "confirm" /\ k.source \in Sources /\ k.etag \in Etags /\ k.old \subseteq Etags
    BY <1>1, <1>19 DEF Rollback, Directed, StepsOf, CallOK, UseCases
  <2>2. \A p \in DOMAIN w.i : p \in Places /\ inst[p] # "none"
    OBVIOUS
  <2>3. \A p \in DOMAIN w.i : record[p[2]] # "none" \/ p[2] \in spoilt
    BY <1>2, <2>2 DEF Places
  <2>4. \A x \in DOMAIN w.r : record[x] # "none"
    BY <2>1 DEF Records, Unreferenced
  <2>5. next.step = "commit" /\ next.tx = w
    BY <1>1 DEF CallOK, NewCall
  <2>6. Becomes(c, next) /\ UNCHANGED <<data, lone, spoilt>>
    BY <1>19 DEF Rollback, Commits
  <2> HIDE DEF w, next
  <2> QED BY <1>13, <2>3, <2>4, <2>5, <2>6
<1>20. CASE DeleteInstallation(c)
  <2> DEFINE own == Active(inst, k.source)
             i == Those({<<k.source, x>> : x \in own}, "disabled")
             off == Unreferenced(own, Over(i, inst))
             after == IF own \cap Records("none") = {} THEN "stop" ELSE "done"
             w == [i |-> i, r |-> Those(off \ Records("none"), "disabled")]
             next == [k EXCEPT !.gone = off, !.step = "commit", !.tx = w, !.after = after]
  <2>1. k.uc = "delete" /\ k.source \in Sources
    BY <1>1, <1>20 DEF DeleteInstallation, Directed, StepsOf, CallOK, UseCases
  <2>2. \A p \in DOMAIN w.i : p[2] \in own
    BY DEF Those
  <2>3. \A x \in DOMAIN w.r : x \in own
    BY DEF Those, Unreferenced
  <2>4. Backed(w)
    BY <1>16, <2>1, <2>2, <2>3
  <2>5. next.step = "commit" /\ next.tx = w
    BY <1>1 DEF CallOK, NewCall
  <2>6. Returns(c) \/ Becomes(c, next)
    BY <1>20 DEF DeleteInstallation, Commits
  <2>7. UNCHANGED <<data, lone, spoilt>>
    BY <1>20 DEF DeleteInstallation
  <2> HIDE DEF w, next
  <2> QED BY <1>13, <1>14, <2>4, <2>5, <2>6, <2>7
<1>21. CASE Commit(c)
  <2> DEFINE next == IF k.after = "done" THEN Done ELSE [k EXCEPT !.step = k.after, !.tx = NoWrites, !.after = "done"]
  <2>1. CASE k.conflict \/ Duplicate(Over(k.tx.i, inst))
    BY <1>14, <1>21, <2>1 DEF Commit, data
  <2>2. CASE ~k.conflict /\ ~Duplicate(Over(k.tx.i, inst))
    <3>1. Relies(k) = DOMAIN k.tx.r \cup {p[2] : p \in DOMAIN k.tx.i}
      BY <1>21 DEF Commit, Relies
    <3>2. WritesOK(k.tx) /\ \A x \in DOMAIN k.tx.r : k.tx.r[x] # "none"
      BY <1>1 DEF CallOK, Directed
    <3>3. next.step # "insert" /\ Relies(next) = {}
      BY <1>1, <1>4, <1>21 DEF Commit, Relies, CallOK, Directed, NewCall, AfterOf, StepsOf, UseCases
    <3>4. Writes(c, k.tx, next) /\ UNCHANGED <<files, spoilt>>
      BY <1>21, <2>2 DEF Commit
    <3> HIDE DEF next
    <3> QED BY <1>3, <1>6, <3>1, <3>2, <3>3, <3>4
  <2> QED BY <2>1, <2>2
<1>22. CASE Register(c) \/ Stop(c) \/ RegisterActive(c) \/ Unlist(c)
  <2>1. PICK j : Becomes(c, j) /\ j.step \in {"unlist", "rollback", "done", "boot", "disable"}
    <3>1. CASE Register(c)
      BY <1>1, <1>4, <3>1 DEF Register, Goes, Returns, CallOK, NewCall
    <3>2. CASE Stop(c)
      BY <1>4, <3>2 DEF Stop, Returns
    <3>3. CASE RegisterActive(c)
      <4>1. CASE Returns(c)
        BY <1>4, <4>1 DEF Returns
      <4>2. CASE \E e \in k.gone : Becomes(c, [k EXCEPT !.gone = @ \ {e}])
        BY <1>1, <3>3, <4>2 DEF RegisterActive, CallOK, NewCall
      <4> QED BY <3>3, <4>1, <4>2 DEF RegisterActive
    <3>4. CASE Unlist(c)
      <4>1. CASE Returns(c)
        BY <1>4, <4>1 DEF Returns
      <4>2. CASE Becomes(c, [k EXCEPT !.step = "disable", !.gone = Unreferenced(k.gone, inst)])
        <5> DEFINE j == [k EXCEPT !.step = "disable", !.gone = Unreferenced(k.gone, inst)]
        <5>1. j.step = "disable"
          BY <1>1 DEF CallOK, NewCall
        <5> HIDE DEF j
        <5> QED BY <4>2, <5>1 DEF j
      <4> QED BY <3>4, <4>1, <4>2 DEF Unlist
    <3> QED BY <1>22, <3>1, <3>2, <3>3, <3>4
  <2> QED BY <1>5, <1>22, <2>1 DEF Register, Stop, RegisterActive, Unlist, data, Relies
<1>23. CASE Disable(c)
  <2> DEFINE w == [NoWrites EXCEPT !.r = Those(k.gone \ Records("none"), "disabled")]
             j == IF k.uc = "upload" THEN Done ELSE [k EXCEPT !.step = "stop"]
  <2>1. WritesOK(w) /\ DOMAIN w.i = {} /\ \A x \in DOMAIN w.r : w.r[x] # "none" /\ record[x] # "none"
    BY <1>1 DEF WritesOK, NoWrites, Those, RecordStatus, Records, CallOK
  <2>2. j.step # "insert" /\ Relies(j) = {}
    BY <1>1, <1>4 DEF Relies, CallOK, NewCall
  <2>3. Writes(c, w, j) /\ UNCHANGED <<files, spoilt>>
    BY <1>23 DEF Disable
  <2> HIDE DEF w, j
  <2> QED BY <1>6, <2>1, <2>2, <2>3
<1>24. ~Spare(c) /\ ~Wipe(c) /\ ~Forget(c) /\ ~Erase(c)
  BY PruneStepsType
<1> QED BY <1>7, <1>8, <1>9, <1>10, <1>11, <1>12, <1>17, <1>18, <1>19, <1>20, <1>21, <1>22, <1>23, <1>24
        DEF Continue

-----------------------------------------------------------------------------
(* What is backed while calls overlap: the other steps                     *)

(* Nothing is rested on in a call that has only begun.                     *)
LEMMA FreshCall ==
  /\ Relies(NewCall) = {} /\ Wiped(NewCall) = {} /\ Relies(Done) = {} /\ Wiped(Done) = {}
  /\ Done.uc = "none" /\ Done.step = "done"
  /\ \A uc, s, e, step :
       LET k == Start(uc, s, e, step) IN
       step \notin {"mark", "replace", "commit", "wipe", "erase"} =>
         /\ Relies(k) = {} /\ Wiped(k) = {}
         /\ \A gone : Relies([k EXCEPT !.gone = gone]) = {} /\ Wiped([k EXCEPT !.gone = gone]) = {}
BY DEF Relies, Wiped, NewCall, Done, Start

LEMMA BeginBacked ==
  ASSUME TypeInv, TypeInv', PruneInv, BackInv, NEW c \in Calls, Moves(c),
         \/ \E s \in Sources, e \in Etags : Upload(c, s, e) \/ Install(c, s, e) \/ Confirm(c, s, e)
         \/ \E s \in Sources : Delete(c, s)
         \/ Prune(c)
  PROVE  PruneInv' /\ BackInv'
<1>1. PICK uc, s, e : Begins(c, uc, s, e)
  BY DEF Upload, Install, Confirm, Delete, Prune
<1>2. UNCHANGED data /\ spoilt \subseteq spoilt' /\ \A d \in Pruning : call[d].gone \subseteq spoilt'
  BY <1>1 DEF Begins, Upload, Install, Confirm, Delete, Prune
<1>3. call[c].step = "new" /\ c \notin Pruning
  BY <1>1 DEF Begins, IsNext, Pruning, Running
<1>4. /\ Relies(call'[c]) = {} /\ Wiped(call'[c]) = {}
      /\ call'[c].step \in {"create", "confirm", "delete", "spare"}
      /\ call'[c].uc = "prune" => Pruning = {}
  <2>1. PICK k : Becomes(c, k) /\ Relies(k) = {} /\ Wiped(k) = {} /\ k.step \in {"create", "confirm", "delete", "spare"}
                 /\ (k.uc = "prune" => Pruning = {})
    <3> DEFINE Fresh(k) == /\ Relies(k) = {} /\ Wiped(k) = {} /\ k.step \in {"create", "confirm", "delete", "spare"}
                           /\ (k.uc = "prune" => Pruning = {})
    <3>1. ASSUME NEW x, NEW y, Upload(c, x, y)  PROVE \E k : Becomes(c, k) /\ Fresh(k)
      <4>1. Fresh([Start("upload", x, y, "create") EXCEPT !.kept = y \in GetPendingPluginIds(System)])
        BY DEF Start, NewCall, Relies, Wiped
      <4> QED BY <3>1, <4>1 DEF Upload
    <3>2. ASSUME NEW x, NEW y, Install(c, x, y)  PROVE \E k : Becomes(c, k) /\ Fresh(k)
      <4>1. Fresh([Start("install", x, y, "create") EXCEPT !.gone = ListActive \ {y}])
        BY DEF Start, NewCall, Relies, Wiped
      <4> QED BY <3>2, <4>1 DEF Install
    <3>3. ASSUME NEW x, NEW y, Confirm(c, x, y)  PROVE \E k : Becomes(c, k) /\ Fresh(k)
      <4>1. Fresh([Start("confirm", x, y, "confirm") EXCEPT !.gone = ListActive \ {y}])
        BY DEF Start, NewCall, Relies, Wiped
      <4> QED BY <3>3, <4>1 DEF Confirm
    <3>4. ASSUME NEW x, Delete(c, x)  PROVE \E k : Becomes(c, k) /\ Fresh(k)
      <4>1. Fresh(Start("delete", x, None, "delete"))
        BY DEF Start, NewCall, Relies, Wiped
      <4> QED BY <3>4, <4>1 DEF Delete
    <3>5. ASSUME Prune(c)  PROVE \E k : Becomes(c, k) /\ Fresh(k)
      <4>1. Fresh([Start("prune", None, None, "spare") EXCEPT !.gone = Records("disabled")])
        BY <3>5 DEF Start, NewCall, Relies, Wiped, Prune
      <4> QED BY <3>5, <4>1 DEF Prune
    <3> QED BY <3>1, <3>2, <3>3, <3>4, <3>5
  <2> QED BY <2>1, BecomesMoves
<1>5. PruneInv'
  <2>1. ASSUME NEW d \in Pruning'
        PROVE  /\ \A x \in Pruning' : x = d
               /\ Wiped(call'[d]) = {} \/ call'[d].gone \subseteq spoilt'
               /\ call'[d].step = "erase" => call'[d].gone \subseteq spoilt'
    <3>1. \A x \in Pruning' : x = c \/ x \in Pruning
      BY OthersStay DEF Pruning
    <3>2. c \in Pruning' => Pruning = {}
      BY <1>4 DEF Pruning
    <3>3. \A x \in Pruning : x # c /\ call'[x].gone \subseteq spoilt' /\ x \in Calls
      BY <1>2, <1>3, OthersStay DEF Pruning
    <3> QED BY <1>4, <3>1, <3>2, <3>3 DEF PruneInv
  <2> QED BY <2>1 DEF PruneInv
<1>6. BackInv'
  <2>1. ASSUME NEW x \in Etags \ spoilt', record'[x] # "none"
        PROVE  x \in files' \/ \E d \in Calls : x \in Wiped(call'[d])
    BY <1>2, <1>3, <2>1, OthersStay, WipedByPrunes DEF BackInv, data
  <2>2. \A d \in Calls : \A x \in Relies(call'[d]) \ spoilt' : record'[x] # "none"
    BY <1>2, <1>4, OthersStay DEF BackInv, data
  <2>3. \A d \in Calls : call'[d].step = "insert" => call'[d].etag \in files' \cup spoilt'
    BY <1>2, <1>4, OthersStay DEF BackInv, data
  <2> QED BY <1>2, <2>1, <2>2, <2>3 DEF BackInv, data
<1> QED BY <1>5, <1>6

LEMMA RestartBacked ==
  ASSUME TypeInv, TypeInv', PruneInv, BackInv, NEW c \in Calls, Restart(c)
  PROVE  PruneInv' /\ BackInv'
<1>1. /\ spoilt \subseteq spoilt' /\ \A d \in Pruning : call[d].gone \subseteq spoilt'
      /\ UNCHANGED <<inst, record, files>>
  BY DEF Restart
<1>2. ASSUME NEW d \in Calls
      PROVE  /\ Relies(call'[d]) = {} /\ call'[d].step \notin {"insert", "wipe", "erase"}
             /\ call'[d].uc # "prune" \/ ~Running(d)'
  <2>1. CASE d = c
    BY <2>1, FreshCall DEF Restart, Start, NewCall, Relies
  <2>2. CASE d # c /\ Running(d)
    BY <2>2, FreshCall DEF Restart
  <2>3. CASE d # c /\ ~Running(d)
    BY <2>3 DEF Restart, Running, Relies
  <2> QED BY <2>1, <2>2, <2>3
<1>3. PruneInv'
  BY <1>2 DEF PruneInv, Pruning
<1>4. \A x \in Etags \ spoilt' : record'[x] # "none" => x \in files'
  BY <1>1, WipedByPrunes DEF BackInv
<1> QED BY <1>1, <1>2, <1>3, <1>4 DEF BackInv

(* A prune is alone, or what it removes is spoilt.                         *)
LEMMA PruneStepsBacked ==
  ASSUME TypeInv, TypeInv', PruneInv, BackInv, NEW c \in Calls, Moves(c), c \in Pruning,
         Spare(c) \/ Wipe(c) \/ Forget(c) \/ Erase(c)
  PROVE  PruneInv' /\ BackInv'
<1> DEFINE k == call[c]
<1>1. /\ CallOK(k) /\ Directed(k)
      /\ record \in [Etags -> RecordStatus] /\ inst \in [Places -> InstStatus]
      /\ \A s \in Sources, e \in Etags : <<s, e>> \in Places /\ <<s, e>>[2] = e
  BY DEF TypeInv, TypeOK, Places
<1>2. \A d \in Calls \ {c} : d \notin Pruning /\ Wiped(call[d]) = {}
  BY WipedByPrunes DEF PruneInv
<1>3. \A d \in Calls \ {c} : d \notin Pruning' /\ Wiped(call'[d]) = {} /\ (Running(d)' <=> Running(d))
  BY <1>2, OthersStay
<1>4. \A d \in Calls \ {c} : Relies(call[d]) # {} \/ call[d].step = "insert" => Running(d)
  BY WipedByPrunes
<1>5. spoilt \subseteq Disturbs(c) /\ ((\E d \in Calls \ {c} : Running(d)) => k.gone \subseteq Disturbs(c))
  BY DEF Disturbs
<1>6. Relies(k) = {} /\ k.step # "insert"
  BY <1>1 DEF Spare, Wipe, Forget, Erase, Relies
<1>7. CASE Spare(c)
  <2> DEFINE gone == {e \in k.gone : \A s \in Sources : inst[<<s, e>>] # "pending"}
  <2>1. call'[c] = [k EXCEPT !.step = "wipe", !.gone = gone, !.old = gone] /\ UNCHANGED <<data, spoilt>>
    BY <1>7, BecomesMoves DEF Spare
  <2>2. Wiped(call'[c]) = {} /\ call'[c].step = "wipe" /\ Relies(call'[c]) = {}
    BY <1>1, <2>1 DEF CallOK, NewCall, Wiped, Relies
  <2>3. Wiped(k) = {}
    BY <1>7 DEF Spare, Wiped
  <2>4. PruneInv'
    BY <1>3, <2>2 DEF PruneInv, Pruning
  <2>5. BackInv'
    <3>1. \A d \in Calls : Wiped(call[d]) = {}
      BY <1>2, <2>3
    <3>2. UNCHANGED <<record, inst, files, spoilt>>
      BY <2>1 DEF data
    <3>3. ASSUME NEW d \in Calls
          PROVE  /\ \A x \in Relies(call'[d]) \ spoilt' : record'[x] # "none"
                 /\ call'[d].step = "insert" => call'[d].etag \in files' \cup spoilt'
      <4>1. CASE d = c
        BY <2>2, <4>1
      <4>2. CASE d # c
        BY <3>2, <4>2, OthersStay DEF BackInv
      <4> QED BY <4>1, <4>2
    <3> QED BY <3>1, <3>2, <3>3 DEF BackInv
  <2> QED BY <2>4, <2>5
<1>8. CASE Wipe(c)
  <2>1. k.step = "wipe" /\ k.old \subseteq k.gone /\ UNCHANGED <<inst, record>> /\ Wiped(k) = k.gone \ k.old
    BY <1>1, <1>8 DEF Wipe, Directed, Wiped
  <2>2. PICK e \in k.old :
          \/ /\ files' = files \ {e} /\ Becomes(c, [k EXCEPT !.old = @ \ {e}]) /\ spoilt' = Disturbs(c)
          \/ /\ files' \in {files, files \ {e}} /\ Returns(c) /\ spoilt' = Disturbs(c) \cup (k.gone \ files')
    BY <1>8 DEF Wipe
  <2>3. e \in k.gone /\ spoilt \subseteq spoilt' /\ ((\E d \in Calls \ {c} : Running(d)) => k.gone \subseteq spoilt')
    BY <1>5, <2>1, <2>2
  <2>4. ASSUME NEW d \in Calls \ {c}
        PROVE  /\ \A x \in Relies(call'[d]) \ spoilt' : record'[x] # "none"
               /\ call'[d].step = "insert" => call'[d].etag \in files' \cup spoilt'
    <3>1. \A x \in Relies(call'[d]) \ spoilt' : record'[x] # "none"
      BY <2>1, <2>3, OthersStay DEF BackInv
    <3>2. call[d].step = "insert" => k.gone \subseteq spoilt' /\ call[d].etag \in files \cup spoilt
      BY <1>4, <2>3 DEF BackInv
    <3> QED BY <2>2, <2>3, <3>1, <3>2, OthersStay
  <2>5. \A x \in Etags \ spoilt : record[x] # "none" => x \in files \/ x \in Wiped(k)
    BY <1>2 DEF BackInv
  <2>6. CASE files' = files \ {e} /\ Becomes(c, [k EXCEPT !.old = @ \ {e}])
    <3>1. call'[c] = [k EXCEPT !.old = @ \ {e}]
      BY <2>6, BecomesMoves
    <3>2. /\ Wiped(call'[c]) = Wiped(k) \cup {e} /\ Relies(call'[c]) = {}
          /\ call'[c].step = "wipe" /\ call'[c].gone = k.gone
      BY <1>1, <2>1, <2>3, <3>1 DEF CallOK, NewCall, Wiped, Relies
    <3>3. PruneInv'
      BY <1>3, <2>3, <3>2 DEF PruneInv, Pruning
    <3>4. \A x \in Etags \ spoilt' : record'[x] # "none" => x \in files' \/ x \in Wiped(call'[c])
      BY <2>1, <2>3, <2>5, <2>6, <3>2
    <3> QED BY <2>1, <2>3, <2>4, <3>2, <3>3, <3>4 DEF BackInv
  <2>7. CASE files' \in {files, files \ {e}} /\ Returns(c) /\ spoilt' = Disturbs(c) \cup (k.gone \ files')
    <3>1. call'[c] = Done
      BY <2>7, BecomesMoves DEF Returns
    <3>2. PruneInv'
      BY <1>3, <3>1, FreshCall DEF PruneInv, Pruning
    <3>3. \A x \in Etags \ spoilt' : record'[x] # "none" => x \in files'
      BY <2>1, <2>3, <2>5, <2>7
    <3>4. Relies(call'[c]) = {} /\ call'[c].step # "insert"
      BY <3>1, FreshCall
    <3> QED BY <2>1, <2>3, <2>4, <3>2, <3>3, <3>4 DEF BackInv
  <2> QED BY <2>2, <2>6, <2>7
<1>9. CASE Forget(c)
  <2> DEFINE gone == {p \in Places : p[2] \in k.gone /\ inst[p] # "none"}
             w == [NoWrites EXCEPT !.i = Those(gone, "none")]
             j == [k EXCEPT !.step = "erase"]
  <2>1. /\ k.step = "wipe" /\ k.old = {} /\ Wiped(k) = k.gone /\ Writes(c, w, j)
        /\ spoilt' = Disturbs(c) /\ UNCHANGED files
    BY <1>9 DEF Forget, Wiped
  <2>2. call'[c] = j /\ j.step = "erase" /\ Wiped(j) = k.gone /\ j.gone = k.gone /\ Relies(j) = {} /\ j.uc = k.uc
    BY <1>1, <2>1, WritesMoves DEF CallOK, NewCall, Wiped, Relies
  <2>3. DOMAIN w.i = gone /\ DOMAIN w.r = {} /\ \A p \in gone : w.i[p] = "none"
    BY DEF NoWrites, Those
  <2>4. record' = record
    BY <1>1, <2>1, <2>3 DEF Writes, Over
  <2>5. \A p \in Places : inst'[p] = IF p \in gone THEN "none" ELSE inst[p]
    <3> HIDE DEF gone
    <3> QED BY <1>1, <2>1, <2>3 DEF Writes, Over
  <2>6. \A e \in k.gone, s \in Sources : inst'[<<s, e>>] = "none"
    <3>1. k.gone \subseteq Etags
      BY <1>1 DEF CallOK
    <3> QED BY <1>1, <2>5, <3>1
  <2>7. k.gone = {} \/ k.gone \subseteq spoilt' \/ \A d \in Calls \ {c} : ~Running(d)
    BY <1>5, <2>1
  <2> HIDE DEF w, j, gone
  <2>8. PruneInv'
    BY <1>3, <2>2, <2>6, <2>7 DEF PruneInv, Pruning
  <2>9. \A x \in Etags \ spoilt' : record'[x] # "none" => x \in files' \/ x \in Wiped(call'[c])
    BY <1>2, <1>5, <2>1, <2>2, <2>4 DEF BackInv
  <2>10. \A x \in Etags \ spoilt' : \A s \in Sources : inst'[<<s, x>>] # "none" => record'[x] # "none"
    <3>1. \A x \in Etags, s \in Sources : inst'[<<s, x>>] # "none" => inst[<<s, x>>] # "none"
      BY <1>1, <2>5
    <3> QED BY <1>5, <2>1, <2>4, <3>1 DEF BackInv
  <2>11. \A d \in Calls : /\ \A x \in Relies(call'[d]) \ spoilt' : record'[x] # "none"
                          /\ call'[d].step = "insert" => call'[d].etag \in files' \cup spoilt'
    BY <1>5, <2>1, <2>2, <2>4, OthersStay DEF BackInv
  <2> QED BY <2>8, <2>9, <2>10, <2>11 DEF BackInv
<1>10. CASE Erase(c)
  <2> DEFINE w == [NoWrites EXCEPT !.r = Those(k.gone \ Records("none"), "none")]
  <2>1. /\ k.step = "erase" /\ Wiped(k) = k.gone /\ Writes(c, w, Done) /\ spoilt' = Disturbs(c) /\ UNCHANGED files
    BY <1>10 DEF Erase, Wiped
  <2>2. call'[c] = Done
    BY <2>1, WritesMoves
  <2>3. DOMAIN w.i = {} /\ DOMAIN w.r = k.gone \ Records("none") /\ \A e \in DOMAIN w.r : w.r[e] = "none"
    BY DEF NoWrites, Those
  <2>4. inst' = inst
    BY <1>1, <2>1, <2>3 DEF Writes, Over
  <2>5. \A e \in Etags : record'[e] = IF e \in k.gone THEN "none" ELSE record[e]
    <3>1. \A e \in Etags : record'[e] = IF e \in DOMAIN w.r THEN w.r[e] ELSE record[e]
      <4> HIDE DEF w
      <4> QED BY <1>1, <2>1 DEF Writes, Over
    <3> QED BY <2>3, <3>1 DEF Records
  <2>6. \A e \in k.gone \ spoilt', s \in Sources : inst[<<s, e>>] = "none"
    BY <1>5, <2>1 DEF PruneInv
  <2> HIDE DEF w
  <2>7. PruneInv'
    BY <1>3, <2>2, FreshCall DEF PruneInv, Pruning
  <2>8. ASSUME NEW x \in Etags \ spoilt'
        PROVE  /\ record'[x] # "none" => x \in files'
               /\ \A s \in Sources : inst'[<<s, x>>] # "none" => record'[x] # "none"
    <3>1. x \notin spoilt
      BY <1>5, <2>1
    <3>2. record'[x] # "none" => x \in files'
      BY <1>2, <2>1, <2>5, <3>1 DEF BackInv
    <3> QED BY <2>4, <2>5, <2>6, <3>1, <3>2 DEF BackInv
  <2>9. ASSUME NEW d \in Calls
        PROVE  /\ \A x \in Relies(call'[d]) \ spoilt' : record'[x] # "none"
               /\ call'[d].step = "insert" => call'[d].etag \in files' \cup spoilt'
    <3>1. CASE d = c
      BY <2>2, <3>1, FreshCall
    <3>2. CASE d # c
      <4>1. Relies(call'[d]) = Relies(call[d]) /\ call'[d].step = call[d].step /\ call'[d].etag = call[d].etag
        BY <3>2, OthersStay
      <4>2. Relies(call[d]) # {} => k.gone \subseteq spoilt'
        BY <1>4, <1>5, <2>1, <3>2
      <4>3. \A x \in Relies(call[d]) : x \in Etags
        <5>1. CallOK(call[d]) /\ Directed(call[d])
          BY DEF TypeInv, TypeOK
        <5> QED BY <5>1 DEF Relies, CallOK, Directed, StepsOf, UseCases, WritesOK, Places
      <4> QED BY <1>5, <2>1, <2>5, <4>1, <4>2, <4>3 DEF BackInv
    <3> QED BY <3>1, <3>2
  <2> QED BY <2>7, <2>8, <2>9 DEF BackInv
<1> QED BY <1>7, <1>8, <1>9, <1>10

LEMMA ExpireBacked ==
  ASSUME TypeInv, PruneInv, BackInv, NEW s \in Sources, NEW e \in Etags, Expire(s, e)
  PROVE  PruneInv' /\ BackInv'
<1>1. Pruning' = {} /\ UNCHANGED <<record, files, call, spoilt>>
  BY DEF Expire, AtRest, Pruning, Running
<1>2. \A t \in Sources, x \in Etags : inst'[<<t, x>>] # "none" => inst[<<t, x>>] # "none"
  BY DEF Expire, TypeInv, TypeOK, Places
<1> QED BY <1>1, <1>2 DEF PruneInv, BackInv

LEMMA NextBacked == TypeInv /\ PruneInv /\ BackInv /\ [Next]_vars => PruneInv' /\ BackInv'
<1> SUFFICES ASSUME TypeInv, PruneInv, BackInv, [Next]_vars  PROVE PruneInv' /\ BackInv'
  OBVIOUS
<1>1. TypeInv'
  BY NextType
<1>2. CASE UNCHANGED vars
  BY <1>2 DEF vars, data, PruneInv, BackInv, Pruning, Running, Wiped, Relies
<1>3. ASSUME NEW c \in Calls, Begin(c)  PROVE PruneInv' /\ BackInv'
  BY <1>1, <1>3, BeginType, BeginBacked, RestartBacked DEF Begin
<1>4. ASSUME NEW c \in Calls, Continue(c)  PROVE PruneInv' /\ BackInv'
  <2>1. CASE Spare(c) \/ Wipe(c) \/ Forget(c) \/ Erase(c)
    BY <1>1, <2>1, PruneStepsType, PruneStepsBacked
  <2>2. CASE ~(Spare(c) \/ Wipe(c) \/ Forget(c) \/ Erase(c))
    <3>1. Moves(c) /\ UNCHANGED spoilt
      BY <1>4, <2>2, UploadStepsType, TransactionsType, RuntimeStepsType
         DEF Continue, Create, Refresh, Mark, SaveFiles, Insert, Replace, Withdraw, ConfirmPlugin, Rollback,
             DeleteInstallation, Commit, Register, Unlist, Disable, Stop, RegisterActive
    <3>2. c \notin Pruning
      <4>1. CallOK(call[c]) /\ Directed(call[c])
        BY DEF TypeInv, TypeOK
      <4>2. call[c].step \notin {"spare", "wipe", "erase", "new", "done"}
        BY <1>4, <2>2
           DEF Continue, Create, Refresh, Mark, SaveFiles, Insert, Replace, Withdraw, ConfirmPlugin, Rollback,
               DeleteInstallation, Commit, Register, Unlist, Disable, Stop, RegisterActive
      <4> QED BY <4>1, <4>2 DEF Directed, CallOK, StepsOf, UseCases, Pruning
    <3>3. Running(c) /\ call'[c].uc # "prune"
      <4>1. Running(c) /\ (call'[c] = Done \/ SameTarget(call[c], call'[c]))
        BY <1>4, ContinueGoesOn
      <4> QED BY <3>2, <4>1, FreshCall DEF Pruning, SameTarget
    <3> QED BY <1>1, <1>4, <3>1, <3>2, <3>3, PruneKept, BackSteps
  <2> QED BY <2>1, <2>2
<1> QED BY <1>2, <1>3, <1>4, ExpireBacked DEF Next

(* An installation has a record and a record its files, whatever overlaps, *)
(* where no prune has come in between.                                     *)
THEOREM InstallationsStayBacked == Spec => []InstallationsAreBacked
<1>1. Init => PruneInv /\ BackInv
  <2> SUFFICES ASSUME Init PROVE PruneInv /\ BackInv
    OBVIOUS
  <2> QED BY FreshCall DEF Init, PruneInv, BackInv, Pruning, Consistent, NewCall, Records, Running
<1>2. TypeInv /\ BackInv => InstallationsAreBacked
  <2> SUFFICES ASSUME TypeInv, BackInv, AtRest  PROVE InstallationsAreBacked
    BY DEF InstallationsAreBacked
  <2>1. \A d \in Calls : Wiped(call[d]) = {}
    BY WipedByPrunes DEF AtRest, Pruning
  <2> QED BY <2>1 DEF InstallationsAreBacked, BackInv
<1> QED BY <1>1, <1>2, InitType, NextType, NextBacked, PTL DEF Spec

-----------------------------------------------------------------------------
(* One use case after another: a call alone                                *)

(* How a call fares that is alone, or what it leaves when it is over.      *)
Fares(c) ==
  /\ Sound(inst, record) /\ Others
  /\ Running(c) => /\ Found(call[c]) /\ WillDo(call[c])
                   /\ lone.uc = "confirm" => Confirming(call[c])
  /\ ~Running(c) /\ lone.uc = "confirm" => inst[<<lone.source, lone.etag>>] = "active" \/ Same

LEMMA Alone ==
  ASSUME TypeInv, LoneInv, lone.valid, NEW c \in Calls, Running(c)
  PROVE  /\ CallOK(call[c]) /\ Directed(call[c])
         /\ record \in [Etags -> RecordStatus] /\ inst \in [Places -> InstStatus]
         /\ lone.record \in [Etags -> RecordStatus] /\ lone.inst \in [Places -> InstStatus]
         /\ lone.running \subseteq Etags
         /\ Sound(inst, record) /\ Sound(lone.inst, lone.record) /\ Others
         /\ call[c].uc = lone.uc
         /\ lone.uc # "boot" => call[c].source = lone.source /\ call[c].etag = lone.etag
         /\ Found(call[c]) /\ WillDo(call[c])
         /\ lone.uc = "confirm" => Confirming(call[c])
BY DEF TypeInv, TypeOK, LoneOK, LoneInv

LEMMA Pairs ==
  /\ \A s \in Sources, e \in Etags : <<s, e>> \in Places /\ <<s, e>>[1] = s /\ <<s, e>>[2] = e
  /\ \A p \in Places : p[1] \in Sources /\ p[2] \in Etags /\ p = <<p[1], p[2]>>
BY DEF Places

LEMMA WritesAre ==
  ASSUME TypeInv, NEW c \in Calls, NEW w, NEW k, Writes(c, w, k)
  PROVE  /\ call'[c] = k
         /\ \A p \in Places : inst'[p] = IF p \in DOMAIN w.i THEN w.i[p] ELSE inst[p]
         /\ \A e \in Etags : record'[e] = IF e \in DOMAIN w.r THEN w.r[e] ELSE record[e]
         /\ inst' = Over(w.i, inst) /\ record' = Over(w.r, record)
BY WritesMoves DEF Writes, Over, TypeInv, TypeOK

(* What the other sources are served stays, where only installations of    *)
(* this source change and no service stops that is referred to.            *)
LEMMA OthersKept ==
  ASSUME TypeInv, TypeInv', LoneInv, lone.valid, UNCHANGED lone, Sound(inst', record'),
         \A s \in Sources \ {lone.source}, e \in Etags :
           inst[<<s, e>>] = "active" => inst'[<<s, e>>] = "active",
         lone.uc # "boot" => \A e \in running : e \in Referenced(inst) => e \in running'
  PROVE  Others'
<1>1. Others
  BY DEF LoneInv
<1>2. ASSUME NEW s \in Sources \ {lone.source}, NEW e \in Active(lone.inst, s)
      PROVE  /\ inst'[<<s, e>>] = "active" /\ record'[e] = "active"
             /\ e \in lone.running /\ lone.uc # "boot" => e \in running'
  <2>1. e \in Etags /\ inst[<<s, e>>] = "active" /\ inst'[<<s, e>>] = "active"
    BY <1>1 DEF Others, Active
  <2>2. e \in lone.running /\ lone.uc # "boot" => e \in running
    BY <1>1 DEF Others
  <2> QED BY <2>1, <2>2 DEF Sound, Referenced
<1> QED BY <1>2 DEF Others

(* The installations and records a step does not change.                   *)
LEMMA SameFares ==
  ASSUME TypeInv, TypeInv', LoneInv, lone.valid, NEW c \in Calls, Running(c),
         UNCHANGED <<inst, record, lone>>,
         lone.uc # "boot" => \A e \in running : e \in Referenced(inst) => e \in running'
  PROVE  Sound(inst', record') /\ Others'
<1>1. Sound(inst', record')
  BY DEF LoneInv
<1> QED BY <1>1, OthersKept

LEMMA UploadStepsFare ==
  ASSUME TypeInv, TypeInv', LoneInv, lone.valid, NEW c \in Calls, Running(c),
         Create(c) \/ Refresh(c) \/ Mark(c) \/ SaveFiles(c) \/ Insert(c) \/ Withdraw(c)
  PROVE  Fares(c)'
<1> DEFINE k == call[c]  own == <<k.source, k.etag>>
<1>1. /\ CallOK(k) /\ Directed(k)
      /\ record \in [Etags -> RecordStatus] /\ inst \in [Places -> InstStatus]
      /\ Sound(inst, record) /\ Found(k) /\ k.uc = lone.uc
      /\ lone.uc # "boot" => k.source = lone.source /\ k.etag = lone.etag
  BY Alone
<1>2. k.uc \in {"upload", "install"} /\ k.source \in Sources /\ k.etag \in Etags
  BY <1>1 DEF Create, Refresh, Mark, SaveFiles, Insert, Withdraw, Directed, StepsOf, CallOK, UseCases
<1>3. lone.uc # "confirm" /\ lone.uc # "boot" /\ k.source = lone.source /\ own \in Places /\ At(c) = own
  BY <1>1, <1>2, Pairs DEF At
<1>4. UNCHANGED <<lone, running>>
  BY DEF Create, Refresh, Mark, SaveFiles, Insert, Withdraw, data
<1>5. ASSUME NEW j, call'[c] = j, UNCHANGED <<inst, record>>,
             j.step \in {"done", "withdraw", "refresh", "mark", "replace", "files", "insert"},
             (j.source = k.source /\ j.etag = k.etag) \/ j.step = "done",
             j.step = "refresh" => inst[own] = "pending",
             j.step = "mark" => inst[own] # "active" /\ record[k.etag] # "none",
             j.step \in {"files", "insert"} => record[k.etag] = "none",
             j.step = "replace" => record[k.etag] # "none"
      PROVE  Fares(c)'
  <2>1. Sound(inst', record') /\ Others'
    BY <1>4, <1>5, SameFares
  <2>2. Found(call[c])' /\ WillDo(call[c])'
    BY <1>5 DEF Found, WillDo
  <2> QED BY <1>3, <1>4, <2>1, <2>2 DEF Fares
<1>6. CASE Create(c)
  <2>1. UNCHANGED <<inst, record>> /\ k.step = "create"
    BY <1>6 DEF Create, data
  <2>2. CASE Fails(c)
    <3>1. PICK j : Becomes(c, j) /\ j.step \in {"done", "withdraw"} /\ ((j.source = k.source /\ j.etag = k.etag) \/ j.step = "done")
      BY <1>1, <2>2 DEF Fails, Goes, Returns, Done, CallOK, NewCall
    <3> QED BY <1>5, <2>1, <3>1, BecomesMoves
  <2>3. CASE inst[own] = "pending" /\ Goes(c, "refresh")
    <3>1. call'[c] = [k EXCEPT !.step = "refresh"]
      BY <2>3, BecomesMoves DEF Goes
    <3>2. call'[c].step = "refresh" /\ call'[c].source = k.source /\ call'[c].etag = k.etag
      BY <1>1, <3>1 DEF CallOK, NewCall
    <3> QED BY <1>5, <2>1, <2>3, <3>2
  <2>4. CASE record[k.etag] = "none" /\ Goes(c, "files")
    <3>1. call'[c] = [k EXCEPT !.step = "files"]
      BY <2>4, BecomesMoves DEF Goes
    <3>2. call'[c].step = "files" /\ call'[c].source = k.source /\ call'[c].etag = k.etag
      BY <1>1, <3>1 DEF CallOK, NewCall
    <3> QED BY <1>5, <2>1, <2>4, <3>2
  <2>5. CASE /\ record[k.etag] # "none" /\ inst[own] \in {"none", "disabled"}
             /\ Becomes(c, [k EXCEPT !.step = IF k.uc = "upload" THEN "mark" ELSE "replace",
                                     !.required = record[k.etag] # "active"])
    <3>1. PICK b : call'[c] = [k EXCEPT !.step = IF k.uc = "upload" THEN "mark" ELSE "replace", !.required = b]
      BY <2>5, BecomesMoves
    <3>2. call'[c].step \in {"mark", "replace"} /\ call'[c].source = k.source /\ call'[c].etag = k.etag
      BY <1>1, <3>1 DEF CallOK, NewCall
    <3> QED BY <1>5, <2>1, <2>5, <3>2
  <2> QED BY <1>3, <1>6, <2>2, <2>3, <2>4, <2>5 DEF Create
<1>7. CASE Refresh(c)
  <2> DEFINE w == [NoWrites EXCEPT !.i = Those({At(c)} \ {p \in Places : inst[p] = "none"}, "pending")]
  <2>1. Writes(c, w, Done) /\ inst[own] = "pending"
    BY <1>1, <1>7 DEF Refresh, Found
  <2>2. DOMAIN w.i = {own} /\ w.i[own] = "pending" /\ DOMAIN w.r = {}
    BY <1>3, <2>1 DEF NoWrites, Those
  <2> HIDE DEF w
  <2>3. inst' = inst /\ record' = record /\ call'[c] = Done
    <3>1. inst' \in [Places -> InstStatus] /\ record' \in [Etags -> RecordStatus]
      BY DEF TypeInv, TypeOK
    <3> QED BY <1>1, <2>1, <2>2, <3>1, WritesAre
  <2> QED BY <1>5, <2>3, FreshCall
<1>8. CASE Mark(c)
  <2> DEFINE w == [NoWrites EXCEPT !.i = Those({At(c)}, "pending")]
  <2>1. Writes(c, w, Done) /\ inst[own] # "active" /\ record[k.etag] # "none"
    BY <1>1, <1>8 DEF Mark, Found
  <2>2. DOMAIN w.i = {own} /\ w.i[own] = "pending" /\ DOMAIN w.r = {}
    BY <1>3 DEF NoWrites, Those
  <2> HIDE DEF w
  <2>3. /\ \A p \in Places : inst'[p] = IF p = own THEN "pending" ELSE inst[p]
        /\ \A e \in Etags : record'[e] = record[e]
        /\ call'[c] = Done
    BY <2>1, <2>2, WritesAre
  <2>4. Sound(inst', record')
    BY <1>1, <1>2, <2>1, <2>3, Pairs DEF Sound
  <2>5. Others'
    BY <1>3, <1>4, <2>3, <2>4, OthersKept, Pairs
  <2> QED BY <1>3, <1>4, <2>3, <2>4, <2>5, FreshCall DEF Fares, Running
<1>9. CASE SaveFiles(c)
  <2>1. UNCHANGED <<inst, record>> /\ k.step = "files" /\ record[k.etag] = "none"
    BY <1>1, <1>9 DEF SaveFiles, Found
  <2>2. CASE Fails(c)
    <3>1. PICK j : Becomes(c, j) /\ j.step \in {"done", "withdraw"} /\ ((j.source = k.source /\ j.etag = k.etag) \/ j.step = "done")
      BY <1>1, <2>2 DEF Fails, Goes, Returns, Done, CallOK, NewCall
    <3> QED BY <1>5, <2>1, <3>1, BecomesMoves
  <2>3. CASE Goes(c, "insert")
    <3>1. call'[c] = [k EXCEPT !.step = "insert"]
      BY <2>3, BecomesMoves DEF Goes
    <3>2. call'[c].step = "insert" /\ call'[c].source = k.source /\ call'[c].etag = k.etag
      BY <1>1, <3>1 DEF CallOK, NewCall
    <3> QED BY <1>5, <2>1, <3>2
  <2> QED BY <1>9, <2>2, <2>3 DEF SaveFiles
<1>10. CASE Insert(c)
  <2> DEFINE new == IF record[k.etag] = "none" THEN {k.etag} ELSE {}
             w == [NoWrites EXCEPT !.r = Those(new, "disabled")]
             j == [k EXCEPT !.step = IF k.uc = "upload" THEN "mark" ELSE "replace", !.required = TRUE]
  <2>1. Writes(c, w, j) /\ record[k.etag] = "none"
    BY <1>1, <1>10 DEF Insert, Found
  <2>2. DOMAIN w.i = {} /\ DOMAIN w.r = {k.etag} /\ w.r[k.etag] = "disabled"
    BY <2>1 DEF NoWrites, Those
  <2>3. j.step \in {"mark", "replace"} /\ j.source = k.source /\ j.etag = k.etag
    BY <1>1 DEF CallOK, NewCall
  <2> HIDE DEF w, j
  <2>4. /\ \A p \in Places : inst'[p] = inst[p]
        /\ \A e \in Etags : record'[e] = IF e = k.etag THEN "disabled" ELSE record[e]
        /\ call'[c] = j
    BY <2>1, <2>2, WritesAre
  <2>5. inst[own] = "none"
    BY <1>1, <1>2, <2>1 DEF Sound
  <2>6. Sound(inst', record')
    BY <1>1, <1>2, <2>1, <2>4, Pairs DEF Sound
  <2>7. Others'
    BY <1>3, <1>4, <2>4, <2>6, OthersKept, Pairs
  <2>8. Found(call[c])' /\ WillDo(call[c])'
    BY <1>2, <1>3, <2>3, <2>4, <2>5 DEF Found, WillDo
  <2> QED BY <1>3, <1>4, <2>6, <2>7, <2>8 DEF Fares
<1>11. CASE Withdraw(c)
  <2> DEFINE pending == {<<System, call[c].etag>>} \cap {p \in Places : inst[p] = "pending"}
             w == [NoWrites EXCEPT !.i = Those(pending, "disabled")]
             j == [k EXCEPT !.step = "unlist", !.gone = {k.etag}]
  <2>1. Writes(c, w, j)
    BY <1>11 DEF Withdraw
  <2>2. DOMAIN w.i = pending /\ DOMAIN w.r = {} /\ \A p \in pending : w.i[p] = "disabled"
    BY DEF NoWrites, Those
  <2>3. j.step = "unlist" /\ j.source = k.source /\ j.etag = k.etag
    BY <1>1 DEF CallOK, NewCall
  <2> HIDE DEF w, j
  <2>4. /\ \A p \in Places : inst'[p] = IF p \in pending THEN "disabled" ELSE inst[p]
        /\ \A e \in Etags : record'[e] = record[e]
        /\ call'[c] = j
    BY <2>1, <2>2, WritesAre
  <2>5. Sound(inst', record')
    BY <1>1, <2>4, Pairs DEF Sound
  <2>6. Others'
    BY <1>3, <1>4, <2>4, <2>5, OthersKept, Pairs
  <2>7. Found(call[c])' /\ WillDo(call[c])'
    BY <2>3, <2>4 DEF Found, WillDo
  <2> QED BY <1>3, <1>4, <2>5, <2>6, <2>7 DEF Fares
<1> QED BY <1>6, <1>7, <1>8, <1>9, <1>10, <1>11

(* Nothing is written by a call that computes a transaction or returns.    *)
LEMMA ComputedFares ==
  ASSUME TypeInv, TypeInv', LoneInv, lone.valid, NEW c \in Calls, Running(c),
         UNCHANGED <<data, lone>>,
         Found(call[c])' /\ WillDo(call[c])',
         lone.uc = "confirm" => IF Running(c)' THEN Confirming(call[c])'
                                ELSE inst[<<lone.source, lone.etag>>] = "active" \/ Same
  PROVE  Fares(c)'
<1>1. Sound(inst', record') /\ Others'
  BY SameFares DEF data
<1> QED BY <1>1 DEF Fares, Same, data

(* What a transaction makes of the state it writes to.                     *)
LEMMA OverIs ==
  ASSUME TypeInv, NEW w
  PROVE  /\ \A p \in Places : Over(w.i, inst)[p] = IF p \in DOMAIN w.i THEN w.i[p] ELSE inst[p]
         /\ \A e \in Etags : Over(w.r, record)[e] = IF e \in DOMAIN w.r THEN w.r[e] ELSE record[e]
         /\ DOMAIN Over(w.i, inst) = Places /\ DOMAIN Over(w.r, record) = Etags
BY DEF Over, TypeInv, TypeOK

LEMMA ActivePlaces ==
  ASSUME NEW s \in Sources, NEW p \in {<<s, x>> : x \in Active(inst, s)}
  PROVE  p \in Places /\ inst[p] = "active" /\ p[1] = s
<1>1. PICK x \in Active(inst, s) : p = <<s, x>>
  OBVIOUS
<1> QED BY <1>1 DEF Active, Places

(* The installations of a source are replaced by one, and the records that *)
(* lose their last reference are disabled.                                 *)
LEMMA ReplacingIsSound ==
  ASSUME TypeInv, Sound(inst, record), NEW w, WritesOK(w), NEW s \in Sources, NEW e \in Etags,
         w.i[<<s, e>>] = "active", <<s, e>> \in DOMAIN w.i, record[e] # "none",
         \A p \in DOMAIN w.i : p # <<s, e>> => w.i[p] = "disabled" /\ inst[p] = "active",
         DOMAIN w.r \subseteq {e} \cup SameVersion(e, Over(w.i, inst)),
         SameVersion(e, Over(w.i, inst)) \subseteq DOMAIN w.r,
         \A x \in DOMAIN w.r : w.r[x] = IF x = e THEN "active" ELSE "disabled",
         e \in DOMAIN w.r \/ record[e] = "active"
  PROVE  Sound(Over(w.i, inst), Over(w.r, record))
<1> DEFINE i == Over(w.i, inst)  r == Over(w.r, record)
<1>1. /\ \A p \in Places : i[p] = IF p \in DOMAIN w.i THEN w.i[p] ELSE inst[p]
      /\ \A x \in Etags : r[x] = IF x \in DOMAIN w.r THEN w.r[x] ELSE record[x]
  BY OverIs
<1>2. r[e] = "active"
  BY <1>1
<1>3. \A x : x \in SameVersion(e, i) <=> x \in Etags /\ x # e /\ record[x] = "active" /\ x \notin Referenced(i)
  BY DEF SameVersion, Unreferenced, Records
<1>4. \A x \in Etags : x # e => r[x] = IF x \in SameVersion(e, i) THEN "disabled" ELSE record[x]
  BY <1>1
<1> HIDE DEF r
<1>5. ASSUME NEW t \in Sources, NEW x \in Etags
      PROVE  (i[<<t, x>>] = "active" => r[x] = "active") /\ (i[<<t, x>>] # "none" => r[x] # "none")
  <2>1. CASE x = e  BY <1>2, <2>1
  <2>2. CASE x # e
    <3>1. <<t, x>> \in Places /\ <<t, x>> # <<s, e>>
      BY <2>2 DEF Places
    <3>2. i[<<t, x>>] = "active" => x \in Referenced(i) /\ inst[<<t, x>>] = "active"
      BY <1>1, <3>1 DEF Referenced
    <3>3. i[<<t, x>>] # "none" => inst[<<t, x>>] # "none"
      BY <1>1, <3>1
    <3> QED BY <1>3, <1>4, <2>2, <3>2, <3>3 DEF Sound
  <2> QED BY <2>1, <2>2
<1>6. ASSUME NEW x \in Etags, r[x] = "active"  PROVE \E t \in Sources : i[<<t, x>>] = "active"
  <2>1. CASE x = e
    BY <1>1, <2>1, Pairs
  <2>2. CASE x # e
    BY <1>3, <1>4, <1>6, <2>2 DEF Referenced
  <2> QED BY <2>1, <2>2
<1> QED BY <1>5, <1>6 DEF Sound, r

LEMMA ReplaceFares ==
  ASSUME TypeInv, TypeInv', LoneInv, lone.valid, NEW c \in Calls, Running(c), Replace(c)
  PROVE  Fares(c)'
<1> DEFINE k == call[c]  e == k.etag
           activate == k.required \/ record[e] = "disabled"
           i == Those({<<k.source, x>> : x \in Active(inst, k.source) \ {e}}, "disabled")
           j == [p \in DOMAIN i \cup {At(c)} |-> IF p = At(c) THEN "active" ELSE i[p]]
           off == SameVersion(e, Over(j, inst))
           on == IF activate /\ record[e] # "none" THEN {e} ELSE {}
           w == [i |-> j, r |-> [x \in on \cup off |-> IF x \in on THEN "active" ELSE "disabled"]]
           next == [k EXCEPT !.required = activate, !.step = "commit", !.tx = w,
                             !.after = IF activate THEN "register" ELSE "unlist"]
<1>1. /\ CallOK(k) /\ Directed(k)
      /\ record \in [Etags -> RecordStatus] /\ inst \in [Places -> InstStatus]
      /\ Sound(inst, record) /\ Found(k) /\ k.uc = lone.uc
  BY Alone
<1>2. k.uc = "install" /\ k.source \in Sources /\ e \in Etags
  BY <1>1 DEF Replace, Directed, StepsOf, CallOK, UseCases
<1>3. record[e] # "none" /\ UNCHANGED <<data, lone>>
  BY <1>1 DEF Replace, Found
<1>4. Returns(c) \/ Becomes(c, next)
  BY DEF Replace, Commits
<1>5. CASE Returns(c)
  <2>1. call'[c] = Done
    BY <1>5, BecomesMoves DEF Returns
  <2>2. Found(call[c])' /\ WillDo(call[c])'
    BY <2>1, FreshCall DEF Found, WillDo
  <2> QED BY <1>1, <1>2, <1>3, <2>2, ComputedFares
<1>6. CASE Becomes(c, next)
  <2>1. /\ next.step = "commit" /\ next.tx = w /\ next.after \in {"register", "unlist"} /\ next.source = k.source
        /\ call'[c] = next
    <3>1. /\ next.step = "commit" /\ next.tx = w /\ next.after \in {"register", "unlist"} /\ next.source = k.source
      <4> HIDE DEF w, activate
      <4> QED BY <1>1 DEF CallOK, NewCall
    <3> HIDE DEF next
    <3> QED BY <1>6, <3>1, BecomesMoves
  <2>2. At(c) = <<k.source, e>>
    BY DEF At
  <2>3. \A p \in DOMAIN i : p \in Places /\ inst[p] = "active" /\ p[1] = k.source /\ i[p] = "disabled"
    BY <1>2, ActivePlaces DEF Those
  <2>4. DOMAIN w.i = DOMAIN i \cup {<<k.source, e>>} /\ DOMAIN w.r = on \cup off
    BY <2>2
  <2>5. WritesOK(w)
    <3>1. CallOK(next)
      BY SMTT(30), <2>1 DEF TypeInv, TypeOK
    <3> QED BY <2>1, <3>1 DEF CallOK
  <2>6. e \notin off
    BY DEF SameVersion, Unreferenced
  <2>7. record[e] \in {"active", "disabled"}
    BY <1>1, <1>2, <1>3 DEF RecordStatus
  <2>8. Sound(Over(w.i, inst), Over(w.r, record))
    <3>1. w.i[<<k.source, e>>] = "active" /\ <<k.source, e>> \in DOMAIN w.i
      BY <2>2
    <3>2. \A p \in DOMAIN w.i : p # <<k.source, e>> => w.i[p] = "disabled" /\ inst[p] = "active"
      BY <2>2, <2>3
    <3>3. DOMAIN w.r \subseteq {e} \cup off /\ off \subseteq DOMAIN w.r
      OBVIOUS
    <3>4. \A x \in DOMAIN w.r : w.r[x] = IF x = e THEN "active" ELSE "disabled"
      BY <2>6
    <3>5. e \in DOMAIN w.r \/ record[e] = "active"
      BY <2>7
    <3>6. off = SameVersion(e, Over(w.i, inst))
      OBVIOUS
    <3> HIDE DEF w, off
    <3> QED BY <1>1, <1>2, <1>3, <2>5, <3>1, <3>2, <3>3, <3>4, <3>5, <3>6, ReplacingIsSound
  <2>9. \A p \in DOMAIN w.i : p[1] = k.source
    <3>1. <<k.source, e>>[1] = k.source
      BY <1>2, Pairs
    <3> HIDE DEF w, i
    <3> QED BY <2>3, <2>4, <3>1
  <2> HIDE DEF w, next
  <2>10. Found(call[c])' /\ WillDo(call[c])'
    BY <1>3, <2>1, <2>8, <2>9 DEF Found, WillDo, data
  <2> QED BY <1>1, <1>2, <1>3, <2>10, ComputedFares
<1> QED BY <1>4, <1>5, <1>6

LEMMA ConfirmPluginFares ==
  ASSUME TypeInv, TypeInv', LoneInv, lone.valid, NEW c \in Calls, Running(c), ConfirmPlugin(c)
  PROVE  Fares(c)'
<1> DEFINE k == call[c]  e == k.etag
           old == Active(inst, k.source)
           i == [p \in {At(c)} \cup {<<k.source, x>> : x \in old} |-> IF p = At(c) THEN "active" ELSE "disabled"]
           off == SameVersion(e, Over(i, inst))
           required == e \notin Referenced(inst) /\ record[e] # "active"
           w == [i |-> i, r |-> [x \in off \cup ({e} \ Records("active")) |->
                                   IF x = e THEN "active" ELSE "disabled"]]
           next == [k EXCEPT !.old = old, !.required = required, !.step = "commit", !.tx = w,
                             !.after = IF required THEN "register" ELSE "unlist"]
           own == <<k.source, e>>
<1>1. /\ CallOK(k) /\ Directed(k)
      /\ record \in [Etags -> RecordStatus] /\ inst \in [Places -> InstStatus]
      /\ Sound(inst, record) /\ k.uc = lone.uc
      /\ lone.uc = "confirm" => Confirming(k)
      /\ lone.uc # "boot" => k.source = lone.source /\ k.etag = lone.etag
  BY Alone
<1>2. k.uc = "confirm" /\ k.source \in Sources /\ e \in Etags /\ k.step = "confirm"
  BY <1>1 DEF ConfirmPlugin, Directed, StepsOf, CallOK, UseCases
<1>3. UNCHANGED <<data, lone>> /\ Same
  BY <1>1, <1>2 DEF ConfirmPlugin, Confirming
<1>4. /\ Returns(c) \/ Becomes(c, next)
      /\ inst[At(c)] # "pending" \/ record[e] = "none" => Returns(c)
  <2>1. inst[At(c)] # "pending" \/ record[e] = "none" => Returns(c)
    BY DEF ConfirmPlugin
  <2>2. Returns(c) \/ Becomes(c, next)
    BY DEF ConfirmPlugin, Commits
  <2> QED BY <2>1, <2>2
<1>5. CASE Returns(c)
  <2>1. call'[c] = Done
    BY <1>5, BecomesMoves DEF Returns
  <2>2. Found(call[c])' /\ WillDo(call[c])' /\ ~Running(c)'
    BY <2>1, FreshCall DEF Found, WillDo, Running
  <2> QED BY <1>3, <2>2, ComputedFares
<1>6. CASE ~Returns(c)
  <2>1. Becomes(c, next) /\ inst[own] = "pending" /\ record[e] # "none"
    BY <1>4, <1>6 DEF At
  <2>2. /\ next.step = "commit" /\ next.tx = w /\ next.after = IF required THEN "register" ELSE "unlist"
        /\ next.source = k.source /\ next.etag = e /\ next.old = old
        /\ call'[c] = next
    BY <1>1, <2>1, BecomesMoves DEF CallOK, NewCall
  <2>3. At(c) = own /\ own \in Places
    BY <1>2 DEF At, Places
  <2>4. \A p : p \in {<<k.source, x>> : x \in old} => p \in Places /\ inst[p] = "active" /\ p[1] = k.source
    BY <1>2, ActivePlaces
  <2>5. DOMAIN w.i = {own} \cup {<<k.source, x>> : x \in old} /\ DOMAIN w.r = off \cup ({e} \ Records("active"))
    BY <2>3
  <2>6. WritesOK(w)
    <3>1. CallOK(next)
      BY <2>2 DEF TypeInv, TypeOK
    <3> QED BY <2>2, <3>1 DEF CallOK
  <2>7. \A p \in DOMAIN w.i : w.i[p] = IF p = own THEN "active" ELSE "disabled"
    BY <2>3
  <2>8. Sound(Over(w.i, inst), Over(w.r, record))
    <3>1. w.i[own] = "active" /\ own \in DOMAIN w.i
      BY <2>3
    <3>2. \A p \in DOMAIN w.i : p # own => w.i[p] = "disabled" /\ inst[p] = "active"
      BY <2>4, <2>5, <2>7
    <3>3. DOMAIN w.r \subseteq {e} \cup off /\ off \subseteq DOMAIN w.r
      OBVIOUS
    <3>4. \A x \in DOMAIN w.r : w.r[x] = IF x = e THEN "active" ELSE "disabled"
      OBVIOUS
    <3>5. e \in DOMAIN w.r \/ record[e] = "active"
      BY <1>2 DEF Records
    <3>6. off = SameVersion(e, Over(w.i, inst))
      OBVIOUS
    <3> HIDE DEF w, off
    <3> QED BY <1>1, <1>2, <2>1, <2>6, <3>1, <3>2, <3>3, <3>4, <3>5, <3>6, ReplacingIsSound
  <2>9. \A p \in DOMAIN w.i : p[1] = k.source
    <3>1. <<k.source, e>>[1] = k.source
      BY <1>2, Pairs
    <3> HIDE DEF w, i
    <3> QED BY <2>4, <2>5, <3>1
  <2>10. /\ \A p \in Places : Over(w.i, inst)[p] = IF p \in DOMAIN w.i THEN w.i[p] ELSE inst[p]
         /\ \A x \in Etags : Over(w.r, record)[x] = IF x \in DOMAIN w.r THEN w.r[x] ELSE record[x]
    BY OverIs
  <2>11. required => Undoable(next, Over(w.i, inst), Over(w.r, record))
    <3> SUFFICES ASSUME required PROVE Undoable(next, Over(w.i, inst), Over(w.r, record))
      OBVIOUS
    <3>1. lone.inst = inst /\ lone.record = record
      BY <1>3 DEF Same
    <3>2. record[e] = "disabled" /\ e \notin Referenced(inst)
      BY <1>1, <1>2, <2>1 DEF RecordStatus
    <3>3. Over(w.i, inst)[own] = "active" /\ Over(w.r, record)[e] = "active"
      BY <1>2, <2>3, <2>5, <2>7, <2>10, <3>2 DEF Records
    <3>4. \A p \in {<<k.source, x>> : x \in old} : Over(w.i, inst)[p] = "disabled" /\ inst[p] = "active"
      BY <2>1, <2>4, <2>5, <2>7, <2>10
    <3>5. \A p \in Places \ {<<k.source, x>> : x \in old} : p # own => Over(w.i, inst)[p] = inst[p]
      BY <2>5, <2>10
    <3>6. ASSUME NEW x \in Etags \ {e}  PROVE Over(w.r, record)[x] = record[x] \/ x \in old
      <4>1. x \in off => record[x] = "active" /\ x \notin Referenced(Over(w.i, inst))
        BY DEF SameVersion, Unreferenced, Records
      <4>2. record[x] = "active" => \E t \in Sources : inst[<<t, x>>] = "active"
        BY <1>1 DEF Sound
      <4>3. ASSUME NEW t \in Sources, inst[<<t, x>>] = "active", x \notin old, Over(w.i, inst)[<<t, x>>] # "active"
            PROVE  FALSE
        <5>1. <<t, x>> \in Places /\ <<t, x>> # own
          BY Pairs
        <5>2. <<t, x>> \in {<<k.source, y>> : y \in old}
          BY <3>5, <4>3, <5>1
        <5> QED BY <4>3, <5>2
      <4> QED BY <2>5, <2>10, <4>1, <4>2, <4>3 DEF Referenced
    <3>7. ASSUME NEW x \in old  PROVE record[x] = "active" /\ Over(w.r, record)[x] # "none"
      <4>1. x \in Etags /\ record[x] = "active"
        BY <1>1, <1>2 DEF Active, Sound
      <4> QED BY <2>10, <4>1
    <3> HIDE DEF w, next, old
    <3> QED BY <2>1, <2>2, <3>1, <3>2, <3>3, <3>4, <3>5, <3>6, <3>7 DEF Undoable
  <2>12. Over(w.i, inst)[own] = "active"
    BY <2>3, <2>5, <2>7, <2>10
  <2> HIDE DEF w, next, required, old
  <2>13. Found(call[c])' /\ WillDo(call[c])'
    BY <1>3, <2>2, <2>8, <2>9 DEF Found, WillDo, data
  <2>14. Confirming(call[c])'
    BY <1>3, <2>2, <2>11, <2>12 DEF Confirming, Same, Undoable, data
  <2>15. Running(c)'
    BY <2>2 DEF Running
  <2> QED BY <1>3, <2>13, <2>14, <2>15, ComputedFares
<1> QED BY <1>5, <1>6

(* A rollback restores what the confirmation found.                        *)
LEMMA RollbackFares ==
  ASSUME TypeInv, TypeInv', LoneInv, lone.valid, NEW c \in Calls, Running(c), Rollback(c)
  PROVE  Fares(c)'
<1> DEFINE k == call[c]  e == k.etag
           olds == {<<k.source, x>> : x \in k.old}
           back == olds \cap {p \in Places : inst[p] # "none"}
           mine == {At(c)} \cap {p \in Places : inst[p] = "active"}
           i == [p \in mine \cup back |-> IF p \in back THEN "active" ELSE "pending"]
           off == Unreferenced({e}, Over(i, inst)) \ Records("none")
           on == k.old \ Records("none")
           w == [i |-> i, r |-> [x \in off \cup on |-> IF x \in off THEN "disabled" ELSE "active"]]
           next == [k EXCEPT !.step = "commit", !.tx = w, !.after = "done"]
           own == <<k.source, e>>
<1>1. /\ CallOK(k) /\ Directed(k)
      /\ record \in [Etags -> RecordStatus] /\ inst \in [Places -> InstStatus]
      /\ lone.record \in [Etags -> RecordStatus] /\ lone.inst \in [Places -> InstStatus]
      /\ k.uc = lone.uc /\ Sound(lone.inst, lone.record)
      /\ lone.uc = "confirm" => Confirming(k)
      /\ lone.uc # "boot" => k.source = lone.source /\ k.etag = lone.etag
  BY Alone
<1>2. k.uc = "confirm" /\ k.source \in Sources /\ e \in Etags /\ k.step = "rollback" /\ k.old \subseteq Etags
  BY <1>1 DEF Rollback, Directed, StepsOf, CallOK, UseCases
<1>3. UNCHANGED <<data, lone>> /\ Undoable(k, inst, record) /\ running = lone.running
  BY <1>1, <1>2 DEF Rollback, Confirming
<1>4. /\ next.step = "commit" /\ next.tx = w /\ next.after = "done"
      /\ next.source = k.source /\ next.etag = e /\ next.old = k.old
      /\ call'[c] = next
  <2>1. Becomes(c, next)
    BY DEF Rollback, Commits
  <2> QED BY <1>1, <2>1, BecomesMoves DEF CallOK, NewCall
<1>5. At(c) = own /\ own \in Places
  BY <1>2 DEF At, Places
<1>6. /\ inst[own] = "active" /\ lone.inst[own] = "pending"
      /\ \A p \in olds : inst[p] = "disabled" /\ lone.inst[p] = "active"
      /\ \A p \in Places \ olds : p # own => inst[p] = lone.inst[p]
      /\ record[e] = "active" /\ lone.record[e] = "disabled" /\ e \notin Referenced(lone.inst)
      /\ \A x \in Etags \ {e} : record[x] = lone.record[x] \/ x \in k.old
      /\ \A x \in k.old : lone.record[x] = "active" /\ record[x] # "none"
  BY <1>3 DEF Undoable
<1>7. \A p \in olds : p \in Places /\ p[1] = k.source
  <2>1. ASSUME NEW p \in olds  PROVE p \in Places /\ p[1] = k.source
    <3>1. PICK x \in k.old : p = <<k.source, x>>
      BY <2>1
    <3> QED BY <1>2, <3>1 DEF Places
  <2> QED BY <2>1
<1> HIDE DEF olds
<1>8. back = olds /\ mine = {own}
  BY <1>5, <1>6, <1>7
<1>9. DOMAIN w.i = {own} \cup olds /\ \A p \in DOMAIN w.i : w.i[p] = IF p = own THEN "pending" ELSE "active"
  BY <1>6, <1>8
<1>10. Over(w.i, inst) = lone.inst
  <2>1. \A p \in Places : Over(w.i, inst)[p] = IF p \in DOMAIN w.i THEN w.i[p] ELSE inst[p]
    BY OverIs
  <2>2. DOMAIN Over(w.i, inst) = Places
    BY OverIs
  <2>3. \A p \in Places : Over(w.i, inst)[p] = lone.inst[p]
    <3> HIDE DEF w
    <3> QED BY <1>5, <1>6, <1>9, <2>1
  <2>4. Over(w.i, inst) = [p \in Places |-> Over(w.i, inst)[p]]
    <3> HIDE DEF w
    <3> QED BY <2>2 DEF Over
  <2> HIDE DEF w
  <2> QED BY <1>1, <2>3, <2>4
<1>11. off = {e} /\ on = k.old /\ e \notin k.old
  <2>1. Over(i, inst) = lone.inst
    BY <1>10
  <2>2. off = {e}
    <3> HIDE DEF i
    <3> QED BY <1>2, <1>6, <2>1 DEF Unreferenced, Records
  <2>3. e \notin k.old
    <3>1. lone.record[e] # "active"
      BY <1>6
    <3> QED BY <1>6, <3>1
  <2> QED BY <1>2, <1>6, <2>2, <2>3 DEF Records
<1>12. DOMAIN w.r = {e} \cup k.old /\ \A x \in DOMAIN w.r : w.r[x] = IF x = e THEN "disabled" ELSE "active"
  <2> HIDE DEF i, off, on
  <2> QED BY <1>11
<1> HIDE DEF w, next
<1>13. Over(w.r, record) = lone.record
  <2>1. \A x \in Etags : Over(w.r, record)[x] = IF x \in DOMAIN w.r THEN w.r[x] ELSE record[x]
    BY OverIs
  <2>2. DOMAIN Over(w.r, record) = Etags
    BY OverIs
  <2>3. \A x \in Etags : Over(w.r, record)[x] = lone.record[x]
    BY <1>6, <1>12, <2>1
  <2>4. Over(w.r, record) = [x \in Etags |-> Over(w.r, record)[x]]
    BY <2>2 DEF Over
  <2> QED BY <1>1, <2>3, <2>4
<1>14. \A p \in DOMAIN w.i : p[1] = k.source
  BY <1>2, <1>7, <1>9, Pairs
<1>15. Found(call[c])' /\ WillDo(call[c])'
  BY <1>1, <1>3, <1>4, <1>10, <1>13, <1>14 DEF Found, WillDo, data
<1>16. Confirming(call[c])' /\ Running(c)'
  BY <1>3, <1>4, <1>6, <1>10, <1>13 DEF Confirming, Running, data
<1> QED BY <1>3, <1>15, <1>16, ComputedFares

LEMMA DeleteInstallationFares ==
  ASSUME TypeInv, TypeInv', LoneInv, lone.valid, NEW c \in Calls, Running(c), DeleteInstallation(c)
  PROVE  Fares(c)'
<1> DEFINE k == call[c]
           own == Active(inst, k.source)
           i == Those({<<k.source, x>> : x \in own}, "disabled")
           off == Unreferenced(own, Over(i, inst))
           after == IF own \cap Records("none") = {} THEN "stop" ELSE "done"
           w == [i |-> i, r |-> Those(off \ Records("none"), "disabled")]
           next == [k EXCEPT !.gone = off, !.step = "commit", !.tx = w, !.after = after]
<1>1. /\ CallOK(k) /\ Directed(k)
      /\ record \in [Etags -> RecordStatus] /\ inst \in [Places -> InstStatus]
      /\ Sound(inst, record) /\ k.uc = lone.uc
  BY Alone
<1>2. k.uc = "delete" /\ k.source \in Sources
  BY <1>1 DEF DeleteInstallation, Directed, StepsOf, CallOK, UseCases
<1>3. UNCHANGED <<data, lone>>
  BY DEF DeleteInstallation
<1>4. Returns(c) \/ Becomes(c, next)
  BY DEF DeleteInstallation, Commits
<1>5. CASE Returns(c)
  <2>1. call'[c] = Done
    BY <1>5, BecomesMoves DEF Returns
  <2>2. Found(call[c])' /\ WillDo(call[c])'
    BY <2>1, FreshCall DEF Found, WillDo
  <2> QED BY <1>1, <1>2, <1>3, <2>2, ComputedFares
<1>6. CASE Becomes(c, next)
  <2>1. /\ next.step = "commit" /\ next.tx = w /\ next.gone = off /\ next.source = k.source
        /\ call'[c] = next
    BY <1>1, <1>6, BecomesMoves DEF CallOK, NewCall
  <2>2. \A p \in DOMAIN w.i : p \in Places /\ inst[p] = "active" /\ p[1] = k.source /\ w.i[p] = "disabled"
    BY <1>2, ActivePlaces DEF Those
  <2>3. \A x \in own : <<k.source, x>> \in DOMAIN w.i
    BY DEF Those
  <2>4. DOMAIN w.r = off \ Records("none") /\ \A x \in DOMAIN w.r : w.r[x] = "disabled"
    BY DEF Those
  <2>5. \A x : x \in off <=> x \in own /\ x \notin Referenced(Over(w.i, inst))
    BY DEF Unreferenced
  <2>6. /\ \A p \in Places : Over(w.i, inst)[p] = IF p \in DOMAIN w.i THEN w.i[p] ELSE inst[p]
        /\ \A x \in Etags : Over(w.r, record)[x] = IF x \in DOMAIN w.r THEN w.r[x] ELSE record[x]
    BY OverIs
  <2>7. \A x : x \in own <=> x \in Etags /\ inst[<<k.source, x>>] = "active"
    BY DEF Active
  <2> HIDE DEF own, off, w, next
  <2>8. Sound(Over(w.i, inst), Over(w.r, record))
    <3>1. ASSUME NEW t \in Sources, NEW x \in Etags
          PROVE  /\ Over(w.i, inst)[<<t, x>>] = "active" => Over(w.r, record)[x] = "active"
                 /\ Over(w.i, inst)[<<t, x>>] # "none" => Over(w.r, record)[x] # "none"
      <4>1. <<t, x>> \in Places
        BY Pairs
      <4>2. Over(w.i, inst)[<<t, x>>] = "active" => inst[<<t, x>>] = "active" /\ x \in Referenced(Over(w.i, inst))
        BY <2>2, <2>6, <4>1 DEF Referenced
      <4>3. Over(w.i, inst)[<<t, x>>] # "none" => inst[<<t, x>>] # "none"
        BY <2>2, <2>6, <4>1
      <4> QED BY <1>1, <2>4, <2>5, <2>6, <4>2, <4>3 DEF Sound
    <3>2. ASSUME NEW x \in Etags, Over(w.r, record)[x] = "active"
          PROVE  \E t \in Sources : Over(w.i, inst)[<<t, x>>] = "active"
      <4>1. record[x] = "active" /\ x \notin DOMAIN w.r
        BY <2>4, <2>6, <3>2
      <4>2. x \notin off
        BY <2>4, <4>1 DEF Records
      <4>3. PICK t \in Sources : inst[<<t, x>>] = "active"
        BY <1>1, <4>1 DEF Sound
      <4>4. CASE x \in own
        BY <2>5, <4>2, <4>4 DEF Referenced
      <4>5. CASE x \notin own
        <5>1. t # k.source /\ <<t, x>> \in Places /\ <<t, x>>[1] = t
          BY <2>7, <4>3, <4>5, Pairs
        <5> QED BY <2>2, <2>6, <4>3, <5>1
      <4> QED BY <4>4, <4>5
    <3> QED BY <3>1, <3>2 DEF Sound
  <2>9. off \cap Referenced(Over(w.i, inst)) = {}
    BY <2>5
  <2>10. Found(call[c])' /\ WillDo(call[c])'
    BY <1>3, <2>1, <2>2, <2>8, <2>9 DEF Found, WillDo, data
  <2> QED BY <1>1, <1>2, <1>3, <2>10, ComputedFares
<1> QED BY <1>4, <1>5, <1>6

LEMMA CommitFares ==
  ASSUME TypeInv, TypeInv', LoneInv, lone.valid, NEW c \in Calls, Running(c), Commit(c)
  PROVE  Fares(c)'
<1> DEFINE k == call[c]  own == <<k.source, k.etag>>
           next == IF k.after = "done" THEN Done ELSE [k EXCEPT !.step = k.after, !.tx = NoWrites, !.after = "done"]
<1>1. /\ CallOK(k) /\ Directed(k)
      /\ record \in [Etags -> RecordStatus] /\ inst \in [Places -> InstStatus]
      /\ k.uc = lone.uc /\ WillDo(k) /\ k.step = "commit"
      /\ lone.uc = "confirm" => Confirming(k)
      /\ lone.uc # "boot" => k.source = lone.source /\ k.etag = lone.etag
  BY Alone DEF Commit
<1>2. k.uc \in {"install", "confirm", "delete"} /\ k.source = lone.source /\ UNCHANGED <<lone, running>>
  BY <1>1 DEF Commit, Directed, StepsOf, CallOK, UseCases
<1>3. CASE k.conflict \/ Duplicate(Over(k.tx.i, inst))
  <2>1. call'[c] = Done /\ UNCHANGED <<data, lone>>
    BY <1>3, BecomesMoves DEF Commit, Returns, data
  <2>2. Found(call[c])' /\ WillDo(call[c])' /\ ~Running(c)'
    BY <2>1, FreshCall DEF Found, WillDo, Running
  <2>3. lone.uc = "confirm" => inst[<<lone.source, lone.etag>>] = "active" \/ Same
    BY <1>1 DEF Confirming
  <2> QED BY <2>1, <2>2, <2>3, ComputedFares
<1>4. CASE ~k.conflict /\ ~Duplicate(Over(k.tx.i, inst))
  <2>1. Writes(c, k.tx, next)
    BY <1>4 DEF Commit
  <2>2. /\ call'[c] = next
        /\ \A p \in Places : inst'[p] = IF p \in DOMAIN k.tx.i THEN k.tx.i[p] ELSE inst[p]
        /\ inst' = Over(k.tx.i, inst) /\ record' = Over(k.tx.r, record)
    <3> HIDE DEF next
    <3> QED BY <2>1, WritesAre
  <2>3. IF k.after = "done" THEN next.step = "done" /\ next = Done
        ELSE next.step = k.after /\ next.gone = k.gone /\ next.old = k.old /\ next.source = k.source /\ next.etag = k.etag
    BY <1>1, FreshCall DEF CallOK, NewCall
  <2> HIDE DEF next
  <2>4. Sound(inst', record')
    BY <1>1, <2>2 DEF WillDo
  <2>5. Others'
    <3>1. \A s \in Sources \ {lone.source}, e \in Etags : inst'[<<s, e>>] = inst[<<s, e>>]
      <4>1. \A p \in DOMAIN k.tx.i : p[1] = lone.source
        BY <1>1, <1>2 DEF WillDo
      <4> QED BY <2>2, <4>1, Pairs
    <3> QED BY <1>2, <2>4, <3>1, OthersKept
  <2>6. k.after \in {"register", "unlist", "stop", "done"}
    BY <1>1, <1>2 DEF Directed, AfterOf
  <2>7. k.after = "stop" => k.gone \cap Referenced(Over(k.tx.i, inst)) = {}
    BY <1>1 DEF WillDo
  <2>8. Found(call[c])' /\ WillDo(call[c])'
    BY <2>2, <2>3, <2>6, <2>7 DEF Found, WillDo
  <2>9. ASSUME lone.uc = "confirm"
        PROVE  IF k.after = "done" THEN Same'
               ELSE k.after \in {"register", "unlist"} /\ Confirming(call[c])'
    <3>1. Confirming(k) /\ (k.after = "done" \/ k.after \in {"register", "unlist"})
      BY <1>1, <2>9 DEF Directed, AfterOf
    <3>2. CASE k.after = "done"
      BY <1>1, <1>2, <2>2, <3>1, <3>2 DEF Confirming, Same
    <3>3. CASE k.after # "done"
      <4>1. /\ Same /\ Over(k.tx.i, inst)[own] = "active"
            /\ k.after = "register" => Undoable(k, Over(k.tx.i, inst), Over(k.tx.r, record))
        BY <1>1, <3>1, <3>3 DEF Confirming
      <4>2. k.after = "register" => Undoable(next, inst', record')
        BY <2>2, <2>3, <3>3, <4>1 DEF Undoable
      <4>3. /\ call'[c].step = k.after /\ k.after \in {"register", "unlist"}
            /\ <<call'[c].source, call'[c].etag>> = own /\ inst'[own] = "active" /\ running' = lone.running
            /\ lone' = lone
        BY <1>2, <2>2, <2>3, <3>1, <3>3, <4>1 DEF Same
      <4>4. k.after = "register" => Undoable(call[c], inst, record)'
        BY <2>2, <4>2, <4>3 DEF Undoable
      <4>5. Confirming(call[c])'
        BY <4>3, <4>4 DEF Confirming
      <4> QED BY <4>3, <4>5
    <3> QED BY <3>2, <3>3
  <2>10. Running(c)' <=> k.after # "done"
    BY <2>2, <2>3, <2>6 DEF Running
  <2> QED BY <1>2, <2>4, <2>5, <2>8, <2>9, <2>10 DEF Fares
<1> QED BY <1>3, <1>4

(* Services stop and records are disabled that no source refers to.        *)
LEMMA RuntimeStepsFare ==
  ASSUME TypeInv, TypeInv', LoneInv, lone.valid, NEW c \in Calls, Running(c),
         Register(c) \/ Unlist(c) \/ Disable(c) \/ Stop(c) \/ RegisterActive(c)
  PROVE  Fares(c)'
<1> DEFINE k == call[c]  own == <<k.source, k.etag>>
<1>1. /\ CallOK(k) /\ Directed(k)
      /\ record \in [Etags -> RecordStatus] /\ inst \in [Places -> InstStatus]
      /\ Sound(inst, record) /\ Found(k) /\ k.uc = lone.uc
      /\ lone.uc = "confirm" => Confirming(k)
      /\ lone.uc # "boot" => k.source = lone.source /\ k.etag = lone.etag
  BY Alone
<1>2. UNCHANGED <<lone, inst>>
  <2>1. CASE Disable(c)
    <3> DEFINE w == [NoWrites EXCEPT !.r = Those(k.gone \ Records("none"), "disabled")]
    <3>1. PICK j : Writes(c, w, j)
      BY <2>1 DEF Disable
    <3>2. DOMAIN w.i = {}
      BY DEF NoWrites
    <3> HIDE DEF w
    <3>3. \A p \in Places : inst'[p] = inst[p]
      BY <3>1, <3>2, WritesAre
    <3>4. inst' \in [Places -> InstStatus] /\ UNCHANGED lone
      BY <2>1 DEF TypeInv, TypeOK, Disable
    <3> QED BY <1>1, <3>3, <3>4
  <2> QED BY <2>1 DEF Register, Unlist, Stop, RegisterActive, data
<1>3. call'[c] = Done => Found(call[c])' /\ WillDo(call[c])' /\ ~Running(c)'
  BY FreshCall DEF Found, WillDo, Running
<1>4. k.step \in {"register", "unlist", "disable", "stop"} /\ lone.uc = "confirm" =>
        inst[own] = "active" /\ k.source = lone.source /\ k.etag = lone.etag
  BY <1>1 DEF Confirming, Undoable
<1>5. CASE Register(c)
  <2>1. k.step = "register" /\ UNCHANGED record /\ running \subseteq running'
    BY <1>5 DEF Register
  <2>2. Sound(inst', record') /\ Others'
    BY <1>2, <2>1, SameFares
  <2>3. CASE Goes(c, "unlist")
    <3>1. call'[c] = [k EXCEPT !.step = "unlist"]
      BY <2>3, BecomesMoves DEF Goes
    <3>2. call'[c].step = "unlist" /\ call'[c].source = k.source /\ call'[c].etag = k.etag
      BY <1>1, <3>1 DEF CallOK, NewCall
    <3> QED BY <1>2, <1>4, <2>1, <2>2, <3>2 DEF Fares, Found, WillDo, Confirming, Running
  <2>4. CASE Goes(c, "rollback") /\ k.uc = "confirm" /\ UNCHANGED running
    <3>1. call'[c] = [k EXCEPT !.step = "rollback"]
      BY <2>4, BecomesMoves DEF Goes
    <3>2. /\ call'[c].step = "rollback" /\ call'[c].source = k.source /\ call'[c].etag = k.etag
          /\ call'[c].old = k.old
      BY <1>1, <3>1 DEF CallOK, NewCall
    <3>3. Undoable(k, inst, record) /\ running = lone.running
      BY <1>1, <2>1, <2>4 DEF Confirming
    <3>4. Undoable(call[c], inst, record)'
      BY <1>2, <2>1, <3>2, <3>3 DEF Undoable
    <3>5. Found(call[c])' /\ WillDo(call[c])' /\ Running(c)' /\ Confirming(call[c])'
      BY <1>2, <2>4, <3>2, <3>3, <3>4 DEF Found, WillDo, Running, Confirming
    <3> QED BY <2>2, <3>5 DEF Fares
  <2>5. CASE Returns(c) /\ k.uc # "confirm"
    <3>1. call'[c] = Done
      BY <2>5, BecomesMoves DEF Returns
    <3> QED BY <1>1, <1>2, <1>3, <2>2, <2>5, <3>1 DEF Fares
  <2> QED BY <1>5, <2>3, <2>4, <2>5 DEF Register
<1>6. CASE Unlist(c)
  <2>1. k.step = "unlist" /\ UNCHANGED <<data, lone>>
    BY <1>6 DEF Unlist
  <2>2. CASE Returns(c)
    <3>1. call'[c] = Done
      BY <2>2, BecomesMoves DEF Returns
    <3> QED BY <1>3, <1>4, <2>1, <3>1, ComputedFares
  <2>3. CASE Becomes(c, [k EXCEPT !.step = "disable", !.gone = Unreferenced(k.gone, inst)])
    <3>1. call'[c] = [k EXCEPT !.step = "disable", !.gone = Unreferenced(k.gone, inst)]
      BY <2>3, BecomesMoves
    <3>2. /\ call'[c].step = "disable" /\ call'[c].source = k.source /\ call'[c].etag = k.etag
          /\ call'[c].gone = Unreferenced(k.gone, inst)
      BY <1>1, <3>1 DEF CallOK, NewCall
    <3>3. call'[c].gone \cap Referenced(inst)' = {}
      BY <1>2, <3>2 DEF Unreferenced, Referenced
    <3>4. Found(call[c])' /\ WillDo(call[c])' /\ Running(c)'
      BY <3>2, <3>3 DEF Found, WillDo, Running
    <3>5. lone.uc = "confirm" => Confirming(call[c])'
      BY <1>2, <1>4, <2>1, <3>2 DEF Confirming
    <3> QED BY <2>1, <3>4, <3>5, ComputedFares
  <2> QED BY <1>6, <2>2, <2>3 DEF Unlist
<1>7. CASE Disable(c)
  <2> DEFINE w == [NoWrites EXCEPT !.r = Those(k.gone \ Records("none"), "disabled")]
             j == IF k.uc = "upload" THEN Done ELSE [k EXCEPT !.step = "stop"]
  <2>1. Writes(c, w, j) /\ k.step = "disable" /\ UNCHANGED running
    BY <1>7 DEF Disable
  <2>2. DOMAIN w.r = k.gone \ Records("none") /\ \A x \in DOMAIN w.r : w.r[x] = "disabled"
    BY DEF NoWrites, Those
  <2>3. IF k.uc = "upload" THEN j = Done
        ELSE j.step = "stop" /\ j.source = k.source /\ j.etag = k.etag /\ j.gone = k.gone
    BY <1>1 DEF CallOK, NewCall
  <2> HIDE DEF w, j
  <2>4. call'[c] = j /\ \A x \in Etags : record'[x] = IF x \in DOMAIN w.r THEN w.r[x] ELSE record[x]
    BY <2>1, WritesAre
  <2>5. \A x \in k.gone : x \notin Referenced(inst)
    BY <1>1, <2>1 DEF Found
  <2>6. \A x \in Etags : record'[x] = IF x \in k.gone /\ record[x] # "none" THEN "disabled" ELSE record[x]
    BY <2>2, <2>4 DEF Records
  <2>7. Sound(inst', record')
    BY <1>1, <1>2, <2>5, <2>6 DEF Sound, Referenced
  <2>8. Others'
    BY <1>2, <2>1, <2>7, OthersKept
  <2>9. CASE k.uc = "upload"
    BY <1>1, <1>2, <1>3, <2>3, <2>4, <2>7, <2>8, <2>9 DEF Fares
  <2>10. CASE k.uc # "upload"
    <3>1. call'[c].gone \cap Referenced(inst)' = {}
      BY <1>2, <2>3, <2>4, <2>5, <2>10 DEF Referenced
    <3>2. Found(call[c])' /\ WillDo(call[c])' /\ Running(c)'
      BY <2>3, <2>4, <2>10, <3>1 DEF Found, WillDo, Running
    <3>3. lone.uc = "confirm" => Confirming(call[c])'
      BY <1>2, <1>4, <2>1, <2>3, <2>4, <2>10 DEF Confirming
    <3> QED BY <1>2, <2>7, <2>8, <3>2, <3>3 DEF Fares
  <2> QED BY <2>9, <2>10
<1>8. CASE Stop(c)
  <2>1. k.step = "stop" /\ call'[c] = Done /\ running \ k.gone \subseteq running' /\ UNCHANGED record
    BY <1>8, BecomesMoves DEF Stop, Returns
  <2>2. k.gone \cap Referenced(inst) = {}
    BY <1>1, <2>1 DEF Found
  <2>3. Sound(inst', record') /\ Others'
    BY <1>2, <2>1, <2>2, SameFares
  <2> QED BY <1>2, <1>3, <1>4, <2>1, <2>3 DEF Fares
<1>9. CASE RegisterActive(c)
  <2>1. k.uc = "boot" /\ k.step = "boot" /\ UNCHANGED record
    BY <1>1, <1>9 DEF RegisterActive, Directed, StepsOf, CallOK, UseCases
  <2>2. Sound(inst', record') /\ Others'
    BY <1>1, <1>2, <2>1, SameFares
  <2>3. call'[c] = Done \/ call'[c].step = "boot"
    <3>1. CASE Returns(c)
      BY <3>1, BecomesMoves DEF Returns
    <3>2. CASE \E e \in k.gone : Becomes(c, [k EXCEPT !.gone = @ \ {e}])
      BY <1>1, <2>1, <3>2, BecomesMoves DEF CallOK, NewCall
    <3> QED BY <1>9, <3>1, <3>2 DEF RegisterActive
  <2>4. Found(call[c])' /\ WillDo(call[c])'
    BY <1>3, <2>3 DEF Found, WillDo
  <2> QED BY <1>1, <1>2, <2>1, <2>2, <2>4 DEF Fares
<1> QED BY <1>5, <1>6, <1>7, <1>8, <1>9

(* A prune removes what is not active.                                     *)
LEMMA PruneStepsFare ==
  ASSUME TypeInv, TypeInv', LoneInv, lone.valid, NEW c \in Calls, Running(c),
         Spare(c) \/ Wipe(c) \/ Forget(c) \/ Erase(c)
  PROVE  Fares(c)'
<1> DEFINE k == call[c]
<1>1. /\ CallOK(k) /\ Directed(k) /\ k.gone \subseteq Etags
      /\ record \in [Etags -> RecordStatus] /\ inst \in [Places -> InstStatus]
      /\ Sound(inst, record) /\ Found(k) /\ k.uc = lone.uc
  BY Alone DEF CallOK
<1>2. lone.uc = "prune" /\ UNCHANGED <<lone, running>>
  BY <1>1 DEF Spare, Wipe, Forget, Erase, Directed, StepsOf, CallOK, UseCases, data
<1>3. ASSUME NEW j, call'[c] = j, Sound(inst', record'), Others',
             j.step \in {"wipe", "erase", "done"},
             j.step = "wipe" => \A x \in j.gone, s \in Sources : inst'[<<s, x>>] # "active",
             j.step = "erase" => \A x \in j.gone, s \in Sources : inst'[<<s, x>>] = "none"
      PROVE  Fares(c)'
  <2>1. Found(call[c])' /\ WillDo(call[c])'
    BY <1>3 DEF Found, WillDo
  <2> QED BY <1>2, <1>3, <2>1 DEF Fares
<1>4. CASE Spare(c)
  <2> DEFINE gone == {e \in k.gone : \A s \in Sources : inst[<<s, e>>] # "pending"}
             j == [k EXCEPT !.step = "wipe", !.gone = gone, !.old = gone]
  <2>1. call'[c] = j /\ UNCHANGED <<inst, record>> /\ k.step = "spare"
    BY <1>4, BecomesMoves DEF Spare, data
  <2>2. j.step = "wipe" /\ j.gone \subseteq k.gone
    BY <1>1 DEF CallOK, NewCall
  <2> HIDE DEF j
  <2>3. \A x \in j.gone, s \in Sources : inst[<<s, x>>] # "active"
    BY <1>1, <2>1, <2>2 DEF Found, Sound
  <2>4. Sound(inst', record') /\ Others'
    BY <1>2, <2>1, SameFares
  <2> QED BY <1>3, <2>1, <2>2, <2>3, <2>4
<1>5. CASE Wipe(c)
  <2>1. UNCHANGED <<inst, record>> /\ k.step = "wipe"
    BY <1>5 DEF Wipe
  <2>2. Sound(inst', record') /\ Others'
    BY <1>2, <2>1, SameFares
  <2>3. PICK j : Becomes(c, j) /\ (j = Done \/ (j.step = "wipe" /\ j.gone = k.gone))
    <3>1. PICK e \in k.old : Returns(c) \/ Becomes(c, [k EXCEPT !.old = @ \ {e}])
      BY <1>5 DEF Wipe
    <3> DEFINE next == [k EXCEPT !.old = @ \ {e}]
    <3>2. next.step = "wipe" /\ next.gone = k.gone
      BY <1>1, <2>1 DEF CallOK, NewCall
    <3>3. Returns(c) \/ Becomes(c, next)
      BY <3>1
    <3> HIDE DEF next
    <3>4. CASE Returns(c)
      <4>1. Becomes(c, Done)
        BY <3>4 DEF Returns
      <4> WITNESS Done
      <4> QED BY <4>1
    <3>5. CASE Becomes(c, next)
      BY <3>2, <3>5
    <3> QED BY <3>3, <3>4, <3>5
  <2>4. call'[c] = j
    BY <2>3, BecomesMoves
  <2>5. j.step = "wipe" => \A x \in j.gone, s \in Sources : inst[<<s, x>>] # "active"
    BY <1>1, <2>1, <2>3, FreshCall DEF Found
  <2>6. j.step \in {"wipe", "done"}
    BY <2>3, FreshCall
  <2> QED BY <1>3, <2>1, <2>2, <2>4, <2>5, <2>6
<1>6. CASE Forget(c)
  <2> DEFINE gone == {p \in Places : p[2] \in k.gone /\ inst[p] # "none"}
             w == [NoWrites EXCEPT !.i = Those(gone, "none")]
             j == [k EXCEPT !.step = "erase"]
  <2>1. Writes(c, w, j) /\ k.step = "wipe"
    BY <1>6 DEF Forget
  <2>2. j.step = "erase" /\ j.gone = k.gone
    BY <1>1 DEF CallOK, NewCall
  <2>3. DOMAIN w.i = gone /\ DOMAIN w.r = {} /\ \A p \in gone : w.i[p] = "none"
    BY DEF NoWrites, Those
  <2> HIDE DEF w, j
  <2>4. /\ \A p \in Places : inst'[p] = IF p[2] \in k.gone THEN "none" ELSE inst[p]
        /\ \A x \in Etags : record'[x] = record[x]
        /\ call'[c] = j
    BY <2>1, <2>3, WritesAre
  <2>5. \A x \in k.gone, s \in Sources : inst[<<s, x>>] # "active" /\ inst'[<<s, x>>] = "none"
    BY <1>1, <2>1, <2>4, Pairs DEF Found
  <2>6. \A s \in Sources, x \in Etags :
          inst'[<<s, x>>] = IF x \in k.gone THEN "none" ELSE inst[<<s, x>>]
    BY <2>4, Pairs
  <2>7. Sound(inst', record')
    BY <1>1, <2>4, <2>5, <2>6 DEF Sound
  <2>8. Others'
    BY <1>2, <2>5, <2>6, <2>7, OthersKept
  <2> QED BY <1>3, <2>2, <2>4, <2>5, <2>7, <2>8
<1>7. CASE Erase(c)
  <2> DEFINE w == [NoWrites EXCEPT !.r = Those(k.gone \ Records("none"), "none")]
  <2>1. Writes(c, w, Done) /\ k.step = "erase"
    BY <1>7 DEF Erase
  <2>2. DOMAIN w.i = {} /\ DOMAIN w.r = k.gone \ Records("none") /\ \A x \in DOMAIN w.r : w.r[x] = "none"
    BY DEF NoWrites, Those
  <2> HIDE DEF w
  <2>3. /\ \A p \in Places : inst'[p] = inst[p]
        /\ \A x \in Etags : record'[x] = IF x \in k.gone THEN "none" ELSE record[x]
        /\ call'[c] = Done
    BY <2>1, <2>2, WritesAre DEF Records
  <2>4. \A x \in k.gone, s \in Sources : inst[<<s, x>>] = "none"
    BY <1>1, <2>1 DEF Found
  <2>5. \A s \in Sources, x \in Etags : inst'[<<s, x>>] = inst[<<s, x>>]
    BY <2>3, Pairs
  <2>6. Sound(inst', record')
    BY <1>1, <2>3, <2>4, <2>5 DEF Sound
  <2>7. Others'
    BY <1>2, <2>5, <2>6, OthersKept
  <2> QED BY <1>3, <2>3, <2>6, <2>7, FreshCall
<1> QED BY <1>4, <1>5, <1>6, <1>7

LEMMA ContinueLone ==
  ASSUME TypeInv, TypeInv', LoneInv, NEW c \in Calls, Continue(c)
  PROVE  LoneInv'
<1>1. Running(c) /\ (call'[c] = Done \/ SameTarget(call[c], call'[c]))
  BY ContinueGoesOn
<1>2. UNCHANGED lone
  BY DEF Continue, Create, Refresh, Mark, SaveFiles, Insert, Replace, Withdraw, ConfirmPlugin, Rollback,
         DeleteInstallation, Commit, Register, Unlist, Disable, Stop, Spare, Wipe, Forget, Erase, RegisterActive
<1> SUFFICES ASSUME lone.valid PROVE LoneInv'
  BY <1>2 DEF LoneInv
<1>3. Moves(c)
  BY UploadStepsType, TransactionsType, RuntimeStepsType, PruneStepsType DEF Continue
<1>4. Fares(c)'
  BY <1>1, UploadStepsFare, ReplaceFares, ConfirmPluginFares, RollbackFares, DeleteInstallationFares,
     CommitFares, RuntimeStepsFare, PruneStepsFare DEF Continue
<1>5. \A d \in Calls \ {c} : ~Running(d)
  BY <1>1 DEF LoneInv
<1>6. \A d \in Calls : Running(d)' => d = c
  BY <1>3, <1>5, OthersStay
<1>7. Running(c)' => call'[c].uc = lone.uc /\ (lone.uc # "boot" => call'[c].source = lone.source /\ call'[c].etag = lone.etag)
  <2>1. call'[c] = Done => ~Running(c)'
    BY FreshCall DEF Running
  <2> QED BY <1>1, <2>1, Alone DEF SameTarget
<1>8. AtRest' => ~Running(c)'
  BY DEF AtRest
<1>9. Sound(lone.inst, lone.record)
  BY DEF LoneInv
<1>10. Sound(inst', record') /\ Others'
  BY <1>4 DEF Fares
<1>11. Running(c)' => Found(call[c])' /\ WillDo(call[c])' /\ (lone.uc = "confirm" => Confirming(call[c])')
  BY <1>2, <1>4 DEF Fares
<1>12. ~Running(c)' /\ lone.uc = "confirm" => inst'[<<lone.source, lone.etag>>] = "active" \/ Same'
  BY <1>2, <1>4 DEF Fares
<1>13. \A d \in Calls : Running(d)' => Found(call[d])' /\ WillDo(call[d])' /\ (lone.uc = "confirm" => Confirming(call[d])')
  BY <1>6, <1>11
<1> QED BY <1>2, <1>6, <1>7, <1>8, <1>9, <1>10, <1>12, <1>13 DEF LoneInv

(* A call that begins alone.                                               *)
LEMMA FreshLone ==
  ASSUME TypeInv, NEW c \in Calls, AtRest, Consistent, UNCHANGED <<inst, record>>,
         \A d \in Calls : Running(d)' => d = c,
         Running(c)', call'[c].uc = lone'.uc,
         lone'.inst = inst, lone'.record = record, lone'.running = running,
         lone'.uc # "boot" =>
           call'[c].source = lone'.source /\ call'[c].etag = lone'.etag /\ running' = running,
         call'[c].step \in {"create", "confirm", "delete", "spare", "boot"},
         call'[c].step = "spare" => \A x \in call'[c].gone : record[x] = "disabled"
  PROVE  LoneInv'
<1>1. Sound(inst, record)
  BY DEF Consistent, Sound, Records, Referenced
<1>2. Sound(inst', record') /\ Sound(lone'.inst, lone'.record)
  BY <1>1
<1>3. Others'
  BY <1>1 DEF Others, Sound, Active
<1>4. Found(call[c])' /\ WillDo(call[c])'
  BY DEF Found, WillDo
<1>5. lone'.uc = "confirm" => Confirming(call[c])'
  BY DEF Confirming, Same
<1>6. ~AtRest'
  BY DEF AtRest
<1>7. \A d \in Calls : Running(d)' => Found(call[d])' /\ WillDo(call[d])' /\ (lone'.uc = "confirm" => Confirming(call[d])')
  BY <1>4, <1>5
<1> QED BY <1>2, <1>3, <1>6, <1>7 DEF LoneInv

LEMMA BeginLone ==
  ASSUME TypeInv, TypeInv', LoneInv, NEW c \in Calls, Moves(c),
         \/ \E s \in Sources, e \in Etags : Upload(c, s, e) \/ Install(c, s, e) \/ Confirm(c, s, e)
         \/ \E s \in Sources : Delete(c, s)
         \/ Prune(c)
  PROVE  LoneInv'
<1> SUFFICES ASSUME lone'.valid PROVE LoneInv'
  BY DEF LoneInv
<1>1. ASSUME NEW uc, NEW s, NEW e, NEW k, Begins(c, uc, s, e), Becomes(c, k), UNCHANGED data, uc # "boot",
             k.uc = uc, k.source = s, k.etag = e, k.step \in {"create", "confirm", "delete", "spare"},
             k.step = "spare" => \A x \in k.gone : record[x] = "disabled"
      PROVE  LoneInv'
  <2>1. call'[c] = k
    BY <1>1, BecomesMoves
  <2>2. /\ AtRest /\ Consistent
        /\ lone'.uc = uc /\ lone'.source = s /\ lone'.etag = e
        /\ lone'.inst = inst /\ lone'.record = record /\ lone'.running = running
    BY <1>1 DEF Begins, NoLone
  <2>3. \A d \in Calls : Running(d)' => d = c
    BY <2>2, OthersStay DEF AtRest
  <2>4. Running(c)'
    BY <1>1, <2>1 DEF Running
  <2> QED BY <1>1, <2>1, <2>2, <2>3, <2>4, FreshLone DEF data
<1>2. ASSUME NEW s \in Sources, NEW e \in Etags, Upload(c, s, e)  PROVE LoneInv'
  <2> DEFINE k == [Start("upload", s, e, "create") EXCEPT !.kept = e \in GetPendingPluginIds(System)]
  <2>1. k.uc = "upload" /\ k.source = s /\ k.etag = e /\ k.step = "create"
    BY DEF Start, NewCall
  <2>2. Begins(c, "upload", s, e) /\ Becomes(c, k) /\ UNCHANGED data
    BY <1>2 DEF Upload
  <2> HIDE DEF k
  <2> QED BY <1>1, <2>1, <2>2
<1>3. ASSUME NEW s \in Sources, NEW e \in Etags, Install(c, s, e)  PROVE LoneInv'
  <2> DEFINE k == [Start("install", s, e, "create") EXCEPT !.gone = ListActive \ {e}]
  <2>1. k.uc = "install" /\ k.source = s /\ k.etag = e /\ k.step = "create"
    BY DEF Start, NewCall
  <2>2. Begins(c, "install", s, e) /\ Becomes(c, k) /\ UNCHANGED data
    BY <1>3 DEF Install
  <2> HIDE DEF k
  <2> QED BY <1>1, <2>1, <2>2
<1>4. ASSUME NEW s \in Sources, NEW e \in Etags, Confirm(c, s, e)  PROVE LoneInv'
  <2> DEFINE k == [Start("confirm", s, e, "confirm") EXCEPT !.gone = ListActive \ {e}]
  <2>1. k.uc = "confirm" /\ k.source = s /\ k.etag = e /\ k.step = "confirm"
    BY DEF Start, NewCall
  <2>2. Begins(c, "confirm", s, e) /\ Becomes(c, k) /\ UNCHANGED data
    BY <1>4 DEF Confirm
  <2> HIDE DEF k
  <2> QED BY <1>1, <2>1, <2>2
<1>5. ASSUME NEW s \in Sources, Delete(c, s)  PROVE LoneInv'
  <2> DEFINE k == Start("delete", s, None, "delete")
  <2>1. k.uc = "delete" /\ k.source = s /\ k.etag = None /\ k.step = "delete"
    BY DEF Start, NewCall
  <2>2. Begins(c, "delete", s, None) /\ Becomes(c, k) /\ UNCHANGED data
    BY <1>5 DEF Delete
  <2> HIDE DEF k
  <2> QED BY <1>1, <2>1, <2>2
<1>6. ASSUME Prune(c)  PROVE LoneInv'
  <2> DEFINE k == [Start("prune", None, None, "spare") EXCEPT !.gone = Records("disabled")]
  <2>1. k.uc = "prune" /\ k.source = None /\ k.etag = None /\ k.step = "spare" /\ \A x \in k.gone : record[x] = "disabled"
    BY DEF Start, NewCall, Records
  <2>2. Begins(c, "prune", None, None) /\ Becomes(c, k) /\ UNCHANGED data
    BY <1>6 DEF Prune
  <2> HIDE DEF k
  <2> QED BY <1>1, <2>1, <2>2
<1> QED BY <1>2, <1>3, <1>4, <1>5, <1>6

LEMMA RestartLone ==
  ASSUME TypeInv, TypeInv', LoneInv, NEW c \in Calls, Restart(c)
  PROVE  LoneInv'
<1> SUFFICES ASSUME lone'.valid PROVE LoneInv'
  BY DEF LoneInv
<1> DEFINE k == [Start("boot", None, None, "boot") EXCEPT !.gone = ListActive]
<1>1. call'[c] = k /\ k.uc = "boot" /\ k.step = "boot"
  BY DEF Restart, Start, NewCall
<1>2. \A d \in Calls : Running(d)' => d = c
  <2>1. ASSUME NEW d \in Calls \ {c}  PROVE call'[d] = Done \/ (call'[d] = call[d] /\ ~Running(d))
    <3>1. call'[d] = IF Running(d) THEN Done ELSE call[d]
      BY DEF Restart
    <3>2. CASE Running(d)
      BY <3>1, <3>2
    <3>3. CASE ~Running(d)
      BY <3>1, <3>3
    <3> QED BY <3>2, <3>3
  <2> QED BY <2>1, FreshCall DEF Running
<1>3. Running(c)' /\ UNCHANGED <<inst, record>>
  BY <1>1 DEF Running, Restart
<1>4. CASE AtRest /\ Consistent
  <2>1. lone'.uc = "boot" /\ lone'.inst = inst /\ lone'.record = record /\ lone'.running = running
    BY <1>4 DEF Restart
  <2> QED BY <1>1, <1>2, <1>3, <1>4, <2>1, FreshLone
<1>5. CASE ~(AtRest /\ Consistent)
  <2>1. lone' = [lone EXCEPT !.uc = "boot"]
    BY <1>5 DEF Restart
  <2>2. /\ lone'.uc = "boot" /\ lone.valid /\ lone'.inst = lone.inst /\ lone'.record = lone.record
        /\ lone'.running = lone.running /\ lone'.source = lone.source
    BY <2>1 DEF TypeInv, LoneOK, NoLone
  <2>3. Sound(inst', record') /\ Sound(lone'.inst, lone'.record)
    BY <1>3, <2>2 DEF LoneInv
  <2>4. Others'
    <3>1. Others
      BY <2>2 DEF LoneInv
    <3>2. ASSUME NEW s \in Sources \ {lone.source}, NEW e \in Active(lone.inst, s)
          PROVE  inst'[<<s, e>>] = "active" /\ record'[e] = "active"
      BY <1>3, <3>1 DEF Others
    <3>3. \A s : Active(lone'.inst, s) = Active(lone.inst, s)
      BY <2>2
    <3> QED BY <2>2, <3>2, <3>3 DEF Others
  <2>5. Found(call[c])' /\ WillDo(call[c])' /\ call'[c].uc = "boot"
    BY <1>1 DEF Found, WillDo
  <2>6. \A d \in Calls : Running(d)' => Found(call[d])' /\ WillDo(call[d])' /\ call'[d].uc = "boot"
    BY <1>2, <2>5
  <2> QED BY <1>2, <2>2, <2>3, <2>4, <2>6 DEF LoneInv
<1> QED BY <1>4, <1>5

LEMMA NextLone == TypeInv /\ LoneInv /\ [Next]_vars => LoneInv'
<1> SUFFICES ASSUME TypeInv, LoneInv, [Next]_vars  PROVE LoneInv'
  OBVIOUS
<1>1. TypeInv'
  BY NextType
<1>2. CASE UNCHANGED vars
  <2>1. UNCHANGED <<inst, record, running, call, lone>>
    BY <1>2 DEF vars, data
  <2>2. ASSUME lone.valid, NEW d \in Calls, Running(d)
        PROVE  Found(call[d])' /\ WillDo(call[d])' /\ (lone.uc = "confirm" => Confirming(call[d])')
    <3>1. Found(call[d]) /\ WillDo(call[d]) /\ (lone.uc = "confirm" => Confirming(call[d]))
      BY <2>2, Alone
    <3> QED BY <2>1, <3>1 DEF Found, WillDo, Confirming, Undoable, Same
  <2>3. Others' <=> Others
    BY <2>1 DEF Others, Active
  <2>4. \A d \in Calls : Running(d)' <=> Running(d)
    BY <2>1 DEF Running
  <2>5. (AtRest' <=> AtRest) /\ (Same' <=> Same)
    BY <2>1, <2>4 DEF AtRest, Same
  <2> QED BY <2>1, <2>2, <2>3, <2>4, <2>5 DEF LoneInv
<1>3. ASSUME NEW c \in Calls, Begin(c)  PROVE LoneInv'
  BY <1>1, <1>3, BeginType, BeginLone, RestartLone DEF Begin
<1>4. ASSUME NEW c \in Calls, Continue(c)  PROVE LoneInv'
  BY <1>1, <1>4, ContinueLone
<1>5. ASSUME NEW s \in Sources, NEW e \in Etags, Expire(s, e)  PROVE LoneInv'
  BY <1>5 DEF Expire, LoneInv, NoLone
<1> QED BY <1>2, <1>3, <1>4, <1>5 DEF Next

LEMMA LoneAlways == Spec => [](TypeInv /\ LoneInv)
<1>1. Init => LoneInv
  BY DEF Init, LoneInv, NoLone
<1> QED BY <1>1, InitType, NextType, NextLone, PTL DEF Spec

(* One use case after another, whichever of its steps fail or are cut off  *)
(* by a restart, leaves installations and records that agree.              *)
THEOREM UseCasesLeaveConsistent == Spec => []LeavesConsistent
<1>1. TypeInv /\ LoneInv => LeavesConsistent
  BY DEF LoneInv, LeavesConsistent, Consistent, Sound, Records, Referenced
<1> QED BY <1>1, LoneAlways, PTL

(* What one source does leaves what the other sources are served.          *)
THEOREM UseCasesLeaveOthers == Spec => []OthersUndisturbed
<1>1. TypeInv /\ LoneInv => OthersUndisturbed
  BY DEF LoneInv, OthersUndisturbed, Others
<1> QED BY <1>1, LoneAlways, PTL

(* A confirmation that fails leaves everything as it was.                  *)
THEOREM ConfirmRestores == Spec => []FailedConfirmRestores
<1>1. TypeInv /\ LoneInv => FailedConfirmRestores
  BY DEF LoneInv, FailedConfirmRestores, Same
<1> QED BY <1>1, LoneAlways, PTL
=============================================================================

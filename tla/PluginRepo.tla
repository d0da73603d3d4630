----------------------------- MODULE PluginRepo -----------------------------
(***************************************************************************)
(* The plugin repository infrastructure/src/plugin/plugin.repo.ts          *)
(* (PluginRepo) and the use cases of packages/usecase/src/plugin that      *)
(* write through it: upload, install, confirm, delete, prune and the       *)
(* registration of active plugins at start.                                *)
(*                                                                         *)
(* One plugin and one version of it: an identity is its etag.  A call is   *)
(* one coroutine of a use case for one package; it makes one step per      *)
(* await that reads or writes something shared.  A transaction of MongoDB  *)
(* reads a snapshot: it computes its writes in one step and commits them   *)
(* in a later one, which fails when a document it writes has been written  *)
(* in between.  Other writes go through at once.                           *)
(***************************************************************************)
EXTENDS Integers, FiniteSets

CONSTANTS
  Sources, System,  \* System: "system", the default source
  Etags,
  MaxCalls,  \* bound: calls of use cases, numbered in the order they begin
  None

Calls == 1..MaxCalls

ASSUME RepoAssumption ==
  /\ MaxCalls \in Nat /\ System \in Sources
  /\ None \notin Sources /\ None \notin Etags

VARIABLES
  inst,      \* plugin_installation: the status for a source and an etag
  record,    \* plugin: the status of the record of an etag
  files,     \* the etags whose files are in the storages
  running,   \* the etags the runtime manager has a service for (external)
  call,      \* the coroutines
  lone,      \* history: the state the last call began in, while it is the only one
  spoilt     \* history: the etags a prune left half removed or removed under another call

data == <<inst, record, files, running>>
vars == <<data, call, lone, spoilt>>

Places == Sources \X Etags
InstStatus == {"none", "pending", "active", "disabled"}
RecordStatus == {"none", "active", "disabled"}

UseCases == {"none", "upload", "install", "confirm", "delete", "prune", "boot"}
Steps == {"new", "create", "refresh", "mark", "files", "insert", "replace", "confirm", "delete",
          "rollback", "commit", "register", "unlist", "disable", "withdraw", "stop",
          "spare", "wipe", "erase", "boot", "done"}

(* The writes of a transaction: the new statuses of the documents it writes. *)
NoWrites == [i |-> <<>>, r |-> <<>>]

NewCall == [uc |-> "none", source |-> None, etag |-> None, step |-> "new",
            kept |-> FALSE,      \* the etag is in existingPendingPluginKeys
            required |-> FALSE,  \* runtimeRegistrationRequired
            gone |-> {},         \* replacedPlugins, then those to disable; removablePlugins
            old |-> {},          \* replacedInstallationIds; the etags left to wipe
            tx |-> NoWrites, after |-> "done", conflict |-> FALSE]

NoLone == [valid |-> FALSE, uc |-> "none", source |-> None, etag |-> None,
           inst |-> <<>>, record |-> <<>>, running |-> {}]

-----------------------------------------------------------------------------
Running(c) == call[c].step \notin {"new", "done"}
AtRest == \A c \in Calls : ~Running(c)

At(c) == <<call[c].source, call[c].etag>>
Active(i, s) == {e \in Etags : i[<<s, e>>] = "active"}
Referenced(i) == {e \in Etags : \E s \in Sources : i[<<s, e>>] = "active"}
Records(status) == {e \in Etags : record[e] = status}
ListActive == Records("active")
GetPendingPluginIds(s) == {e \in Etags : inst[<<s, e>>] = "pending"}

Over(w, f) == [x \in DOMAIN f |-> IF x \in DOMAIN w THEN w[x] ELSE f[x]]
Those(S, value) == [x \in S |-> value]

(* The documents of w are written by c, which goes on as k: a transaction  *)
(* that writes one of them and has not committed will fail.                *)
Writes(c, w, k) ==
  /\ inst' = Over(w.i, inst)
  /\ record' = Over(w.r, record)
  /\ call' = [d \in Calls |->
       IF d = c THEN k
       ELSE [call[d] EXCEPT !.conflict = @ \/ DOMAIN call[d].tx.i \cap DOMAIN w.i # {}
                                           \/ DOMAIN call[d].tx.r \cap DOMAIN w.r # {}]]

Becomes(c, k) == call' = [call EXCEPT ![c] = k]
Goes(c, step) == Becomes(c, [call[c] EXCEPT !.step = step])
Done == [NewCall EXCEPT !.step = "done"]
Returns(c) == Becomes(c, Done)

(* A transaction has computed its writes.                                  *)
Commits(c, w, k, after) ==
  Becomes(c, [k EXCEPT !.step = "commit", !.tx = w, !.after = after])

(* disableUnreferencedPluginIds within a transaction whose installations   *)
(* are i, and disableSameVersionActivePlugins.                             *)
Unreferenced(S, i) == {e \in S : e \notin Referenced(i)}
SameVersionLater(e, i) == {} \* mutant: the records are left to the last step of the use case
SameVersion(e, i) == Unreferenced(Records("active") \ {e}, i)

(* What the use cases leave behind when none is under way.                 *)
Consistent ==
  /\ \A s \in Sources, e \in Etags :
       /\ inst[<<s, e>>] = "active" => record[e] = "active"
       /\ inst[<<s, e>>] # "none" => record[e] # "none"
  /\ Records("active") \subseteq Referenced(inst)

Pruning == {c \in Calls : call[c].uc = "prune" /\ Running(c)}

IsNext(c) == call[c].step = "new" /\ \A d \in Calls : d < c => call[d].step # "new"

(* A call begins: the only one, or beside another.                         *)
Begins(c, uc, s, e) ==
  /\ IsNext(c)
  /\ spoilt' = spoilt \cup UNION {call[d].gone : d \in Pruning}
  /\ lone' = IF AtRest /\ Consistent
             THEN [valid |-> TRUE, uc |-> uc, source |-> s, etag |-> e,
                   inst |-> inst, record |-> record, running |-> running]
             ELSE NoLone

Start(uc, s, e, step) == [NewCall EXCEPT !.uc = uc, !.source = s, !.etag = e, !.step = step]

(* Some state the use cases have left.                                     *)
Init ==
  /\ inst \in [Places -> InstStatus]
  /\ \A s \in Sources : Cardinality(Active(inst, s)) <= 1
  /\ record \in [Etags -> RecordStatus]
  /\ files = Etags \ Records("none")
  /\ running = Records("active")
  /\ Consistent
  /\ call = [c \in Calls |-> NewCall]
  /\ lone = NoLone
  /\ spoilt = {}

-----------------------------------------------------------------------------
(* upload and install: createPlugin                                        *)

(* DebugPluginRepoOverlay drops the source that an upload gives to         *)
(* getPendingPluginIds, here, and to deletePendingPlugin: the default one  *)
(* is meant.                                                               *)
Upload(c, s, e) ==
  /\ Begins(c, "upload", s, e)
  /\ Becomes(c, [Start("upload", s, e, "create") EXCEPT !.kept = e \in GetPendingPluginIds(System)])
  /\ UNCHANGED data

(* listReplacedActivePlugins, then createPlugin.                           *)
Install(c, s, e) ==
  /\ Begins(c, "install", s, e)
  /\ Becomes(c, [Start("install", s, e, "create") EXCEPT !.gone = ListActive \ {e}])
  /\ UNCHANGED data

(* rollbackPendingPlugins of an upload that failed.                        *)
Fails(c) ==
  IF call[c].uc = "upload" /\ ~call[c].kept THEN Goes(c, "withdraw") ELSE Returns(c)

(* The installation and the record are looked up.                          *)
Create(c) ==
  LET k == call[c]  st == inst[At(c)]  upload == k.uc = "upload" IN
  /\ k.step = "create"
  /\ \/ st \in {"pending", "active"} /\ ~(upload /\ st = "pending") /\ Fails(c)
     \/ st = "pending" /\ upload /\ Goes(c, "refresh")
     \/ /\ st \in {"none", "disabled"}
        /\ IF record[k.etag] = "none" THEN Goes(c, "files")
           ELSE Becomes(c, [k EXCEPT !.step = IF upload THEN "mark" ELSE "replace",
                                     !.required = record[k.etag] # "active"])
  /\ UNCHANGED <<data, lone, spoilt>>

(* The update is by _id, whatever the status has become.                   *)
Refresh(c) ==
  /\ call[c].step = "refresh"
  /\ Writes(c, [NoWrites EXCEPT !.i = Those({At(c)} \ {p \in Places : inst[p] = "none"}, "pending")], Done)
  /\ UNCHANGED <<files, running, lone, spoilt>>

(* updateInstallation of an upload: upsert, whatever the status has become. *)
Mark(c) ==
  /\ call[c].step = "mark"
  /\ Writes(c, [NoWrites EXCEPT !.i = Those({At(c)}, "pending")], Done)
  /\ UNCHANGED <<files, running, lone, spoilt>>

SaveFilesLater(c) == \* mutant: the record is created although a file was not saved
  /\ call[c].step = "files"
  /\ Goes(c, "insert")
  /\ files' \in {files, files \cup {call[c].etag}}
  /\ UNCHANGED <<inst, record, running, lone, spoilt>>

(* Every file has to be saved before the record is created.                *)
SaveFiles(c) ==
  /\ call[c].step = "files"
  /\ \/ Goes(c, "insert") /\ files' = files \cup {call[c].etag}
     \/ Fails(c) /\ UNCHANGED files
  /\ UNCHANGED <<inst, record, running, lone, spoilt>>

(* pluginModel.create, or the record another call has created meanwhile.   *)
Insert(c) ==
  LET k == call[c]  new == IF record[k.etag] = "none" THEN {k.etag} ELSE {} IN
  /\ k.step = "insert"
  /\ Writes(c, [NoWrites EXCEPT !.r = Those(new, "disabled")],
            [k EXCEPT !.step = IF k.uc = "upload" THEN "mark" ELSE "replace", !.required = TRUE])
  /\ UNCHANGED <<files, running, lone, spoilt>>

(* replaceInstalledPlugin: the installation is read without its status, so *)
(* one that exists is a duplicate even when it is disabled.                *)
Replace(c) ==
  LET k == call[c]  e == k.etag
      activate == k.required \/ record[e] = "disabled"
      i == Those({<<k.source, x>> : x \in Active(inst, k.source) \ {e}}, "disabled")
      j == [p \in DOMAIN i \cup {At(c)} |-> IF p = At(c) THEN "active" ELSE i[p]]
      off == SameVersion(e, Over(j, inst))
      on == IF activate /\ record[e] # "none" THEN {e} ELSE {} IN
  /\ k.step = "replace"
  /\ IF inst[At(c)] # "none" THEN Returns(c)
     ELSE Commits(c, [i |-> j, r |-> [x \in on \cup off |-> IF x \in on THEN "active" ELSE "disabled"]],
                  [k EXCEPT !.required = activate],
                  IF activate THEN "register" ELSE "unlist")
  /\ UNCHANGED <<data, lone, spoilt>>

(* deletePendingPlugin, up to its disableUnreferencedPluginIds, of the     *)
(* default source whatever that of the call.                               *)
Withdraw(c) ==
  LET pending == {<<System, call[c].etag>>} \cap {p \in Places : inst[p] = "pending"} IN
  /\ call[c].step = "withdraw"
  /\ Writes(c, [NoWrites EXCEPT !.i = Those(pending, "disabled")],
            [call[c] EXCEPT !.step = "unlist", !.gone = {call[c].etag}])
  /\ UNCHANGED <<files, running, lone, spoilt>>

-----------------------------------------------------------------------------
(* confirm                                                                 *)

Confirm(c, s, e) ==
  /\ Begins(c, "confirm", s, e)
  /\ Becomes(c, [Start("confirm", s, e, "confirm") EXCEPT !.gone = ListActive \ {e}])
  /\ UNCHANGED data

(* confirmPlugin: an active installation is confirmed already, one that is *)
(* not pending or has no record cannot be.                                 *)
ConfirmPlugin(c) ==
  LET k == call[c]  e == k.etag
      old == Active(inst, k.source)
      i == [p \in {At(c)} \cup {<<k.source, x>> : x \in old} |-> IF p = At(c) THEN "active" ELSE "disabled"]
      off == SameVersion(e, Over(i, inst))
      required == e \notin Referenced(inst) /\ record[e] # "active" IN
  /\ k.step = "confirm"
  /\ IF inst[At(c)] # "pending" \/ record[e] = "none" THEN Returns(c)
     ELSE Commits(c, [i |-> i, r |-> [x \in off \cup ({e} \ Records("active")) |->
                                        IF x = e THEN "active" ELSE "disabled"]],
                  [k EXCEPT !.old = old, !.required = required],
                  IF required THEN "register" ELSE "unlist")
  /\ UNCHANGED <<data, lone, spoilt>>

RollbackForgetting(c) == \* mutant: the replaced installations stay disabled
  LET k == call[c]
      i == Those({At(c)} \cap {p \in Places : inst[p] = "active"}, "pending")
      off == Unreferenced({k.etag}, Over(i, inst)) \ Records("none") IN
  /\ k.step = "rollback"
  /\ Commits(c, [i |-> i, r |-> Those(off, "disabled")], k, "done")
  /\ UNCHANGED <<data, lone, spoilt>>

(* rollbackPluginConfirmation, when the runtime could not be registered.   *)
Rollback(c) ==
  LET k == call[c]
      back == {<<k.source, x>> : x \in k.old} \cap {p \in Places : inst[p] # "none"}
      own == {At(c)} \cap {p \in Places : inst[p] = "active"}
      i == [p \in own \cup back |-> IF p \in back THEN "active" ELSE "pending"]
      off == Unreferenced({k.etag}, Over(i, inst)) \ Records("none")
      on == k.old \ Records("none") IN
  /\ k.step = "rollback"
  /\ Commits(c, [i |-> i, r |-> [x \in off \cup on |-> IF x \in off THEN "disabled" ELSE "active"]],
             k, "done")
  /\ UNCHANGED <<data, lone, spoilt>>

-----------------------------------------------------------------------------
(* delete                                                                  *)

Delete(c, s) ==
  /\ Begins(c, "delete", s, None)
  /\ Becomes(c, Start("delete", s, None, "delete"))
  /\ UNCHANGED data

(* deletePluginInstallation: a record that is missing fails the call after *)
(* the transaction has committed.                                          *)
DeleteInstallation(c) ==
  LET k == call[c]
      own == Active(inst, k.source)
      i == Those({<<k.source, x>> : x \in own}, "disabled")
      off == Unreferenced(own, Over(i, inst)) IN
  /\ k.step = "delete"
  /\ IF own = {} THEN Returns(c)
     ELSE Commits(c, [i |-> i, r |-> Those(off \ Records("none"), "disabled")], [k EXCEPT !.gone = off],
                  IF own \cap Records("none") = {} THEN "stop" ELSE "done")
  /\ UNCHANGED <<data, lone, spoilt>>

-----------------------------------------------------------------------------
(* Shared steps                                                            *)

Duplicate(i) == \E s \in Sources : Cardinality(Active(i, s)) > 1

(* commitTransaction: it fails by a conflict or by the unique index on the *)
(* active installations of a source.                                       *)
Commit(c) ==
  LET k == call[c] IN
  /\ k.step = "commit"
  /\ IF k.conflict \/ Duplicate(Over(k.tx.i, inst))
     THEN Returns(c) /\ UNCHANGED <<inst, record>>
     ELSE Writes(c, k.tx, IF k.after = "done" THEN Done
                          ELSE [k EXCEPT !.step = k.after, !.tx = NoWrites, !.after = "done"])
  /\ UNCHANGED <<files, running, lone, spoilt>>

(* register of the runtime manager: an etag is registered once, and needs  *)
(* its record and its files.                                               *)
Register(c) ==
  LET e == call[c].etag IN
  /\ call[c].step = "register"
  /\ \/ /\ e \notin running /\ record[e] # "none" /\ e \in files
        /\ running' = running \cup {e}
        /\ Goes(c, "unlist")
     \/ /\ IF call[c].uc = "confirm" THEN Goes(c, "rollback") ELSE Returns(c)
        /\ UNCHANGED running
  /\ UNCHANGED <<inst, record, files, lone, spoilt>>

UnlistAll(c) == \* mutant: the installations of other sources are not looked at
  /\ call[c].step = "unlist"
  /\ Goes(c, "disable")
  /\ UNCHANGED <<data, lone, spoilt>>

(* disableUnreferencedPlugins outside a transaction: the installations are *)
(* read, then the records written.                                         *)
Unlist(c) ==
  LET gone == Unreferenced(call[c].gone, inst) IN
  /\ call[c].step = "unlist"
  /\ IF gone = {} THEN Returns(c) ELSE Becomes(c, [call[c] EXCEPT !.step = "disable", !.gone = gone])
  /\ UNCHANGED <<data, lone, spoilt>>

Disable(c) ==
  LET k == call[c] IN
  /\ k.step = "disable"
  /\ Writes(c, [NoWrites EXCEPT !.r = Those(k.gone \ Records("none"), "disabled")],
            IF k.uc = "upload" THEN Done ELSE [k EXCEPT !.step = "stop"])
  /\ UNCHANGED <<files, running, lone, spoilt>>

(* unregister of the runtime manager, which refuses a replacement it does  *)
(* not know; errors are logged.                                            *)
Stop(c) ==
  LET k == call[c] IN
  /\ k.step = "stop"
  /\ running' = IF k.uc = "delete" \/ k.etag \in running THEN running \ k.gone ELSE running
  /\ Returns(c)
  /\ UNCHANGED <<inst, record, files, lone, spoilt>>

-----------------------------------------------------------------------------
(* prune: pruneDisabled                                                    *)

(* One at a time (bound).                                                  *)
Prune(c) ==
  /\ Pruning = {}
  /\ Begins(c, "prune", None, None)
  /\ Becomes(c, [Start("prune", None, None, "spare") EXCEPT !.gone = Records("disabled")])
  /\ UNCHANGED data

(* The prune removes something under another call.                         *)
Disturbs(c) == IF \E d \in Calls \ {c} : Running(d) THEN spoilt \cup call[c].gone ELSE spoilt

(* The records with a pending installation stay.                           *)
Spare(c) ==
  LET gone == {e \in call[c].gone : \A s \in Sources : inst[<<s, e>>] # "pending"} IN
  /\ call[c].step = "spare"
  /\ Becomes(c, [call[c] EXCEPT !.step = "wipe", !.gone = gone, !.old = gone])
  /\ UNCHANGED <<data, lone, spoilt>>

(* The files of one record after the other; a failure, after some or all   *)
(* files of a record are gone, ends the call.                              *)
Wipe(c) ==
  /\ call[c].step = "wipe"
  /\ \E e \in call[c].old :
       \/ /\ files' = files \ {e}
          /\ Becomes(c, [call[c] EXCEPT !.old = @ \ {e}])
          /\ spoilt' = Disturbs(c)
       \/ /\ files' \in {files, files \ {e}}
          /\ Returns(c)
          /\ spoilt' = Disturbs(c) \cup (call[c].gone \ files')
  /\ UNCHANGED <<inst, record, running, lone>>

(* All installations of the records are deleted, whatever their status.    *)
Forget(c) ==
  LET gone == {p \in Places : p[2] \in call[c].gone /\ inst[p] # "none"} IN
  /\ call[c].step = "wipe" /\ call[c].old = {}
  /\ Writes(c, [NoWrites EXCEPT !.i = Those(gone, "none")], [call[c] EXCEPT !.step = "erase"])
  /\ spoilt' = Disturbs(c)
  /\ UNCHANGED <<files, running, lone>>

(* The records are deleted by _id.                                         *)
Erase(c) ==
  /\ call[c].step = "erase"
  /\ Writes(c, [NoWrites EXCEPT !.r = Those(call[c].gone \ Records("none"), "none")], Done)
  /\ spoilt' = Disturbs(c)
  /\ UNCHANGED <<files, running, lone>>

-----------------------------------------------------------------------------
(* The process restarts: its calls and services are lost, and the plugins  *)
(* that are active are registered.                                         *)
Restart(c) ==
  /\ IsNext(c)
  /\ call' = [d \in Calls |->
       IF d = c THEN [Start("boot", None, None, "boot") EXCEPT !.gone = ListActive]
       ELSE IF Running(d) THEN Done ELSE call[d]]
  /\ running' = {}
  /\ lone' = IF AtRest /\ Consistent
             THEN [valid |-> TRUE, uc |-> "boot", source |-> None, etag |-> None,
                   inst |-> inst, record |-> record, running |-> running]
             ELSE [lone EXCEPT !.uc = "boot"]
  /\ spoilt' = spoilt \cup UNION {call[d].gone : d \in Pruning}
  /\ UNCHANGED <<inst, record, files>>

(* makePluginRegisterActiveUC                                              *)
RegisterActive(c) ==
  LET k == call[c] IN
  /\ k.step = "boot"
  /\ \/ /\ k.gone = {} /\ Returns(c) /\ UNCHANGED running
     \/ \E e \in k.gone :
          /\ running' \in {running} \cup {running \cup (({e} \cap files) \ Records("none"))}
          /\ Becomes(c, [k EXCEPT !.gone = @ \ {e}])
  /\ UNCHANGED <<inst, record, files, lone, spoilt>>

(* The TTL index of pending installations; two hours outlast every call.   *)
Expire(s, e) ==
  /\ AtRest /\ inst[<<s, e>>] = "pending"
  /\ inst' = [inst EXCEPT ![<<s, e>>] = "none"]
  /\ lone' = NoLone
  /\ UNCHANGED <<record, files, running, call, spoilt>>

-----------------------------------------------------------------------------
Begin(c) ==
  \/ \E s \in Sources, e \in Etags : Upload(c, s, e) \/ Install(c, s, e) \/ Confirm(c, s, e)
  \/ \E s \in Sources : Delete(c, s)
  \/ Prune(c) \/ Restart(c)

Continue(c) ==
  \/ Create(c) \/ Refresh(c) \/ Mark(c) \/ SaveFiles(c) \/ Insert(c) \/ Replace(c) \/ Withdraw(c)
  \/ ConfirmPlugin(c) \/ Rollback(c) \/ DeleteInstallation(c) \/ Commit(c)
  \/ Register(c) \/ Unlist(c) \/ Disable(c) \/ Stop(c)
  \/ Spare(c) \/ Wipe(c) \/ Forget(c) \/ Erase(c) \/ RegisterActive(c)

Next ==
  \/ \E c \in Calls : Begin(c) \/ Continue(c)
  \/ \E s \in Sources, e \in Etags : Expire(s, e)

Spec == Init /\ [][Next]_vars

-----------------------------------------------------------------------------
(* Properties                                                              *)

WritesOK(w) ==
  /\ DOMAIN w.i \subseteq Places /\ \A p \in DOMAIN w.i : w.i[p] \in InstStatus
  /\ DOMAIN w.r \subseteq Etags /\ \A e \in DOMAIN w.r : w.r[e] \in RecordStatus

CallOK(k) ==
  /\ DOMAIN k = DOMAIN NewCall
  /\ k.uc \in UseCases /\ k.step \in Steps /\ k.after \in Steps
  /\ k.source \in Sources \cup {None} /\ k.etag \in Etags \cup {None}
  /\ k.kept \in BOOLEAN /\ k.required \in BOOLEAN /\ k.conflict \in BOOLEAN
  /\ k.gone \subseteq Etags /\ k.old \subseteq Etags
  /\ WritesOK(k.tx)
  /\ k.tx # NoWrites \/ k.after # "done" \/ k.conflict => k.step = "commit"

(* Every variable holds what its declaration says, and only a call inside a *)
(* transaction has writes to commit.                                       *)
TypeOK ==
  /\ inst \in [Places -> InstStatus]
  /\ record \in [Etags -> RecordStatus]
  /\ files \subseteq Etags /\ running \subseteq Etags /\ spoilt \subseteq Etags
  /\ DOMAIN call = Calls /\ \A c \in Calls : CallOK(call[c])

(* One use case after another, each step of each of which may fail or be   *)
(* cut off by a restart, leaves every installation with a record, one that is *)
(* active with an active record, and every active record with an active    *)
(* installation.                                                           *)
LeavesConsistent == AtRest /\ lone.valid => Consistent

(* What one source uploads, confirms, installs or deletes leaves what the  *)
(* other sources are served: their installation, its record and, unless    *)
(* the process restarted, its service.                                     *)
OthersUndisturbed ==
  AtRest /\ lone.valid =>
    \A s \in Sources \ {lone.source} : \A e \in Active(lone.inst, s) :
      /\ inst[<<s, e>>] = "active" /\ record[e] = "active"
      /\ e \in lone.running /\ lone.uc # "boot" => e \in running

(* A confirmation that fails, in the registration of the runtime or before,*)
(* leaves installations, records and services as they were.                *)
FailedConfirmRestores ==
  AtRest /\ lone.valid /\ lone.uc = "confirm" /\ inst[<<lone.source, lone.etag>>] # "active" =>
    inst = lone.inst /\ record = lone.record /\ running = lone.running

(* An installation has a record and a record has its files, whatever use   *)
(* cases and restarts overlap, except where a prune failed halfway or ran  *)
(* beside another call.                                                    *)
InstallationsAreBacked ==
  AtRest => \A e \in Etags \ spoilt :
    /\ record[e] # "none" => e \in files
    /\ \A s \in Sources : inst[<<s, e>>] # "none" => record[e] # "none"

(* plugin.repo.test.ts: a direct installation restores a disabled plugin   *)
(* with the same version and etag to active.                               *)
ReinstallRestores ==
  AtRest /\ lone.valid /\ lone.uc = "install" /\ lone.inst[<<lone.source, lone.etag>>] = "disabled" =>
    inst[<<lone.source, lone.etag>>] = "active"
=============================================================================

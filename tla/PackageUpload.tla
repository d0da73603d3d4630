--------------------------- MODULE PackageUpload ---------------------------
(***************************************************************************)
(* Uploads and installations of several packages at once: makePluginUploadUC*)
(* (plugin-upload.uc.ts) behind POST /upload, makePluginInstallUC          *)
(* (plugin-install.uc.ts) behind POST /install, the reading of packages    *)
(* (plugin-pkg-file-resolver.impl.ts), and the script that uploads a zip   *)
(* and confirms what was uploaded (upload-plugin-zip-and-confirm.mjs).     *)
(* Any package may fail in any step; calls overlap.                        *)
(*                                                                         *)
(* The repository of the server is DebugPluginRepoOverlay, which drops the *)
(* source that an upload gives to getPendingPluginIds and                  *)
(* deletePendingPlugin (debug-plugin.repo.ts): both act on the default     *)
(* source, also for an upload to another.                                  *)
(*                                                                         *)
(* Abstracted: createPlugin and the confirmation of a plugin are one step  *)
(* each (module PluginRepo has them in full), and so are the downloads of  *)
(* an installation; files are not looked into (module PluginPackage);      *)
(* texts, and the temporary files.                                         *)
(***************************************************************************)
EXTENDS Integers, Sequences, SequencesExt, FiniteSetsExt

CONSTANTS
  Calls,
  Sources, System,  \* System: "system", the default source
  Plugins,    \* unique ids
  Batches,    \* sequences of files: [zip : BOOLEAN, plugins : Seq(Plugins)], one plugin in a .pkg
  MaxFaults,  \* bound: packages and reads of the database that fail
  MaxOthers   \* bound: pending plugins that expire, plugins that are deleted

VARIABLES
  call,       \* [kind, source, batch]; kinds: "upload", "install", "script", and "partial",
              \*   the script with --allow-partial
  at,         \* what the call awaits
  files,      \* the numbers of the files it has still to go through
  todo,       \* the packages: pairs of their file's number and the plugin
  done,       \* packages uploaded or installed
  failed,     \* packages and files reported as failed
  before,     \* pairs listed as pending when the upload began
  pending, installed, \* pairs of a source and a plugin
  faults, others,
  initially   \* history: pending before all calls

progress == <<call, at, files, todo, done, failed, before>>
database == <<pending, installed>>
bounds == <<faults, others>>
vars == <<progress, database, bounds, initially>>

NoCall == [kind |-> "none", source |-> System, batch |-> <<>>]
Places == Sources \X Plugins
Kinds == {"upload", "install", "script", "partial"}

Init ==
  /\ call = [c \in Calls |-> NoCall] /\ at = [c \in Calls |-> "idle"]
  /\ files = [c \in Calls |-> {}] /\ todo = [c \in Calls |-> <<>>]
  /\ done = [c \in Calls |-> <<>>] /\ failed = [c \in Calls |-> <<>>]
  /\ before = [c \in Calls |-> {}]
  /\ pending \in SUBSET Places /\ installed \in SUBSET (Places \ pending)
  /\ faults = 0 /\ others = 0 /\ initially = pending

Goes(c, from, to) == at[c] = from /\ at' = [at EXCEPT ![c] = to]
Fault == faults < MaxFaults /\ faults' = faults + 1
IsInstall(c) == call[c].kind = "install"
Fails(c, what) == failed' = [failed EXCEPT ![c] = Append(@, what)]

(* The script takes a .zip only, and names no source.                      *)
Begin(c, kind, source, batch) ==
  /\ Goes(c, "idle", IF kind = "install" THEN "download" ELSE "snapshot")
  /\ kind \in {"script", "partial"} => source = System /\ Len(batch) = 1 /\ batch[1].zip
  /\ call' = [call EXCEPT ![c] = [kind |-> kind, source |-> source, batch |-> batch]]
  /\ files' = [files EXCEPT ![c] = DOMAIN batch]
  /\ UNCHANGED <<todo, done, failed, before, database, bounds, initially>>

-----------------------------------------------------------------------------
(* What both do with a file                                                *)

Of(source) == {x \in pending : x[1] = source}
ListedOfSource(c) == Of(call[c].source) \* mutant: the source is not dropped here, but for the rollback
Listed(c) == Of(System)

(* getPendingPluginIds: an error is the answer.                            *)
Snapshot(c) ==
  /\ \/ Goes(c, "snapshot", "files") /\ before' = [before EXCEPT ![c] = Listed(c)] /\ UNCHANGED faults
     \/ Goes(c, "snapshot", "refused") /\ Fault /\ UNCHANGED before
  /\ UNCHANGED <<call, files, todo, done, failed, database, others, initially>>

(* batch: the files are downloaded and saved, in whatever order.           *)
Download(c) ==
  /\ Goes(c, "download", "files")
  /\ \E lost \in SUBSET files[c] :
       /\ faults + Cardinality(lost) <= MaxFaults /\ faults' = faults + Cardinality(lost)
       /\ files' = [files EXCEPT ![c] = @ \ lost]
       /\ failed' = [failed EXCEPT ![c] = SetToSeq({<<n, "file">> : n \in lost})]
  /\ UNCHANGED <<call, todo, done, before, database, others, initially>>

File(c, n) == call[c].batch[n]
PackagesOf(c, n) == [i \in DOMAIN File(c, n).plugins |-> <<n, File(c, n).plugins[i]>>]
IsNext(c, n) == n \in files[c] /\ \A m \in files[c] : n <= m

TakeFileUnlisted(c) == \* mutant: a file that cannot be read is passed over
  /\ at[c] = "files" /\ (todo[c] = <<>> \/ IsInstall(c))
  /\ \E n \in files[c] :
       /\ IsNext(c, n) /\ files' = [files EXCEPT ![c] = @ \ {n}]
       /\ \/ todo' = [todo EXCEPT ![c] = @ \o PackagesOf(c, n)] /\ UNCHANGED faults
          \/ Fault /\ UNCHANGED todo
  /\ UNCHANGED <<call, at, done, failed, before, database, others, initially>>

(* An upload saves its next file; a .zip is read by parsePluginZipFiles,   *)
(* and is a failure as a whole when one entry is no package, or cannot be  *)
(* read or saved.  An upload goes through the packages of a file before    *)
(* the next, an installation through those of all files at last.           *)
TakeFile(c) ==
  /\ at[c] = "files" /\ (todo[c] = <<>> \/ IsInstall(c))
  /\ \E n \in files[c] :
       /\ IsNext(c, n) /\ files' = [files EXCEPT ![c] = @ \ {n}]
       /\ \/ todo' = [todo EXCEPT ![c] = @ \o PackagesOf(c, n)] /\ UNCHANGED <<failed, faults>>
          \/ /\ File(c, n).zip \/ ~IsInstall(c)
             /\ Fault /\ Fails(c, <<n, "file">>)
             /\ UNCHANGED todo
  /\ UNCHANGED <<call, at, done, before, database, others, initially>>

-----------------------------------------------------------------------------
(* What both do with a package                                             *)

Package(c) == Head(todo[c])
Plugin(c) == Package(c)[2]
Place(c) == <<call[c].source, Plugin(c)>>
Proceed(c) == todo' = [todo EXCEPT ![c] = Tail(@)]
IsDone(c) == done' = [done EXCEPT ![c] = Append(@, Package(c))]

(* parsePluginPkg: a package may be refused, but one that is no zip at all *)
(* makes unpkg throw, out of the use case.                                 *)
Parse(c) ==
  /\ todo[c] # <<>> /\ (IsInstall(c) => files[c] = {})
  /\ \/ Goes(c, "files", "create") /\ UNCHANGED <<todo, failed, faults>>
     \/ Goes(c, "files", "files") /\ Fault /\ Fails(c, Package(c)) /\ Proceed(c)
     \/ Goes(c, "files", "threw") /\ Fault /\ UNCHANGED <<todo, failed>>
  /\ UNCHANGED <<call, files, done, before, database, others, initially>>

(* createPlugin: pending, unless the source has it installed; a plugin     *)
(* that is pending already is so anew.  An error is taken back, but not    *)
(* from a plugin that was pending before.                                  *)
Create(c) ==
  /\ ~IsInstall(c) /\ at[c] = "create"
  /\ \/ /\ Place(c) \notin installed
        /\ Goes(c, "create", "files")
        /\ pending' = pending \cup {Place(c)}
        /\ IsDone(c) /\ Proceed(c)
        /\ UNCHANGED faults
     \/ /\ Goes(c, "create", "rollback")
        /\ IF Place(c) \in installed THEN UNCHANGED faults ELSE Fault
        /\ UNCHANGED <<pending, done, todo>>
  /\ UNCHANGED <<call, files, failed, before, installed, others, initially>>

(* Where createPlugin does not catch, updateInstallation and the second    *)
(* look for the plugin, its exception leaves the use case: no rollback and *)
(* no report, whatever was done.                                           *)
CreateThrows(c) ==
  /\ Goes(c, "create", "threw") /\ Fault
  /\ Place(c) \notin pending \cup installed
  /\ pending' \in {pending} \cup IF IsInstall(c) THEN {} ELSE {pending \cup {Place(c)}}
  /\ UNCHANGED <<call, files, todo, done, failed, before, installed, others, initially>>

Withdrawing(c) == {<<System, Plugin(c)>>} \ before[c]

(* rollbackPendingPlugins: it may fail itself, which is logged.            *)
Rollback(c) ==
  /\ Goes(c, "rollback", "files")
  /\ Fails(c, Package(c)) /\ Proceed(c)
  /\ \/ pending' = pending \ Withdrawing(c) /\ UNCHANGED faults
     \/ Fault /\ UNCHANGED pending
  /\ UNCHANGED <<call, files, done, before, installed, others, initially>>

(* An installation: a plugin of this source, installed or pending, is not  *)
(* replaced; what fails after createPlugin, the registration or the end of *)
(* what it replaces, is reported and leaves it installed.                  *)
Install(c) ==
  /\ IsInstall(c) /\ Goes(c, "create", "files") /\ Proceed(c)
  /\ \/ /\ Place(c) \notin pending \cup installed
        /\ installed' = installed \cup {Place(c)}
        /\ \/ IsDone(c) /\ UNCHANGED <<failed, faults>>
           \/ Fault /\ Fails(c, Package(c)) /\ UNCHANGED done
     \/ /\ IF Place(c) \in pending \cup installed THEN UNCHANGED faults ELSE Fault
        /\ Fails(c, Package(c))
        /\ UNCHANGED <<installed, done>>
  /\ UNCHANGED <<call, files, before, pending, others, initially>>

Answer(c) ==
  /\ files[c] = {} /\ todo[c] = <<>> /\ Goes(c, "files", "answered")
  /\ UNCHANGED <<call, files, todo, done, failed, before, database, bounds, initially>>

-----------------------------------------------------------------------------
(* The script, once it has its answer                                      *)

MayConfirm(c) == done[c] # <<>> /\ (failed[c] = <<>> \/ call[c].kind = "partial")

Decide(c) ==
  /\ call[c].kind \in {"script", "partial"}
  /\ Goes(c, "answered", IF MayConfirm(c) THEN "confirm" ELSE "gaveUp")
  /\ todo' = [todo EXCEPT ![c] = IF MayConfirm(c) THEN done[c] ELSE <<>>]
  /\ UNCHANGED <<call, files, done, failed, before, database, bounds, initially>>

(* POST /confirm, for one plugin after the other: one that is active is    *)
(* confirmed already, one that is not pending fails.                       *)
Confirm(c) ==
  /\ at[c] = "confirm" /\ todo[c] # <<>> /\ Proceed(c)
  /\ \/ /\ Place(c) \in pending
        /\ pending' = pending \ {Place(c)} /\ installed' = installed \cup {Place(c)}
        /\ UNCHANGED faults
     \/ (IF Place(c) \in pending THEN Fault ELSE UNCHANGED faults) /\ UNCHANGED database
  /\ UNCHANGED <<call, at, files, done, failed, before, others, initially>>

(* The answer lists what has failed, but the script does not look.         *)
Complete(c) ==
  /\ todo[c] = <<>> /\ Goes(c, "confirm", "completed")
  /\ UNCHANGED <<call, files, todo, done, failed, before, database, bounds, initially>>

-----------------------------------------------------------------------------
(* Meanwhile a pending plugin expires, or an installation is deleted.      *)
Other(x) ==
  /\ others < MaxOthers /\ others' = others + 1
  /\ x \in pending \cup installed
  /\ pending' = pending \ {x} /\ installed' = installed \ {x}
  /\ UNCHANGED <<progress, faults, initially>>

Next ==
  \/ \E x \in Places : Other(x)
  \/ \E c \in Calls :
       \/ \E kind \in Kinds, source \in Sources, batch \in Batches : Begin(c, kind, source, batch)
       \/ Snapshot(c) \/ Download(c) \/ TakeFile(c)
       \/ Parse(c) \/ Create(c) \/ CreateThrows(c) \/ Rollback(c) \/ Install(c) \/ Answer(c)
       \/ Decide(c) \/ Confirm(c) \/ Complete(c)

Spec == Init /\ [][Next]_vars

-----------------------------------------------------------------------------
(* Properties                                                              *)

Occurrences(x, seq) == Cardinality({i \in DOMAIN seq : seq[i] = x})

(* An answer accounts for all that was sent: each file is reported as a    *)
(* failure, once, or each of its packages is, once, as done or as failed,  *)
(* whichever of the others fail.                                           *)
Accounted ==
  \A c \in Calls : at[c] \in {"answered", "gaveUp", "confirm", "completed"} =>
    \A n \in DOMAIN call[c].batch :
      LET plugins == call[c].batch[n].plugins
          lost == Occurrences(<<n, "file">>, failed[c])
      IN \A p \in Plugins :
           /\ lost <= 1
           /\ Occurrences(<<n, p>>, done[c]) + Occurrences(<<n, p>>, failed[c])
                = (1 - lost) * Occurrences(p, plugins)

(* d failed with the plugin, which was not pending in the default source   *)
(* when d began, by a fault or because d's own source has it installed.    *)
RolledBack(d, p) ==
  /\ ~IsInstall(d) /\ <<System, p>> \notin before[d]
  /\ \E i \in DOMAIN failed[d] : failed[d][i][2] = p
  /\ faults > 0 \/ <<call[d].source, p>> \in installed

(* What was pending before all calls can still be confirmed, or was, in    *)
(* whatever source and whatever fails in uploads to it or to others; and so *)
(* can what a call reports as uploaded.  Excused: in the default source, a *)
(* plugin that an upload to any source, begun before it was pending, failed *)
(* with, for that one withdraws it.                                        *)
UploadsStand ==
  others = 0 =>
    /\ initially \subseteq pending \cup installed
    /\ \A c \in Calls : \A i \in DOMAIN done[c] :
         LET plugin == done[c][i][2] IN
         \/ <<call[c].source, plugin>> \in pending \cup installed
         \/ call[c].source = System /\ \E d \in Calls : RolledBack(d, plugin)

(* plugin-repo.port.ts: deletePendingPlugin takes the source, and the      *)
(* upload gives its own: it would withdraw nothing of another.             *)
RollbacksKeepToTheirSource ==
  [][\A c \in Calls : at[c] = "rollback" /\ at'[c] = "files" =>
       \A x \in pending \ pending' : x[1] = call[c].source]_vars
=============================================================================

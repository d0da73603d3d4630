---------------------------- MODULE ServerParts ----------------------------
(***************************************************************************)
(* The parts of the server that work for themselves, put together:         *)
(* PluginRepo, LocalFiles, PluginCatalog, PluginPackage, PackageUpload,    *)
(* FailureReport, ServerStartup, PodProcess.  A behaviour is one of one    *)
(* part, the others stay as they are: nothing is shared between them, and  *)
(* nothing is said of them together.  The parameters of each part are      *)
(* constants here; MCServerParts gives them small values.                  *)
(***************************************************************************)
EXTENDS PluginRepo, Sequences

-----------------------------------------------------------------------------
(* The index.js of a plugin in the local storage of a node                 *)

CONSTANTS FileCalls, MaxFileFaults, MaxPrunes
FileRecord == [by : FileCalls, whole : BOOLEAN]
ASSUME FilesAssumption == FileCalls # {} /\ None \notin FileCalls /\ None \notin FileRecord
VARIABLES fileAt, releasing, directory, file, meta, lock, faults, prunes, robbed

F == INSTANCE LocalFiles WITH Calls <- FileCalls, MaxFaults <- MaxFileFaults, at <- fileAt
filesVars == <<fileAt, releasing, directory, file, meta, lock, faults, prunes, robbed>>

-----------------------------------------------------------------------------
(* What the API answers of what is installed                               *)

CONSTANTS Installed, Debugged, Plugins, Versions, PluginEtags, Tools, Tagged, Initially,
          MaxWrites
VARIABLES catalogAt, stored, sessions, enabled, query, stage, found, catalogPending, versions,
          answer, faulty, ever, always, latest, stayed, writes

C == INSTANCE PluginCatalog WITH
  Etags <- PluginEtags, at <- catalogAt, pending <- catalogPending
ASSUME CatalogAssumption ==
  /\ System \notin Debugged /\ Installed \cap Debugged = {}
  /\ Versions \subseteq Nat \ {0} /\ IsFiniteSet(Versions)
  /\ \A items \in Initially : items \subseteq {i \in C!Items : i.source \in C!Stored}
catalogVars ==
  <<catalogAt, stored, sessions, enabled, query, stage, found, catalogPending, versions,
    answer, faulty, ever, always, latest, stayed, writes>>

-----------------------------------------------------------------------------
(* A plugin from its source directory to the files of the server           *)

CONSTANTS Children, Dotted, Root, SourceDirectories, MaxEdits
VARIABLES source, code, plan, packageAt, packing, dist, pkg, uploaded, edits, edited

K == INSTANCE PluginPackage WITH
  Sources <- SourceDirectories, at <- packageAt, stored <- uploaded
ASSUME PackageAssumption == SourceDirectories \subseteq K!Directories
packageVars == <<source, code, plan, packageAt, packing, dist, pkg, uploaded, edits, edited>>

-----------------------------------------------------------------------------
(* Uploads and installations of several packages                           *)

CONSTANTS UploadCalls, UploadPlugins, Batches, MaxUploadFaults, MaxOthers
ASSUME UploadAssumption ==
  Batches \subseteq Seq([zip : BOOLEAN, plugins : Seq(UploadPlugins)]) /\ "file" \notin UploadPlugins
VARIABLES batch, uploadAt, packages, todo, done, failed, before, pending, installed,
          uploadFaults, others, initially

U == INSTANCE PackageUpload WITH
  Calls <- UploadCalls, Plugins <- UploadPlugins, MaxFaults <- MaxUploadFaults,
  call <- batch, at <- uploadAt, files <- packages, faults <- uploadFaults
uploadVars ==
  <<batch, uploadAt, packages, todo, done, failed, before, pending, installed,
    uploadFaults, others, initially>>

-----------------------------------------------------------------------------
(* The way of an error to who is told of it                                *)

CONSTANT Messages
VARIABLES report, error, raised, from, told

E == INSTANCE FailureReport WITH stage <- report
ASSUME ReportAssumption ==
  /\ Messages \in Seq(STRING)
  /\ None \notin E!Registered \cup {"INTERNAL_ERROR", "REQUEST_TIMEOUT", "QUEUE_TIMEOUT"}
reportVars == <<report, error, raised, from, told>>

-----------------------------------------------------------------------------
(* The nodes of the server from start to exit                              *)

CONSTANTS Nodes, Releases, StaticKinds, Logos, MaxStarts, MaxServerFaults
ASSUME ServerAssumption == None \notin Releases
VARIABLES serverAt, release, starting, attempts, connected, job, left, templates, listening,
          stopping, request, digest, logosStored, starts, serverFaults, torn

S == INSTANCE ServerStartup WITH
  Kinds <- StaticKinds, MaxFaults <- MaxServerFaults,
  at <- serverAt, todo <- starting, stored <- logosStored, faults <- serverFaults
serverVars ==
  <<serverAt, release, starting, attempts, connected, job, left, templates, listening,
    stopping, request, digest, logosStored, starts, serverFaults, torn>>

-----------------------------------------------------------------------------
(* The process of a pod                                                    *)

CONSTANT MaxActive
ASSUME PodAssumption == MaxActive \in Nat
VARIABLES start, status, active, process, main, helper, stubborn, forceKill, channel, podDirectory,
          inFleet, killed, unclean

P == INSTANCE PodProcess WITH directory <- podDirectory, held <- inFleet
podVars ==
  <<start, status, active, process, main, helper, stubborn, forceKill, channel, podDirectory,
    inFleet, killed, unclean>>

-----------------------------------------------------------------------------
(* One of them at a time                                                   *)

VARIABLE part

repoVars == vars
allVars ==
  <<part, repoVars, filesVars, catalogVars, packageVars, uploadVars, reportVars, serverVars, podVars>>

Parts == {"repository", "files", "catalog", "package", "upload", "report", "server", "pod"}

PartsInit ==
  /\ part \in Parts
  /\ Init /\ F!Init /\ C!Init /\ K!Init /\ U!Init /\ E!Init /\ S!Init /\ P!Init

(* All that is not of the part stays as it is.                             *)
Others(own) ==
  /\ UNCHANGED part
  /\ own # "repository" => UNCHANGED repoVars
  /\ own # "files" => UNCHANGED filesVars
  /\ own # "catalog" => UNCHANGED catalogVars
  /\ own # "package" => UNCHANGED packageVars
  /\ own # "upload" => UNCHANGED uploadVars
  /\ own # "report" => UNCHANGED reportVars
  /\ own # "server" => UNCHANGED serverVars
  /\ own # "pod" => UNCHANGED podVars

PartsNext ==
  \/ part = "repository" /\ Next /\ Others(part)
  \/ part = "files" /\ F!Next /\ Others(part)
  \/ part = "catalog" /\ C!Next /\ Others(part)
  \/ part = "package" /\ K!Next /\ Others(part)
  \/ part = "upload" /\ U!Next /\ Others(part)
  \/ part = "report" /\ E!Next /\ Others(part)
  \/ part = "server" /\ S!Next /\ Others(part)
  \/ part = "pod" /\ P!Next /\ Others(part)

PartsSpec == PartsInit /\ [][PartsNext]_allVars

-----------------------------------------------------------------------------
(* Their properties                                                        *)

(* LocalFiles: one writer at a time, and no save or deletion leaves a file *)
(* that cannot be used.                                                    *)
FilesStand == F!OneWriter /\ F!LeavesUsable

(* PluginCatalog: what an answer names was there at some time of the       *)
(* query, and what was there all the time is named.                        *)
AnswersAreCurrent == C!NothingInvented /\ C!NothingMissed

(* PluginPackage: icons and READMEs shown have files behind them.          *)
IconsResolve == K!IconsResolve
(* PluginPackage: a package holds what the directory held.                 *)
PacksAreFresh == K!PacksAreFresh

(* PackageUpload: an answer accounts for all that was sent.                *)
Accounted == U!Accounted
(* PackageUpload: what is reported as uploaded, or was before, stays,      *)
(* unless an upload that overlapped withdrew it.                           *)
UploadsStand == U!UploadsStand

(* FailureReport: who is told of a failure can find its causes.            *)
FailuresAreTold == E!FailuresAreTold

(* PodProcess: a pod takes requests only while nothing is done to end it,  *)
(* and leaves neither processes nor its directory.                         *)
PodsLeaveNothing == P!PodsLeaveNothing

(* ServerStartup: a node that serves is ready to, and none gets stuck.     *)
ServesWhenReady == S!ServesWhenReady /\ S!NeverStuck
=============================================================================

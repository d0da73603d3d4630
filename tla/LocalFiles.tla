---------------------------- MODULE LocalFiles ----------------------------
(***************************************************************************)
(* The index.js of a plugin in the local file storage of a node:           *)
(* getPluginById (plugin.repo.ts), which downloads it when it is not there, *)
(* over LocalFileStorageRepo (local-file-storage.repo.ts, utils.ts), with  *)
(* pruneDisabled, which removes the directory of the plugin.  The          *)
(* registrations of a plugin that overlap on a node are calls that overlap *)
(* here.  initialize() empties the storage when the server starts.         *)
(*                                                                         *)
(* Abstracted: content (all calls write the same bytes of the remote       *)
(* file), file names, MIME types and hashes; the three removals of         *)
(* cleanupFileArtifacts are one step.                                      *)
(***************************************************************************)
EXTENDS Integers

CONSTANTS
  Calls,      \* calls of getPluginById, for one plugin
  MaxFaults,  \* bound: downloads that fail
  MaxPrunes,  \* bound: times the plugin is pruned
  None        \* not a call

VARIABLES
  at,         \* what each call awaits
  releasing,  \* calls whose stream has closed, and whose lock is being removed
  directory,  \* the directory of the plugin exists
  file,       \* index.js: who truncated it last, and whether that call has written all
  meta,       \* index.js.meta.json exists
  lock,       \* index.js.lock: the call that created it
  faults, prunes,
  robbed      \* history: calls whose lock was removed by another

vars == <<at, releasing, directory, file, meta, lock, faults, prunes, robbed>>
storage == <<directory, file, meta, lock>>
bounds == <<faults, prunes>>

(* "exists", "fetch", "found": getPluginById;  "check", "lock", "meta",    *)
(* "clean": save;  "open", "write": the stream of getWriteStream.          *)
Places == {"exists", "fetch", "found", "check", "lock", "open", "write", "meta", "clean",
           "ok", "failed"}

Init ==
  /\ at = [c \in Calls |-> "exists"] /\ releasing = {}
  /\ directory = FALSE /\ file = None /\ meta = FALSE /\ lock = None
  /\ faults = 0 /\ prunes = 0 /\ robbed = {}

Moves(c, from, to) == at[c] = from /\ at' = [at EXCEPT ![c] = to]
Fault == faults < MaxFaults /\ faults' = faults + 1

(* rm of the lock, whose ever it is.                                       *)
Unlock(c) == lock' = None /\ robbed' = robbed \cup ({lock} \ {c, None})

-----------------------------------------------------------------------------
(* getPluginById                                                           *)

Exists(c) ==
  /\ Moves(c, "exists", IF file # None THEN "found" ELSE "fetch")
  /\ UNCHANGED <<releasing, storage, bounds, robbed>>

(* getFileObject: the file that was there is opened for its metadata.      *)
Found(c) ==
  /\ Moves(c, "found", IF file # None THEN "ok" ELSE "failed")
  /\ UNCHANGED <<releasing, storage, bounds, robbed>>

(* The remote file and its stream.                                         *)
Fetch(c) ==
  /\ \/ Moves(c, "fetch", "check") /\ UNCHANGED faults
     \/ Moves(c, "fetch", "failed") /\ Fault
  /\ UNCHANGED <<releasing, storage, prunes, robbed>>

-----------------------------------------------------------------------------
(* save, getWriteStream, saveFileAndGetMeta                                *)

(* A file that has appeared meanwhile is an error, and not touched; the    *)
(* directory is made.                                                      *)
Check(c) ==
  /\ Moves(c, "check", IF file # None THEN "failed" ELSE "lock")
  /\ directory' = (directory \/ file = None)
  /\ UNCHANGED <<releasing, file, meta, lock, bounds, robbed>>

LockIgnoring(c) == \* mutant: a lock that is there already is taken over
  /\ Moves(c, "lock", "open")
  /\ directory' = TRUE /\ lock' = c
  /\ UNCHANGED <<releasing, file, meta, bounds, robbed>>

LockThrowing(c) == \* mutant: the lock error is thrown, and cleaned up after
  /\ Moves(c, "lock", IF lock = None THEN "open" ELSE "clean")
  /\ directory' = TRUE
  /\ lock' = IF lock = None THEN c ELSE lock
  /\ UNCHANGED <<releasing, file, meta, bounds, robbed>>

(* open(lockPath, 'wx'): a lock that is there is an error, and left alone. *)
Lock(c) ==
  /\ Moves(c, "lock", IF lock = None THEN "open" ELSE "failed")
  /\ directory' = TRUE
  /\ lock' = IF lock = None THEN c ELSE lock
  /\ UNCHANGED <<releasing, file, meta, bounds, robbed>>

(* createWriteStream opens the file and truncates it, or fails.            *)
Open(c) ==
  /\ Moves(c, "open", IF directory THEN "write" ELSE "clean")
  /\ file' = IF directory THEN [by |-> c, whole |-> FALSE] ELSE file
  /\ releasing' = IF directory THEN releasing ELSE releasing \cup {c}
  /\ UNCHANGED <<directory, meta, lock, bounds, robbed>>

(* The pipeline ends or fails; the stream is closed in either case.        *)
Write(c) ==
  /\ \/ /\ Moves(c, "write", "meta")
        /\ file' = IF file # None /\ file.by = c THEN [file EXCEPT !.whole = TRUE] ELSE file
        /\ UNCHANGED faults
     \/ Moves(c, "write", "clean") /\ Fault /\ UNCHANGED file
  /\ releasing' = releasing \cup {c}
  /\ UNCHANGED <<directory, meta, lock, prunes, robbed>>

(* release: nobody waits for it.                                           *)
Release(c) ==
  /\ c \in releasing
  /\ releasing' = releasing \ {c}
  /\ Unlock(c)
  /\ UNCHANGED <<at, directory, file, meta, bounds>>

WriteMeta(c) ==
  /\ Moves(c, "meta", IF directory THEN "ok" ELSE "clean")
  /\ meta' = directory
  /\ UNCHANGED <<releasing, directory, file, lock, bounds, robbed>>

(* cleanupFileArtifacts: the file, its metadata and its lock, whose ever   *)
(* they are by now.                                                        *)
Clean(c) ==
  /\ Moves(c, "clean", "failed")
  /\ file' = None /\ meta' = FALSE /\ Unlock(c)
  /\ UNCHANGED <<releasing, directory, bounds>>

-----------------------------------------------------------------------------
(* pruneDisabled: deletePath of the directory.                             *)
Prune ==
  /\ prunes < MaxPrunes /\ prunes' = prunes + 1
  /\ directory' = FALSE /\ file' = None /\ meta' = FALSE /\ Unlock(None)
  /\ UNCHANGED <<at, releasing, faults>>

Next ==
  \/ Prune
  \/ \E c \in Calls :
       \/ Exists(c) \/ Found(c) \/ Fetch(c)
       \/ Check(c) \/ Lock(c) \/ Open(c) \/ Write(c) \/ Release(c) \/ WriteMeta(c) \/ Clean(c)

Spec == Init /\ [][Next]_vars

-----------------------------------------------------------------------------
(* Properties                                                              *)

(* Every variable holds what its declaration says.                         *)
TypeOK ==
  /\ at \in [Calls -> Places] /\ releasing \subseteq Calls
  /\ file \in [by : Calls, whole : BOOLEAN] \cup {None} /\ lock \in Calls \cup {None}
  /\ {directory, meta} \subseteq BOOLEAN /\ (file # None => directory)
  /\ faults \in 0..MaxFaults /\ prunes \in 0..MaxPrunes /\ robbed \subseteq Calls

(* The lock keeps the calls that write the file apart.  Excused: one whose *)
(* lock was removed by the cleanup of another, by a lock another removes   *)
(* late, or with the directory.                                            *)
OneWriter ==
  \A c, d \in Calls :
    c # d /\ {at[c], at[d]} \subseteq {"open", "write"} => c \in robbed \/ d \in robbed

(* A file that is not whole is one that a call still writes, or will       *)
(* remove: the next registration of the plugin never finds the half of a   *)
(* file.                                                                   *)
HalvesAreTemporary ==
  file # None /\ ~file.whole => at[file.by] \in {"write", "clean"}

Over == (\A c \in Calls : at[c] \in {"ok", "failed"}) /\ releasing = {}

(* Half files are temporary.  When all calls are over, no lock is left: it *)
(* would keep the plugin from being registered on this node until the      *)
(* server restarts.  And calls that overlap do not all fail, nor remove    *)
(* what the one that wrote the file has returned, unless a download failed *)
(* or the plugin was pruned.                                               *)
LeavesUsable ==
  /\ HalvesAreTemporary
  /\ Over =>
       /\ lock = None
       /\ faults = 0 /\ prunes = 0 =>
            file # None /\ file.whole /\ \E c \in Calls : at[c] = "ok"
=============================================================================

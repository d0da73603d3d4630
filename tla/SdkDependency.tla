--------------------------- MODULE SdkDependency ---------------------------
(***************************************************************************)
(* The SDK in the node_modules of the runtime root, which all plugins      *)
(* share: ensureSdkFactoryRuntimeDependency (sdk-factory-runtime.ts), that *)
(* every service calls when it is initialised, the server initialising     *)
(* some at once; and the start of its pod, which may read the package and  *)
(* what it depends on (pod/index.ts).  One step per call of the file       *)
(* system, each of which may come between those of another service.        *)
(*                                                                         *)
(* The package is a package.json and a directory dist with a file.         *)
(* Abstracted: where the package is found, and that a copy is removed file *)
(* by file.                                                                *)
(***************************************************************************)
EXTENDS FiniteSets

CONSTANTS
  Services,
  CanLink,      \* the system lets the server make symbolic links
  Packages, Sdk,
  Declared,     \* Declared[p]: the dependencies package.json of p declares
  Installed     \* the packages that can be resolved

VARIABLES
  at,           \* a service: what it does next
  tasks,        \* copyDirectory: what it has still to do, all at once
  sdk,          \* what there is of the package
  target        \* node_modules/@fastgpt-plugin/sdk-factory: nothing, a link, or a copy

vars == <<at, tasks, sdk, target>>

Parts == {"package.json", "dist", "file"}
Nothing == [kind |-> "none", has |-> {}]
Link == [kind |-> "link", has |-> {}]
Copy(parts) == [kind |-> "copy", has |-> parts]

Init ==
  /\ at = [s \in Services |-> "idle"] /\ tasks = [s \in Services |-> {}]
  /\ sdk = Parts /\ target = Nothing

Goes(s, from, to) == at[s] = from /\ at' = [at EXCEPT ![s] = to]

(* What is seen, and written, under the path of the target: a link leads   *)
(* to the package itself.                                                  *)
Contents == IF target.kind = "link" THEN sdk ELSE target.has
Write(parts) ==
  IF target.kind = "link" THEN sdk' = parts /\ UNCHANGED target
  ELSE target' = Copy(parts) /\ UNCHANGED sdk

-----------------------------------------------------------------------------
(* packagePointsToSource: there is a package.json, and it is the package's *)
Check(s) ==
  /\ Goes(s, "idle", IF target.kind = "link" /\ "package.json" \in sdk THEN "ensured" ELSE "remove")
  /\ UNCHANGED <<tasks, sdk, target>>

Remove(s) ==
  /\ Goes(s, "remove", "link") /\ target' = Nothing
  /\ UNCHANGED <<tasks, sdk>>

(* symlink fails if there is something: the package is copied then.        *)
MakeLink(s) ==
  /\ \/ CanLink /\ target = Nothing /\ Goes(s, "link", "ensured") /\ target' = Link
     \/ (~CanLink \/ target # Nothing) /\ Goes(s, "link", "clear") /\ UNCHANGED target
  /\ UNCHANGED <<tasks, sdk>>

-----------------------------------------------------------------------------
(* copyDirectory, of the package and then of dist in it                    *)

Clear(s) ==
  /\ Goes(s, "clear", "make") /\ target' = Nothing
  /\ UNCHANGED <<tasks, sdk>>

(* mkdir of a directory that is there, or linked, is no error.             *)
MakeDirectory(s) ==
  /\ Goes(s, "make", "list")
  /\ target' = IF target = Nothing THEN Copy({}) ELSE target
  /\ UNCHANGED <<tasks, sdk>>

List(s) ==
  /\ Goes(s, "list", "copy")
  /\ tasks' = [tasks EXCEPT ![s] =
       (sdk \cap {"package.json"}) \cup IF "dist" \in sdk THEN {"clear dist"} ELSE {}]
  /\ UNCHANGED <<sdk, target>>

(* The next task, or the end of the whole with an error, though the other  *)
(* tasks go on.                                                            *)
Does(s, task, next) == task \in tasks[s] /\ tasks' = [tasks EXCEPT ![s] = (@ \ {task}) \cup next]
Throws(s) == at' = [at EXCEPT ![s] = "failed"]

(* copyFile needs the file and the directory it goes to; a file copied     *)
(* onto itself stays as it is.                                             *)
CopyFile(s, file, directory) ==
  /\ Does(s, file, {})
  /\ IF file \in sdk /\ directory
     THEN Write(Contents \cup {file}) /\ UNCHANGED at
     ELSE Throws(s) /\ UNCHANGED <<sdk, target>>

ClearDist(s) ==
  /\ Does(s, "clear dist", {"make dist"})
  /\ IF target = Nothing THEN UNCHANGED <<sdk, target>> ELSE Write(Contents \ {"dist", "file"})
  /\ UNCHANGED at
MakeDist(s) ==
  /\ Does(s, "make dist", {"list dist"})
  /\ Write(Contents \cup {"dist"})
  /\ UNCHANGED at
ListDist(s) ==
  /\ Does(s, "list dist", sdk \cap {"file"})
  /\ IF "dist" \in sdk THEN UNCHANGED at ELSE Throws(s)
  /\ UNCHANGED <<sdk, target>>

Copied(s) ==
  /\ tasks[s] = {} /\ Goes(s, "copy", "ensured")
  /\ UNCHANGED <<tasks, sdk, target>>

-----------------------------------------------------------------------------
(* collectRuntimeReadPaths: the package, and whatever is declared by what  *)
(* was found already; nothing if there is no package.                      *)
Found(p) == Declared[p] \cap Installed
ReadPaths ==
  IF Contents = {} THEN {}
  ELSE {p \in Packages :
          \A paths \in SUBSET Packages :
            Sdk \in paths /\ (\A q \in paths : Found(q) \subseteq paths) => p \in paths}

(* The process imports the SDK, and ends if it cannot.                     *)
PodStarts(s) ==
  /\ Goes(s, "ensured", IF Contents = Parts /\ Installed \subseteq ReadPaths THEN "ready" ELSE "broken")
  /\ UNCHANGED <<tasks, sdk, target>>

-----------------------------------------------------------------------------
Ensure(s) ==
  \/ Check(s) \/ Remove(s) \/ MakeLink(s)
  \/ Clear(s) \/ MakeDirectory(s) \/ List(s)
  \/ CopyFile(s, "package.json", target # Nothing) \/ CopyFile(s, "file", "dist" \in Contents)
  \/ ClearDist(s) \/ MakeDist(s) \/ ListDist(s) \/ Copied(s)

Next == \E s \in Services : Ensure(s) \/ PodStarts(s)

Spec == Init /\ [][Next]_vars

-----------------------------------------------------------------------------
(* Properties                                                              *)

Ensuring(s) == at[s] \notin {"idle", "ensured", "ready", "broken", "failed"} \/ tasks[s] # {}

(* Every variable holds what its declaration says.                         *)
TypeOK ==
  /\ at \in [Services -> {"idle", "remove", "link", "clear", "make", "list", "copy",
                          "ensured", "failed", "ready", "broken"}]
  /\ tasks \in [Services -> SUBSET (Parts \cup {"clear dist", "make dist", "list dist"})]
  /\ sdk \subseteq Parts /\ target.kind \in {"none", "link", "copy"} /\ target.has \subseteq Parts

(* sdk-factory-runtime.test.ts:33: ensuring creates a resolvable package   *)
(* in the node_modules of the runtime root: it is there, and whole, once   *)
(* a service has ensured it and no other is about to.                      *)
ResolvableOnceEnsured ==
  (\E s \in Services : at[s] \in {"ensured", "ready", "broken"}) /\ ~(\E s \in Services : Ensuring(s)) =>
    Contents = Parts
=============================================================================

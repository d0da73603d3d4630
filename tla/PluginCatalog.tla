--------------------------- MODULE PluginCatalog ---------------------------
(***************************************************************************)
(* What is installed, as the API answers it: the plugin list, the list of  *)
(* tools, the versions of a plugin and the details of a tool.  A query     *)
(* reads the installations and then the plugins of the database in two     *)
(* reads that no transaction ties together (plugin.repo.ts), or asks the   *)
(* gateway for the plugins of the sources in debugging, which               *)
(* DebugPluginRepoOverlay (debug-plugin.repo.ts) adds to it; the details   *)
(* of a tool (tool.impl.ts) take up to three such calls.  Installations    *)
(* and debugging sessions come and go in between.                          *)
(*                                                                         *)
(* Abstracted: the fields of a plugin (its etag stands for its content),   *)
(* the order of a list, versions (comparable numbers: Semver compares      *)
(* those of three numbers), texts of errors.  How an installation is       *)
(* written, in transactions, is module PluginRepo; how a session comes and *)
(* goes, ConnectionGateway.                                                *)
(***************************************************************************)
EXTENDS Integers, FiniteSets, FiniteSetsExt

CONSTANTS
  System,      \* the source "system", the default
  Installed,   \* other sources of installed plugins
  Debugged,    \* sources in debugging
  Plugins,
  Versions,    \* numbers, 0 aside
  Etags,
  Tools,       \* the etags of plugins of the type a query may ask for
  Tagged,      \* the etags of plugins with the tag a query may ask for
  Initially,   \* what is installed when the model starts: a set of choices
  MaxWrites    \* bound: changes of installations and sessions

Any == 0      \* no version given
Stored == {System} \cup Installed
Contents == [plugin : Plugins, version : Versions, etag : Etags]
Items == [source : Stored \cup Debugged, plugin : Plugins, version : Versions, etag : Etags]

VARIABLES
  stored,     \* the active installations; their plugins are active
  sessions,   \* the connected sessions: source, and the plugins of its metadata
  enabled,    \* REMOTE_DEBUG and the URL of the gateway are configured
  query,      \* the query
  at,         \* what it awaits
  stage,      \* the call of the repository it is in
  found,      \* what the call has read
  pending,    \* sources whose sessions it still has to read
  versions,   \* the versions that the details of a tool have listed
  answer,
  faulty,     \* history: a read has failed
  ever, always, \* history: what was visible at some time, and all the time,
  latest, stayed, \* since the query began; and what was a latest version then
  writes

database == <<stored, sessions, enabled, writes>>
progress == <<query, at, stage, found, pending, versions, answer, faulty>>
history == <<ever, always, latest, stayed>>
vars == <<database, progress, history>>

(* The sources are a set for "list", one source for the others; op makes   *)
(* no difference unless there are two filters.                             *)
Query(kinds, sources, filters, vs, fallbacks) ==
  {q \in [kind : kinds, sources : sources, types : filters, tags : filters, op : {"and", "or"},
          plugin : Plugins, version : vs, fallback : fallbacks] :
     q.op = "or" => q.types /\ q.tags}

Queries ==
  LET one == {{s} : s \in Stored \cup Debugged}
  IN Query({"list"}, SUBSET (Stored \cup Debugged), BOOLEAN, {Any}, {FALSE})
     \cup Query({"versions"}, one, {FALSE}, {Any}, {FALSE})
     \cup Query({"get"}, one, {FALSE}, {Any} \cup Versions, {FALSE})
     \cup Query({"detail"}, one, {FALSE}, {Any} \cup Versions, BOOLEAN)

NoQuery == [kind |-> "none", sources |-> {}, version |-> Any]

(* pickDebugMetadata, toPlugin: the plugins that sessions describe.        *)
InDebug(se) ==
  {i \in Items : \E s \in se :
     s.source = i.source /\ [plugin |-> i.plugin, version |-> i.version, etag |-> i.etag] \in s.targets}

NewestOrNot(items) == items \* mutant: no comparison

(* Semver.compare: of each source and plugin, the highest version.         *)
Newest(items) ==
  {i \in items : \A j \in items : j.source = i.source /\ j.plugin = i.plugin => j.version <= i.version}

(* For the history: what is the latest version of its plugin.              *)
LatestOf(items) ==
  {i \in items : i.version = Max({j.version : j \in {j \in items : j.source = i.source /\ j.plugin = i.plugin}})}

Init ==
  /\ stored \in Initially /\ sessions = {} /\ enabled \in BOOLEAN /\ writes = 0
  /\ query = NoQuery /\ at = "new" /\ stage = "none" /\ found = {} /\ pending = {}
  /\ versions = {} /\ answer = [st |-> "none", items |-> {}, latest |-> FALSE] /\ faulty = FALSE
  /\ ever = {} /\ always = {} /\ latest = {} /\ stayed = {}

-----------------------------------------------------------------------------
(* What a call of the repository selects                                   *)

(* No source given: the default.                                           *)
Wanted(q) == IF q.sources = {} THEN {System} ELSE q.sources
Asked(i) == i.source \in Wanted(query) /\ (query.kind = "list" \/ i.plugin = query.plugin)

MatchesOther(i) == \* mutant: and and or swapped
  LET asked == (IF query.types THEN {i.etag \in Tools} ELSE {})
               \cup (IF query.tags THEN {i.etag \in Tagged} ELSE {})
  IN asked # {} => IF query.op = "and" THEN TRUE \in asked ELSE FALSE \notin asked

(* Both filters must hold or, if asked for, one of them.                   *)
Matches(i) ==
  LET asked == (IF query.types THEN {i.etag \in Tools} ELSE {})
               \cup (IF query.tags THEN {i.etag \in Tagged} ELSE {})
  IN asked # {} => IF query.op = "or" THEN TRUE \in asked ELSE FALSE \notin asked

(* The version a call asks for, and the installations it looks for.        *)
Version == IF stage = "fallback" THEN Max(versions) ELSE query.version

Selected ==
  LET asked == {i \in stored : Asked(i)}
  IN IF stage = "versions" THEN asked
     ELSE IF Version # Any THEN {i \in asked : i.version = Version}
     ELSE Newest(asked)

(* A plugin is active as long as some source has it installed.             *)
Active(i) == \E j \in stored : [j EXCEPT !.source = i.source] = i

-----------------------------------------------------------------------------
(* How calls follow each other                                             *)

(* To the database, unless all sources are in debugging.                   *)
Consults(call, q) ==
  /\ stage' = call
  /\ found' = {}
  /\ pending' = Wanted(q) \cap Debugged
  /\ at' = IF Wanted(q) \cap Stored # {} THEN "installations" ELSE "sessions"

Ends(st, items, isLatest) ==
  /\ at' = "answered"
  /\ answer' = [st |-> st, items |-> items, latest |-> isLatest]
  /\ found' = {} /\ pending' = {}
  /\ UNCHANGED <<stage, versions>>

(* ToolManager.detail: getLatestVersion of those listed before; and the    *)
(* latest version in place of one that is not there.                       *)
IsLatest(item) ==
  IF versions = {} THEN query.version = Any ELSE item.version = Max(versions)

FallsBack == query.kind = "detail" /\ query.fallback /\ query.version # Any /\ versions # {}

(* A call returns the list, the versions, or one plugin if there is one.   *)
Returns(items) ==
  \/ /\ stage = "list" \/ (stage = "versions" /\ query.kind = "versions")
     /\ Ends("ok", items, FALSE)
  \/ /\ stage = "versions" /\ query.kind = "detail"
     /\ versions' = {i.version : i \in items}
     /\ Consults("tool", query)
     /\ UNCHANGED answer
  \/ /\ stage = "tool" /\ items # {}
     /\ Ends("ok", items, query.kind = "detail" /\ \A i \in items : IsLatest(i))
  \/ /\ stage = "tool" /\ items = {} /\ FallsBack
     /\ Consults("fallback", query)
     /\ UNCHANGED <<versions, answer>>
  \/ /\ stage = "tool" /\ items = {} /\ ~FallsBack
     /\ Ends("absent", {}, FALSE)
  \/ /\ stage = "fallback"
     /\ Ends(IF items = {} THEN "absent" ELSE "ok", items, items # {})

(* The database has been read; the sessions are next, if there are any.    *)
Reads(items) ==
  \/ pending = {} /\ Returns(items)
  \/ pending # {} /\ at' = "sessions" /\ found' = items
     /\ UNCHANGED <<stage, pending, versions, answer>>

-----------------------------------------------------------------------------
(* The steps of a query                                                    *)

FirstCall(q) == CASE q.kind = "list" -> "list" [] q.kind = "get" -> "tool" [] OTHER -> "versions"

(* A source in debugging is refused where debugging is not configured.     *)
Ask(q) ==
  /\ at = "new"
  /\ query' = q
  /\ IF Wanted(q) \cap Debugged # {} /\ ~enabled
     THEN Ends("failed", {}, FALSE)
     ELSE Consults(FirstCall(q), q) /\ UNCHANGED <<versions, answer>>
  /\ LET now == stored \cup InDebug(sessions)
     IN ever' = now /\ always' = now /\ latest' = LatestOf(now) /\ stayed' = LatestOf(now)
  /\ UNCHANGED <<faulty, database>>

(* find of the active installations: without any, the plugins are not      *)
(* asked for.                                                              *)
FindInstallations ==
  /\ at = "installations"
  /\ IF Selected = {} THEN Reads({})
     ELSE at' = "plugins" /\ found' = Selected /\ UNCHANGED <<stage, pending, versions, answer>>
  /\ UNCHANGED <<query, faulty, database, history>>

(* find of their plugins.                                                  *)
FindPlugins ==
  /\ at = "plugins"
  /\ Reads({i \in found : Active(i) /\ Matches(i)})
  /\ UNCHANGED <<query, faulty, database, history>>

(* getDebugMetadataValue, in any order for the sources of a list.  A list  *)
(* leaves out a source that has no session, or whose session cannot be     *)
(* read (down), and does not filter; elsewhere no plugin is an error.      *)
ReadSession(s, down) ==
  /\ at = "sessions" /\ s \in pending
  /\ LET there == IF down THEN {} ELSE {i \in InDebug(sessions) : i.source = s /\ Asked(i)}
     IN IF pending # {s}
        THEN /\ found' = found \cup there /\ pending' = pending \ {s}
             /\ UNCHANGED <<at, stage, versions, answer>>
        ELSE IF stage = "versions" /\ there = {}
        THEN Ends("absent", {}, FALSE)
        ELSE Returns(found \cup there)
  /\ faulty' = (faulty \/ down)
  /\ UNCHANGED <<query, database, history>>

(* A read of the database fails.                                           *)
ReadFails ==
  /\ at \in {"installations", "plugins"}
  /\ Ends("failed", {}, FALSE)
  /\ UNCHANGED <<query, faulty, database, history>>

-----------------------------------------------------------------------------
(* Installations and sessions change                                       *)

Changes ==
  /\ at # "answered" /\ writes < MaxWrites /\ writes' = writes + 1
  /\ LET now == stored' \cup InDebug(sessions')
     IN IF at = "new" THEN UNCHANGED history
        ELSE /\ ever' = ever \cup now /\ always' = always \cap now
             /\ latest' = latest \cup LatestOf(now) /\ stayed' = stayed \cap LatestOf(now)
  /\ UNCHANGED <<enabled, progress>>

(* A version of a plugin is installed, in place of its former content.     *)
Install(i) ==
  /\ stored' = {j \in stored : [j EXCEPT !.etag = i.etag] # i} \cup {i}
  /\ UNCHANGED sessions
  /\ Changes

Uninstall(i) ==
  /\ stored' = stored \ {i}
  /\ UNCHANGED sessions
  /\ Changes

(* A session ends, or one begins that has the plugins of the directory.    *)
SessionChanges(s, targets) ==
  /\ enabled
  /\ sessions' = {t \in sessions : t.source # s}
                 \cup (IF targets = {} THEN {} ELSE {[source |-> s, targets |-> targets]})
  /\ UNCHANGED stored
  /\ Changes

OnePerPlugin(targets) == \A t, u \in targets : t.plugin = u.plugin => t = u

Next ==
  \/ \E q \in Queries : Ask(q)
  \/ FindInstallations \/ FindPlugins \/ ReadFails
  \/ \E s \in Debugged, down \in BOOLEAN : ReadSession(s, down)
  \/ \E i \in {i \in Items : i.source \in Stored} : Install(i)
  \/ \E i \in stored : Uninstall(i)
  \/ \E s \in Debugged, ts \in {ts \in SUBSET Contents : OnePerPlugin(ts)} : SessionChanges(s, ts)

Spec == Init /\ [][Next]_vars

-----------------------------------------------------------------------------
(* Properties                                                              *)

(* What a filter lets pass: of types and tags, whichever are given.        *)
Passes(i) ==
  CASE query.types /\ query.tags /\ query.op = "or" -> i.etag \in Tools \cup Tagged
    [] OTHER -> (query.types => i.etag \in Tools) /\ (query.tags => i.etag \in Tagged)

(* What a query answers was true at some time while it ran, although its   *)
(* reads are not of one moment: all it names was installed or in           *)
(* debugging, a version that is listed or chosen as the latest was so, one *)
(* that is called the latest is not older than one that stayed installed,  *)
(* and what is listed from the database passes the filter.                 *)
NothingInvented ==
  /\ answer.items \subseteq {i \in ever : Asked(i)}
  /\ \A i \in answer.items :
       /\ query.kind # "versions" /\ query.version = Any => i \in latest
       /\ answer.latest => \A j \in always : Asked(j) => j.version <= i.version
       /\ query.version # Any /\ i.source \in Stored => i.version = query.version \/ answer.latest
       /\ i.source \in Stored => Passes(i)

(* What stayed installed, or in debugging, while a query ran is in its     *)
(* answer, unless a read fails: other installations that come and go hide  *)
(* nothing, and details do not call old what was the latest all the time.  *)
NothingMissed ==
  at = "answered" /\ answer.st # "failed" /\ ~faulty =>
    CASE query.kind = "list" ->
           {i \in stayed : Asked(i) /\ (i.source \in Debugged \/ Passes(i))} \subseteq answer.items
      [] query.kind = "versions" -> {i \in always : Asked(i)} \subseteq answer.items
      [] OTHER ->
           /\ answer.st = "absent" =>
                /\ \A i \in always : Asked(i) => i.version # query.version
                /\ query.version = Any \/ FallsBack => \A i \in stayed : ~Asked(i)
           /\ query.kind = "detail" /\ ~answer.latest => answer.items \cap stayed = {}
=============================================================================

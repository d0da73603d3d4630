------------------------- MODULE ServerPartsProofs -------------------------
(***************************************************************************)
(* What the parts of the server promise, for every value of their          *)
(* parameters: local files, queries, packages, uploads, errors, the nodes, *)
(* the processes of pods.  (Those of PluginRepo are in PluginRepoProofs.)      *)
(***************************************************************************)
EXTENDS ServerParts, FiniteSetTheorems, SequenceTheorems, WellFoundedInduction, TLAPS

(* A step is one of one part, and leaves the others as they are.           *)
LEMMA PartsStep ==
  ASSUME [PartsNext]_allVars
  PROVE  /\ [F!Next]_filesVars /\ [C!Next]_catalogVars /\ [K!Next]_packageVars /\ [U!Next]_uploadVars
         /\ [E!Next]_reportVars /\ [S!Next]_serverVars /\ [P!Next]_podVars
BY DEF PartsNext, Others, allVars

-----------------------------------------------------------------------------
(* LocalFiles                                                              *)

FilesTyped ==
  /\ fileAt \in [FileCalls -> F!Places] /\ releasing \subseteq FileCalls
  /\ file \in FileRecord \cup {None} /\ lock \in FileCalls \cup {None}
  /\ directory \in BOOLEAN
  /\ faults \in Nat /\ prunes \in Nat /\ robbed \subseteq FileCalls

(* A call that writes has the lock unless it was robbed of it, and has not *)
(* begun to give it back; a lock has an owner that will.                   *)
LocksAreHeld ==
  /\ \A c \in FileCalls :
       /\ fileAt[c] \in {"open", "write", "meta", "ok"} /\ (c \in releasing \/ fileAt[c] \in {"open", "write"}) =>
            lock = c \/ c \in robbed
       /\ c \in releasing => fileAt[c] \in {"meta", "ok", "clean", "failed"}
  /\ lock # None => fileAt[lock] \in {"open", "write"} \/ lock \in releasing

(* While no download fails and nothing is pruned: no call cleans up, and   *)
(* none is robbed; what is there stays; and once there is something one of *)
(* the calls has got through to the lock, and gets through to the end.     *)
GoesWell ==
  faults = 0 /\ prunes = 0 =>
    /\ robbed = {}
    /\ \A c \in FileCalls :
         /\ fileAt[c] # "clean" /\ (c \in releasing => fileAt[c] # "failed")
         /\ fileAt[c] \in {"open", "write"} => directory
         /\ fileAt[c] = "meta" => directory
         /\ fileAt[c] \in {"found", "write", "meta", "ok"} => file # None
    /\ \/ /\ file = None /\ lock = None
          /\ \A c \in FileCalls : fileAt[c] \in {"exists", "fetch", "check", "lock"}
       \/ \E c \in FileCalls : fileAt[c] \in {"open", "write", "meta", "ok"}

FilesInv == FilesTyped /\ LocksAreHeld /\ F!HalvesAreTemporary /\ GoesWell

LEMMA FilesInvSuffices ==
  ASSUME FilesInv PROVE F!OneWriter /\ F!LeavesUsable
<1>1. F!OneWriter
  BY DEF FilesInv, FilesTyped, LocksAreHeld, F!OneWriter
<1>2. ASSUME F!Over PROVE lock = None
  BY <1>2 DEF FilesInv, FilesTyped, LocksAreHeld, F!Over
<1>3. ASSUME F!Over, faults = 0, prunes = 0
      PROVE file # None /\ file.whole /\ \E c \in FileCalls : fileAt[c] = "ok"
  <2>1. PICK c \in FileCalls : fileAt[c] = "ok"
    BY <1>3, FilesAssumption DEF FilesInv, GoesWell, F!Over
  <2>2. file # None
    BY <1>3, <2>1 DEF FilesInv, GoesWell
  <2>3. file.by \in FileCalls /\ file.whole \in BOOLEAN
    BY <2>2 DEF FilesInv, FilesTyped, FileRecord
  <2>4. file.whole
    BY <1>3, <2>2, <2>3 DEF FilesInv, F!HalvesAreTemporary, F!Over
  <2>. QED
    BY <2>1, <2>2, <2>4
<1>. QED
  BY <1>1, <1>2, <1>3 DEF FilesInv, F!LeavesUsable

LEMMA FilesInvAtStart ==
  ASSUME F!Init PROVE FilesInv
BY FilesAssumption DEF F!Init, FilesInv, FilesTyped, F!Places, LocksAreHeld, F!HalvesAreTemporary, GoesWell

LEMMA FilesInvKept ==
  ASSUME FilesInv, [F!Next]_filesVars PROVE FilesInv'
<1> USE FilesAssumption DEF F!storage, F!bounds, F!Moves
<1>a. FilesTyped /\ LocksAreHeld /\ F!HalvesAreTemporary /\ GoesWell
  BY DEF FilesInv
<1>t. FilesTyped'
  <2>1. CASE F!Prune
    <3>1. robbed' \subseteq FileCalls /\ lock' = None
      BY <1>a, <2>1 DEF FilesTyped, F!Prune, F!Unlock
    <3>2. file' = None /\ directory' = FALSE /\ prunes' \in Nat /\ UNCHANGED <<fileAt, releasing, faults>>
      BY <1>a, <2>1 DEF FilesTyped, F!Prune
    <3>. QED
      BY <1>a, <3>1, <3>2 DEF FilesTyped
  <2>2. ASSUME NEW c \in FileCalls, F!Exists(c) \/ F!Found(c) \/ F!Fetch(c) \/ F!Check(c) PROVE FilesTyped'
    <3>1. fileAt' \in [FileCalls -> F!Places]
      BY <1>a, <2>2 DEF FilesTyped, F!Exists, F!Found, F!Fetch, F!Check, F!Places
    <3>2. faults' \in Nat
      BY <1>a, <2>2 DEF FilesTyped, F!Exists, F!Found, F!Fetch, F!Check, F!Fault
    <3>4. directory' = directory \/ directory' = (directory \/ file = None)
      BY <2>2 DEF F!Exists, F!Found, F!Fetch, F!Check
    <3>5. directory' \in BOOLEAN
      BY Zenon, <1>a, <3>4 DEF FilesTyped
    <3>3. UNCHANGED <<releasing, file, lock, prunes, robbed>>
      BY <2>2 DEF F!Exists, F!Found, F!Fetch, F!Check
    <3>. QED
      BY <1>a, <3>1, <3>2, <3>3, <3>5 DEF FilesTyped
  <2>3. ASSUME NEW c \in FileCalls, F!Lock(c) PROVE FilesTyped'
    BY <1>a, <2>3 DEF FilesTyped, F!Lock, F!Places
  <2>4. ASSUME NEW c \in FileCalls, F!Open(c) PROVE FilesTyped'
    BY <1>a, <2>4 DEF FilesTyped, F!Open, F!Places, FileRecord
  <2>5. ASSUME NEW c \in FileCalls, F!Write(c) PROVE FilesTyped'
    <3>1. fileAt' \in [FileCalls -> F!Places]
      BY <1>a, <2>5 DEF FilesTyped, F!Write, F!Places
    <3>2. file' \in FileRecord \cup {None}
      BY <1>a, <2>5 DEF FilesTyped, F!Write, FileRecord
    <3>3. faults' \in Nat /\ releasing' \subseteq FileCalls
      BY <1>a, <2>5 DEF FilesTyped, F!Write, F!Fault
    <3>4. UNCHANGED <<directory, lock, prunes, robbed>>
      BY <2>5 DEF F!Write
    <3>. QED
      BY <1>a, <3>1, <3>2, <3>3, <3>4 DEF FilesTyped
  <2>6. ASSUME NEW c \in FileCalls, F!Release(c) \/ F!WriteMeta(c) \/ F!Clean(c) PROVE FilesTyped'
    BY <1>a, <2>6 DEF FilesTyped, F!Release, F!WriteMeta, F!Clean, F!Unlock, F!Places
  <2>7. CASE UNCHANGED filesVars
    BY <1>a, <2>7 DEF filesVars, FilesTyped
  <2>. QED
    BY <2>1, <2>2, <2>3, <2>4, <2>5, <2>6, <2>7 DEF F!Next
<1>l. LocksAreHeld'
  <2>1. CASE F!Prune
    BY <1>a, <2>1 DEF FilesTyped, LocksAreHeld, F!Prune, F!Unlock
  <2>2. ASSUME NEW c \in FileCalls, F!Exists(c) \/ F!Found(c) \/ F!Fetch(c) \/ F!Check(c) PROVE LocksAreHeld'
    BY <1>a, <2>2 DEF FilesTyped, LocksAreHeld, F!Exists, F!Found, F!Fetch, F!Check, F!Fault
  <2>3. ASSUME NEW c \in FileCalls, F!Lock(c) PROVE LocksAreHeld'
    BY <1>a, <2>3 DEF FilesTyped, LocksAreHeld, F!Lock
  <2>4. ASSUME NEW c \in FileCalls, F!Open(c) PROVE LocksAreHeld'
    BY <1>a, <2>4 DEF FilesTyped, LocksAreHeld, F!Open
  <2>5. ASSUME NEW c \in FileCalls, F!Write(c) PROVE LocksAreHeld'
    BY <1>a, <2>5 DEF FilesTyped, LocksAreHeld, F!Write
  <2>6. ASSUME NEW c \in FileCalls, F!Release(c) PROVE LocksAreHeld'
    BY <1>a, <2>6 DEF FilesTyped, LocksAreHeld, F!Release, F!Unlock
  <2>7. ASSUME NEW c \in FileCalls, F!WriteMeta(c) \/ F!Clean(c) PROVE LocksAreHeld'
    BY <1>a, <2>7 DEF FilesTyped, LocksAreHeld, F!WriteMeta, F!Clean, F!Unlock
  <2>8. CASE UNCHANGED filesVars
    BY <1>a, <2>8 DEF filesVars, LocksAreHeld
  <2>. QED
    BY <2>1, <2>2, <2>3, <2>4, <2>5, <2>6, <2>7, <2>8 DEF F!Next
<1>h. F!HalvesAreTemporary'
  <2>1. CASE F!Prune
    BY <1>a, <2>1 DEF F!HalvesAreTemporary, F!Prune
  <2>2. ASSUME NEW c \in FileCalls, F!Exists(c) \/ F!Found(c) \/ F!Fetch(c) \/ F!Check(c) \/ F!Lock(c)
        PROVE F!HalvesAreTemporary'
    BY <1>a, <2>2 DEF FilesTyped, FileRecord, F!HalvesAreTemporary, F!Exists, F!Found, F!Fetch, F!Check, F!Lock
  <2>3. ASSUME NEW c \in FileCalls, F!Open(c) PROVE F!HalvesAreTemporary'
    BY <1>a, <2>3 DEF FilesTyped, FileRecord, F!HalvesAreTemporary, F!Open
  <2>4. ASSUME NEW c \in FileCalls, F!Write(c) PROVE F!HalvesAreTemporary'
    BY <1>a, <2>4 DEF FilesTyped, FileRecord, F!HalvesAreTemporary, F!Write
  <2>5. ASSUME NEW c \in FileCalls, F!Release(c) \/ F!WriteMeta(c) \/ F!Clean(c) PROVE F!HalvesAreTemporary'
    BY <1>a, <2>5 DEF FilesTyped, FileRecord, F!HalvesAreTemporary, F!Release, F!WriteMeta, F!Clean
  <2>6. CASE UNCHANGED filesVars
    BY <1>a, <2>6 DEF filesVars, F!HalvesAreTemporary
  <2>. QED
    BY <2>1, <2>2, <2>3, <2>4, <2>5, <2>6 DEF F!Next
<1>w. GoesWell'
  <2>. SUFFICES ASSUME faults' = 0, prunes' = 0 PROVE GoesWell'
    BY DEF GoesWell
  <2>1. CASE F!Prune
    BY <1>a, <2>1 DEF FilesTyped, F!Prune
  <2>2. ASSUME NEW c \in FileCalls, F!Exists(c) \/ F!Found(c) \/ F!Check(c) PROVE GoesWell'
    BY <1>a, <2>2 DEF FilesTyped, LocksAreHeld, GoesWell, F!Exists, F!Found, F!Check
  <2>3. ASSUME NEW c \in FileCalls, F!Fetch(c) PROVE GoesWell'
    BY <1>a, <2>3 DEF FilesTyped, LocksAreHeld, GoesWell, F!Fetch, F!Fault
  <2>4. ASSUME NEW c \in FileCalls, F!Lock(c) PROVE GoesWell'
    BY <1>a, <2>4 DEF FilesTyped, LocksAreHeld, GoesWell, F!Lock
  <2>5. ASSUME NEW c \in FileCalls, F!Open(c) PROVE GoesWell'
    <3>1. fileAt[c] = "open" /\ faults = 0 /\ prunes = 0 /\ UNCHANGED <<directory, lock, robbed>>
      BY <2>5 DEF F!Open
    <3>2. directory
      BY <1>a, <3>1 DEF GoesWell
    <3>4. [by |-> c, whole |-> FALSE] \in FileRecord
      BY DEF FileRecord
    <3>3. fileAt' = [fileAt EXCEPT ![c] = "write"] /\ releasing' = releasing /\ file' # None
      BY <2>5, <3>2, <3>4 DEF F!Open
    <3>. QED
      BY <1>a, <3>1, <3>2, <3>3 DEF FilesTyped, GoesWell
  <2>6. ASSUME NEW c \in FileCalls, F!Write(c) PROVE GoesWell'
    <3>1. faults = 0 /\ prunes = 0 /\ fileAt[c] = "write" /\ fileAt' = [fileAt EXCEPT ![c] = "meta"]
      BY <1>a, <2>6 DEF FilesTyped, F!Write, F!Fault
    <3>2. releasing' = releasing \cup {c} /\ UNCHANGED <<directory, lock, robbed>>
      BY <2>6 DEF F!Write
    <3>3. file # None /\ directory
      BY <1>a, <3>1 DEF GoesWell
    <3>4. file' # None
      <4>1. file \in FileRecord
        BY <1>a, <3>3 DEF FilesTyped
      <4>2. [file EXCEPT !.whole = TRUE] \in FileRecord
        BY <4>1 DEF FileRecord
      <4>3. file' \in {file, [file EXCEPT !.whole = TRUE]}
        BY <2>6 DEF F!Write
      <4>. QED
        BY <4>1, <4>2, <4>3
    <3>. QED
      BY <1>a, <3>1, <3>2, <3>3, <3>4 DEF FilesTyped, GoesWell
  <2>7. ASSUME NEW c \in FileCalls, F!Release(c) PROVE GoesWell'
    BY <1>a, <2>7 DEF FilesTyped, LocksAreHeld, GoesWell, F!Release, F!Unlock
  <2>8. ASSUME NEW c \in FileCalls, F!WriteMeta(c) \/ F!Clean(c) PROVE GoesWell'
    BY <1>a, <2>8 DEF FilesTyped, LocksAreHeld, GoesWell, F!WriteMeta, F!Clean, F!Unlock
  <2>9. CASE UNCHANGED filesVars
    BY <1>a, <2>9 DEF filesVars, GoesWell
  <2>. QED
    BY <2>1, <2>2, <2>3, <2>4, <2>5, <2>6, <2>7, <2>8, <2>9 DEF F!Next
<1>. QED
  BY <1>t, <1>l, <1>h, <1>w DEF FilesInv

(* Of the calls for a plugin one at a time writes its file, and none       *)
(* leaves a file that the others could not use.                            *)
THEOREM FilesAlwaysStand == PartsSpec => []FilesStand
<1>1. PartsInit => FilesInv
  BY FilesInvAtStart DEF PartsInit
<1>2. FilesInv /\ [PartsNext]_allVars => FilesInv'
  BY FilesInvKept, PartsStep
<1>3. FilesInv => FilesStand
  BY FilesInvSuffices DEF FilesStand
<1>. QED
  BY <1>1, <1>2, <1>3, PTL DEF PartsSpec

-----------------------------------------------------------------------------
(* PluginCatalog                                                           *)

(* A set of versions has a highest: of the sets of higher ones, one is     *)
(* minimal.                                                                *)
LEMMA HighestVersion ==
  ASSUME NEW vs \in SUBSET Versions, vs # {}
  PROVE  C!Max(vs) \in vs /\ \A v \in vs : v <= C!Max(vs)
<1> DEFINE Higher(v) == {w \in vs : w > v}
           Sets == {Higher(v) : v \in vs}
           Below == StrictSubsetOrdering(Versions)
<1>1. Versions \subseteq Nat /\ IsFiniteSet(Versions)
  BY CatalogAssumption
<1>2. Sets # {} /\ Sets \subseteq FiniteSubsetsOf(Versions)
  <2>1. ASSUME NEW v \in vs PROVE Higher(v) \in FiniteSubsetsOf(Versions)
    BY <1>1, FS_Subset DEF FiniteSubsetsOf
  <2>. QED
    BY <2>1
<1>3. IsWellFoundedOn(Below, FiniteSubsetsOf(Versions))
  BY FS_StrictSubsetOrderingWellFounded
<1>4. PICK x \in Sets : \A y \in Sets : <<y, x>> \notin Below
  BY <1>2, <1>3, WFMin
<1>5. PICK v \in vs : x = Higher(v)
  BY <1>4
<1>6. ASSUME NEW w \in vs, w > v PROVE FALSE
  <2>1. Higher(w) \in Sets /\ Higher(w) \in SUBSET Versions /\ x \in SUBSET Versions
    BY <1>5
  <2>2. Higher(w) \subseteq x /\ w \in x /\ w \notin Higher(w)
    <3>1. \A u \in vs : u \in Nat
      BY <1>1
    <3>2. \A u \in vs : u > w => u > v
      BY <3>1, <1>6
    <3>3. ~(w > w)
      BY <3>1
    <3>. QED
      BY <1>5, <1>6, <3>2, <3>3
  <2>3. <<Higher(w), x>> \in Below
    BY <2>1, <2>2 DEF StrictSubsetOrdering
  <2>. QED
    BY <1>4, <2>1, <2>3
<1>7. v \in vs /\ \A w \in vs : v >= w
  BY <1>1, <1>6
<1>. QED
  BY <1>1, <1>7 DEF C!Max

LEMMA ItemFields ==
  /\ \A i \in C!Items : i.source \in C!Stored \cup Debugged /\ i.plugin \in Plugins /\ i.version \in Versions
  /\ \A i, j \in C!Items :
       i.source = j.source /\ i.plugin = j.plugin /\ i.version = j.version /\ i.etag = j.etag => i = j
BY DEF C!Items

(* The latest versions of the history are those that Newest selects.       *)
LEMMA LatestAreNewest ==
  ASSUME NEW items \in SUBSET C!Items PROVE C!LatestOf(items) = C!Newest(items)
<1>1. ASSUME NEW i \in items
      PROVE  i \in C!LatestOf(items) <=> i \in C!Newest(items)
  <2> DEFINE vs == {j.version : j \in {j \in items : j.source = i.source /\ j.plugin = i.plugin}}
  <2>1. vs \in SUBSET Versions /\ i.version \in vs
    BY ItemFields
  <2>2. C!Max(vs) \in vs /\ \A v \in vs : v <= C!Max(vs)
    BY <2>1, HighestVersion
  <2>3. \A v \in vs : v \in Nat
    BY <2>1, CatalogAssumption
  <2>4. i \in C!LatestOf(items) <=> i.version = C!Max(vs)
    BY DEF C!LatestOf
  <2>5. i \in C!Newest(items) <=> \A v \in vs : v <= i.version
    BY DEF C!Newest
  <2> HIDE DEF vs
  <2>. QED
    BY <2>1, <2>2, <2>3, <2>4, <2>5
<1>. QED
  BY <1>1 DEF C!LatestOf, C!Newest

-----------------------------------------------------------------------------
(* What is there                                                           *)

Now == stored \cup C!InDebug(sessions)

CatalogTyped ==
  /\ stored \subseteq {i \in C!Items : i.source \in C!Stored}
  /\ \A s \in sessions : s.source \in Debugged /\ C!OnePerPlugin(s.targets)
  /\ \A s, t \in sessions : s.source = t.source => s = t

(* A plugin in debugging is there once, and all there is has a source of   *)
(* either kind.                                                            *)
LEMMA InDebugOnce ==
  ASSUME CatalogTyped
  PROVE  /\ \A i \in C!InDebug(sessions) : i \in C!Items /\ i.source \in Debugged
         /\ \A i, j \in C!InDebug(sessions) : i.source = j.source /\ i.plugin = j.plugin => i = j
<1>1. ASSUME NEW i \in C!InDebug(sessions), NEW j \in C!InDebug(sessions), i.source = j.source, i.plugin = j.plugin
      PROVE  i = j
  <2> DEFINE Content(k) == [plugin |-> k.plugin, version |-> k.version, etag |-> k.etag]
  <2>1. PICK s \in sessions : s.source = i.source /\ Content(i) \in s.targets
    BY DEF C!InDebug
  <2>2. PICK t \in sessions : t.source = j.source /\ Content(j) \in t.targets
    BY DEF C!InDebug
  <2>3. s = t /\ C!OnePerPlugin(s.targets)
    BY <1>1, <2>1, <2>2 DEF CatalogTyped
  <2>4. Content(i) = Content(j)
    BY <1>1, <2>1, <2>2, <2>3 DEF C!OnePerPlugin
  <2>5. i.version = j.version /\ i.etag = j.etag
    BY <2>4
  <2>. QED
    BY <1>1, <2>5, ItemFields DEF C!InDebug
<1>. QED
  BY <1>1 DEF C!InDebug, CatalogTyped

LEMMA NowIsTyped ==
  ASSUME CatalogTyped
  PROVE  /\ Now \subseteq C!Items
         /\ \A i \in Now : i.source \in C!Stored => i \in stored
         /\ \A i \in Now : i.source \in Debugged => i \in C!InDebug(sessions)
         /\ C!Stored \cap Debugged = {}
BY InDebugOnce, CatalogAssumption DEF CatalogTyped, Now, C!Stored

(* What is the latest of all is that of the database or in debugging.      *)
LEMMA LatestNow ==
  ASSUME CatalogTyped
  PROVE  /\ C!LatestOf(Now) = C!Newest(Now)
         /\ C!InDebug(sessions) \subseteq C!LatestOf(Now)
         /\ C!Newest(stored) \subseteq C!LatestOf(Now)
         /\ \A i \in C!LatestOf(Now) : i.source \in C!Stored => i \in C!Newest(stored)
<1>1. C!LatestOf(Now) = C!Newest(Now)
  BY LatestAreNewest, NowIsTyped
<1>2. ASSUME NEW i \in C!InDebug(sessions), NEW j \in Now, j.source = i.source, j.plugin = i.plugin
      PROVE  j.version <= i.version
  <2>1. j \in C!InDebug(sessions) /\ i \in C!Items
    BY <1>2, InDebugOnce, NowIsTyped
  <2>2. j = i /\ i.version \in Nat
    BY <1>2, <2>1, InDebugOnce, ItemFields, CatalogAssumption
  <2>. QED
    BY <2>2
<1>3. \A i \in stored, j \in Now : j.source = i.source => j \in stored
  BY NowIsTyped DEF CatalogTyped
<1>4. C!InDebug(sessions) \subseteq C!Newest(Now)
  BY <1>2 DEF C!Newest, Now
<1>5. \A i \in C!Newest(stored) : i \in C!Newest(Now)
  BY <1>3 DEF C!Newest, Now
<1>6. \A i \in C!Newest(Now) : i.source \in C!Stored => i \in C!Newest(stored)
  BY NowIsTyped DEF C!Newest, Now
<1>. QED
  BY <1>1, <1>4, <1>5, <1>6

LEMMA StoredIsActive ==
  ASSUME CatalogTyped, NEW i \in stored PROVE C!Active(i)
<1>1. i \in C!Items
  BY DEF CatalogTyped
<1>2. [i EXCEPT !.source = i.source] = i
  BY <1>1 DEF C!Items
<1>. QED
  BY <1>2 DEF C!Active

-----------------------------------------------------------------------------
(* What is asked                                                           *)

(* A query for more than one source or with a filter is for the list.      *)
QueryTyped(q) ==
  /\ q.kind \in {"list", "versions", "get", "detail"}
  /\ q.types \in BOOLEAN /\ q.tags \in BOOLEAN /\ q.op \in {"and", "or"} /\ q.fallback \in BOOLEAN
  /\ q.version \in {C!Any} \cup Versions
  /\ q.kind \in {"list", "versions"} => q.version = C!Any
  /\ C!Wanted(q) \subseteq C!Stored \cup Debugged
  /\ C!Wanted(q) # {}
  /\ q.kind # "list" => ~q.types /\ ~q.tags /\ \E s \in C!Stored \cup Debugged : C!Wanted(q) = {s}

LEMMA QueriesTyped ==
  ASSUME NEW q \in C!Queries PROVE QueryTyped(q)
<1> DEFINE one == {{s} : s \in C!Stored \cup Debugged}
<1>1. System \in C!Stored
  BY DEF C!Stored
<1>2. CASE q \in C!Query({"list"}, SUBSET (C!Stored \cup Debugged), BOOLEAN, {C!Any}, {FALSE})
  BY <1>1, <1>2 DEF C!Query, QueryTyped, C!Wanted
<1>3. ASSUME NEW kinds \in {{"versions"}, {"get"}, {"detail"}}, NEW vs \in {{C!Any}, {C!Any} \cup Versions},
             NEW fallbacks \in {{FALSE}, BOOLEAN}, q \in C!Query(kinds, one, {FALSE}, vs, fallbacks),
             kinds = {"versions"} => vs = {C!Any}
      PROVE  QueryTyped(q)
  <2>1. /\ q.kind \in kinds /\ q.types = FALSE /\ q.tags = FALSE /\ q.op \in {"and", "or"} /\ q.fallback \in BOOLEAN
        /\ q.version \in vs /\ q.sources \in one
    BY <1>3 DEF C!Query
  <2>2. PICK s \in C!Stored \cup Debugged : q.sources = {s}
    BY <2>1
  <2>3. C!Wanted(q) = {s} /\ q.kind # "list"
    BY <2>1, <2>2 DEF C!Wanted
  <2>. QED
    BY <1>3, <2>1, <2>3 DEF QueryTyped
<1>4. \/ q \in C!Query({"list"}, SUBSET (C!Stored \cup Debugged), BOOLEAN, {C!Any}, {FALSE})
      \/ q \in C!Query({"versions"}, one, {FALSE}, {C!Any}, {FALSE})
      \/ q \in C!Query({"get"}, one, {FALSE}, {C!Any} \cup Versions, {FALSE})
      \/ q \in C!Query({"detail"}, one, {FALSE}, {C!Any} \cup Versions, BOOLEAN)
  BY DEF C!Queries
<1>. QED
  BY <1>2, <1>3, <1>4

LEMMA FilterLogic ==
  ASSUME NEW t \in BOOLEAN, NEW g \in BOOLEAN, NEW a \in BOOLEAN, NEW b \in BOOLEAN,
         NEW set, set = (IF t THEN {a} ELSE {}) \cup (IF g THEN {b} ELSE {})
  PROVE  /\ (set # {} => TRUE \in set) <=> (t \/ g => (t /\ a) \/ (g /\ b))
         /\ (set # {} => FALSE \notin set) <=> (t => a) /\ (g => b)
<1>1. CASE ~t /\ ~g
  BY <1>1
<1>2. CASE t /\ ~g
  <2>1. set = {a}
    BY <1>2
  <2>. QED
    BY <1>2, <2>1
<1>3. CASE ~t /\ g
  <2>1. set = {b}
    BY <1>3
  <2>. QED
    BY <1>3, <2>1
<1>4. CASE t /\ g
  <2>1. set = {a, b}
    BY <1>4
  <2>. QED
    BY <1>4, <2>1
<1>. QED
  BY <1>1, <1>2, <1>3, <1>4

(* The filter of the code lets pass what it should.                        *)
LEMMA MatchesPasses ==
  ASSUME QueryTyped(query), NEW i PROVE C!Matches(i) <=> C!Passes(i)
<1> DEFINE asked == (IF query.types THEN {i.etag \in Tools} ELSE {})
                    \cup (IF query.tags THEN {i.etag \in Tagged} ELSE {})
<1>1. query.types \in BOOLEAN /\ query.tags \in BOOLEAN /\ query.op \in {"and", "or"}
  BY DEF QueryTyped
<1>2. /\ (asked # {} => TRUE \in asked)
           <=> (query.types \/ query.tags => (query.types /\ i.etag \in Tools) \/ (query.tags /\ i.etag \in Tagged))
      /\ (asked # {} => FALSE \notin asked)
           <=> (query.types => i.etag \in Tools) /\ (query.tags => i.etag \in Tagged)
  <2>1. PICK a \in BOOLEAN, b \in BOOLEAN : a = (i.etag \in Tools) /\ b = (i.etag \in Tagged)
    <3>1. (i.etag \in Tools) \in BOOLEAN /\ (i.etag \in Tagged) \in BOOLEAN
      OBVIOUS
    <3>. QED
      BY <3>1
  <2>2. asked = (IF query.types THEN {a} ELSE {}) \cup (IF query.tags THEN {b} ELSE {})
    BY <2>1
  <2> HIDE DEF asked
  <2>3. /\ (asked # {} => TRUE \in asked)
             <=> (query.types \/ query.tags => (query.types /\ a) \/ (query.tags /\ b))
        /\ (asked # {} => FALSE \notin asked) <=> (query.types => a) /\ (query.tags => b)
    BY <1>1, <2>2, FilterLogic, Zenon
  <2>. QED
    BY <2>1, <2>3
<1>3. C!Matches(i) <=> (asked # {} => IF query.op = "or" THEN TRUE \in asked ELSE FALSE \notin asked)
  BY DEF C!Matches
<1> HIDE DEF asked
<1>4. CASE query.op = "or"
  BY <1>1, <1>2, <1>3, <1>4 DEF C!Passes
<1>5. CASE query.op = "and"
  BY <1>1, <1>2, <1>3, <1>5 DEF C!Passes
<1>. QED
  BY <1>1, <1>4, <1>5

-----------------------------------------------------------------------------
(* The invariant                                                           *)

HistoryHolds ==
  /\ ever \subseteq C!Items /\ Now \subseteq ever /\ always \subseteq Now
  /\ C!LatestOf(Now) \subseteq latest /\ stayed \subseteq C!LatestOf(Now) /\ stayed \subseteq always

(* The versions that the details of a tool have listed: all that are there *)
(* all the time, and none higher than one that is the latest all the time. *)
Listed ==
  /\ \A i \in always : C!Asked(i) => i.version \in versions
  /\ \A i \in stayed : C!Asked(i) => \A v \in versions : v <= i.version

(* The calls of a query follow each other; those of one source ask the     *)
(* database or its session.                                                *)
CallHolds ==
  /\ stage \in {"list", "versions", "tool", "fallback"}
  /\ query.kind = "list" <=> stage = "list"
  /\ query.kind = "versions" => stage = "versions"
  /\ query.kind = "get" => stage = "tool"
  /\ query.kind = "get" \/ stage \in {"list", "versions"} => versions = {}
  /\ versions \subseteq Versions
  /\ query.kind = "detail" /\ stage # "versions" => Listed
  /\ stage = "fallback" => C!FallsBack /\ (~faulty => \A i \in always : C!Asked(i) => i.version # query.version)
  /\ catalogAt \in {"installations", "plugins"} =>
       catalogPending = C!Wanted(query) \cap Debugged /\ (query.kind # "list" => C!Wanted(query) \subseteq C!Stored)
  /\ catalogAt = "sessions" =>
       /\ catalogPending # {} /\ catalogPending \subseteq C!Wanted(query) \cap Debugged
       /\ query.kind # "list" => catalogPending = C!Wanted(query)

(* What has been found in the installations.                               *)
Chosen(items) ==
  /\ \A i \in items : i \in ever /\ C!Asked(i) /\ i.source \in C!Stored
  /\ query.version = C!Any /\ stage # "versions" => items \subseteq latest
  /\ stage = "list" => \A i \in stayed : C!Asked(i) /\ i.source \in C!Stored => i \in items
  /\ stage = "versions" =>
       /\ \A i \in always : C!Asked(i) => i \in items
       /\ \A i \in stayed, j \in items : C!Asked(i) => j.version <= i.version
  /\ stage = "tool" =>
       /\ \A i, j \in items : i.version = j.version
       /\ query.version # C!Any => \A i \in items : i.version = query.version
       /\ \A i \in always : C!Asked(i) /\ i.version = query.version => i \in items
       /\ query.version = C!Any => \A i \in stayed : C!Asked(i) => i \in items
  /\ stage = "fallback" =>
       /\ \A i \in items, j \in always : C!Asked(j) => j.version <= i.version
       /\ \A i \in stayed : C!Asked(i) => i \in items

(* What a list has found while it still asks for sessions.                 *)
Gathered(items) ==
  /\ query.kind # "list" => items = {}
  /\ \A i \in items : i \in ever /\ C!Asked(i) /\ i \in latest /\ (i.source \in C!Stored => C!Passes(i))
  /\ ~faulty =>
       \A i \in stayed :
         C!Asked(i) /\ ((i.source \in C!Stored /\ C!Passes(i)) \/ (i.source \in Debugged /\ i.source \notin catalogPending)) =>
           i \in items

(* What a call returns, all of it unless a read has failed.                *)
Whole(items, failing) ==
  /\ \A i \in items : i \in ever /\ C!Asked(i) /\ (i.source \in C!Stored => C!Passes(i))
  /\ query.version = C!Any /\ stage # "versions" => items \subseteq latest
  /\ stage = "list" /\ ~failing =>
       \A i \in stayed : C!Asked(i) /\ (i.source \in Debugged \/ C!Passes(i)) => i \in items
  /\ stage = "versions" =>
       /\ \A i \in always : C!Asked(i) => i \in items
       /\ \A i \in stayed, j \in items : C!Asked(i) => j.version <= i.version
  /\ stage = "tool" =>
       /\ \A i, j \in items : i.version = j.version
       /\ query.version # C!Any => \A i \in items : i.source \in C!Stored => i.version = query.version
       /\ ~failing => \A i \in always : C!Asked(i) /\ i.version = query.version => i \in items
       /\ ~failing /\ query.version = C!Any => \A i \in stayed : C!Asked(i) => i \in items
  /\ stage = "fallback" =>
       /\ \A i \in items, j \in always : C!Asked(j) => j.version <= i.version
       /\ ~failing => \A i \in stayed : C!Asked(i) => i \in items

CatalogInv ==
  /\ CatalogTyped /\ faulty \in BOOLEAN
  /\ catalogAt \in {"new", "installations", "plugins", "sessions", "answered"}
  /\ catalogAt # "answered" => answer.items = {}
  /\ catalogAt = "new" => versions = {}
  /\ catalogAt = "answered" => C!NothingInvented /\ C!NothingMissed
  /\ catalogAt # "new" => QueryTyped(query) /\ HistoryHolds
  /\ catalogAt \notin {"new", "answered"} => CallHolds
  /\ catalogAt = "plugins" => Chosen(found)
  /\ catalogAt = "sessions" => Gathered(found)

LEMMA CatalogInvSuffices ==
  ASSUME CatalogInv PROVE C!NothingInvented /\ C!NothingMissed
BY DEF CatalogInv, C!NothingInvented, C!NothingMissed

LEMMA CatalogInvAtStart ==
  ASSUME C!Init PROVE CatalogInv
BY CatalogAssumption DEF C!Init, CatalogInv, CatalogTyped

-----------------------------------------------------------------------------
(* The end of a call                                                       *)

(* What does not change while a query goes on.                             *)
Stays == UNCHANGED <<query, C!database, C!history>> /\ faulty' \in BOOLEAN /\ (faulty => faulty')

LEMMA StaysTyped ==
  ASSUME CatalogInv, Stays, catalogAt # "new"
  PROVE  /\ CatalogTyped' /\ QueryTyped(query)' /\ HistoryHolds'
         /\ (\A i : C!Asked(i)' <=> C!Asked(i)) /\ (\A i : C!Passes(i)' <=> C!Passes(i))
<1>1. CatalogTyped'
  BY DEF CatalogInv, Stays, C!database, CatalogTyped
<1>2. QueryTyped(query)'
  BY DEF CatalogInv, Stays, QueryTyped
<1>3. Now' = Now
  BY DEF Stays, C!database, Now, C!InDebug
<1>4. C!LatestOf(Now)' = C!LatestOf(Now)
  BY <1>3 DEF C!LatestOf
<1>5. HistoryHolds'
  BY <1>3, <1>4 DEF CatalogInv, Stays, C!history, HistoryHolds
<1>6. \A i : C!Asked(i)' <=> C!Asked(i)
  BY DEF Stays, C!Asked, C!Wanted
<1>7. \A i : C!Passes(i)' <=> C!Passes(i)
  BY DEF Stays, C!Passes
<1>. QED
  BY <1>1, <1>2, <1>5, <1>6, <1>7

(* An answer that is true ends the query.                                  *)
LEMMA EndsWell ==
  ASSUME CatalogInv, Stays, catalogAt # "new", NEW st, NEW items, NEW isLatest, C!Ends(st, items, isLatest),
         C!NothingInvented', C!NothingMissed'
  PROVE  CatalogInv'
<1>1. catalogAt' = "answered"
  BY DEF C!Ends
<1>. QED
  BY <1>1, StaysTyped DEF CatalogInv, Stays

(* Another call of a query for one source begins.                          *)
LEMMA CallsAgain ==
  ASSUME CatalogInv, Stays, catalogAt \notin {"new", "answered"}, query.kind = "detail",
         NEW next \in {"tool", "fallback"}, C!Consults(next, query), versions' \subseteq Versions, Listed',
         next = "fallback" => C!FallsBack' /\ (~faulty' => \A i \in always : C!Asked(i) => i.version # query.version),
         answer' = answer
  PROVE  CatalogInv'
<1>1. PICK s \in C!Stored \cup Debugged : C!Wanted(query) = {s}
  BY DEF CatalogInv, QueryTyped
<1>2. s \in C!Stored <=> s \notin Debugged
  BY CatalogAssumption DEF C!Stored
<1>3. query' = query /\ C!Wanted(query)' = C!Wanted(query) /\ always' = always /\ stayed' = stayed
  BY DEF Stays, C!Wanted, C!history
<1>4. /\ stage' = next /\ found' = {} /\ catalogAt' \in {"installations", "sessions"}
      /\ catalogAt' = "installations" => s \in C!Stored /\ catalogPending' = C!Wanted(query) \cap Debugged
      /\ catalogAt' = "sessions" => s \in Debugged /\ catalogPending' = C!Wanted(query)
  BY <1>1, <1>2 DEF C!Consults
<1>5. CallHolds'
  BY <1>1, <1>2, <1>3, <1>4, StaysTyped DEF CallHolds
<1>6. catalogAt' = "sessions" => Gathered(found)'
  <2>1. ASSUME NEW i \in stayed, C!Asked(i)' PROVE i.source = s
    BY <1>1, <1>3, <2>1 DEF C!Asked
  <2>2. catalogAt' = "sessions" => s \in catalogPending' /\ s \notin C!Stored
    BY <1>1, <1>2, <1>4
  <2>. QED
    BY <1>3, <1>4, <2>1, <2>2 DEF Gathered
<1>. QED
  BY <1>4, <1>5, <1>6, StaysTyped DEF CatalogInv, Stays

(* What a call returns is a true answer, or what the next call goes on     *)
(* from.                                                                   *)
LEMMA ReturnsHold ==
  ASSUME CatalogInv, Stays, catalogAt \notin {"new", "answered"},
         NEW items, Whole(items, faulty'), C!Returns(items)
  PROVE  CatalogInv'
<1>t. /\ (\A i : C!Asked(i)' <=> C!Asked(i)) /\ (\A i : C!Passes(i)' <=> C!Passes(i))
      /\ CatalogTyped' /\ QueryTyped(query)' /\ HistoryHolds'
  BY StaysTyped
<1>q. /\ query' = query /\ ever' = ever /\ always' = always /\ latest' = latest /\ stayed' = stayed
      /\ QueryTyped(query) /\ CallHolds /\ HistoryHolds
  BY DEF Stays, C!history, CatalogInv
<1>v. \A i \in ever : i.version \in Versions /\ i.version \in Nat /\ i.version # C!Any
  BY <1>q, ItemFields, CatalogAssumption DEF HistoryHolds, C!Any
<1>m. versions' # {} /\ versions' \subseteq Versions => C!Max(versions') \in versions' /\ \A v \in versions' : v <= C!Max(versions')
  BY HighestVersion
<1>1. CASE stage = "list" \/ (stage = "versions" /\ query.kind = "versions")
  <2>1. C!Ends("ok", items, FALSE)
    BY <1>1, <1>q DEF C!Returns, CallHolds
  <2>2. /\ catalogAt' = "answered" /\ answer' = [st |-> "ok", items |-> items, latest |-> FALSE]
        /\ query.kind \in {"list", "versions"} /\ query.version = C!Any
        /\ query.kind = "list" <=> stage = "list"
    BY <1>1, <1>q, <2>1 DEF C!Ends, CallHolds, QueryTyped
  <2>3. C!NothingInvented'
    BY <1>t, <1>q, <2>2 DEF C!NothingInvented, Whole
  <2>4. C!NothingMissed'
    BY <1>1, <1>t, <1>q, <2>2 DEF C!NothingMissed, Whole
  <2>. QED
    BY <2>1, <2>3, <2>4, EndsWell
<1>2. CASE stage = "versions" /\ query.kind = "detail"
  <2>1. versions' = {i.version : i \in items} /\ C!Consults("tool", query) /\ answer' = answer
    BY <1>2 DEF C!Returns
  <2>2. versions' \subseteq Versions
    BY <1>v, <2>1 DEF Whole
  <2>3. Listed'
    BY <1>2, <1>t, <1>q, <2>1 DEF Listed, Whole
  <2>. QED
    BY <1>2, <2>1, <2>2, <2>3, CallsAgain
<1>3. CASE stage = "tool" /\ items # {}
  <2> DEFINE isLatest == query.kind = "detail" /\ \A i \in items : C!IsLatest(i)
  <2>1. C!Ends("ok", items, isLatest)
    BY <1>3 DEF C!Returns
  <2>2. /\ catalogAt' = "answered" /\ answer'.st = "ok" /\ answer'.items = items /\ answer'.latest = isLatest /\ versions' = versions
        /\ query.kind \in {"get", "detail"} /\ versions \subseteq Versions
    BY <1>3, <1>q, <2>1 DEF C!Ends, CallHolds, QueryTyped
  <2>3. query.kind = "detail" => Listed
    BY <1>3, <1>q DEF CallHolds
  <2>4. C!NothingInvented'
    <3>1. ASSUME isLatest, NEW i \in items, NEW j \in always, C!Asked(j) PROVE j.version <= i.version
      <4>1. j.version \in versions /\ versions # {}
        BY <2>3, <3>1 DEF Listed
      <4>2. i.version = C!Max(versions)
        BY <3>1, <4>1 DEF C!IsLatest
      <4>. QED
        BY <1>m, <2>2, <4>1, <4>2
    <3> HIDE DEF isLatest
    <3>. QED
      BY <1>3, <1>t, <1>q, <2>2, <3>1 DEF C!NothingInvented, Whole
  <2>5. C!NothingMissed'
    <3>1. ASSUME query.kind = "detail", NEW i \in items, i \in stayed PROVE isLatest
      <4>1. i \in always /\ C!Asked(i)
        BY <1>q, <3>1 DEF HistoryHolds, Whole
      <4>2. i.version \in versions /\ \A v \in versions : v <= i.version
        BY <2>3, <3>1, <4>1 DEF Listed
      <4>3. i.version = C!Max(versions)
        <5>1. \A v \in versions : v \in Nat
          BY <2>2, CatalogAssumption
        <5>. QED
          BY <1>m, <2>2, <4>2, <5>1
      <4>4. \A j \in items : j.version = i.version
        BY <1>3 DEF Whole
      <4>. QED
        BY <3>1, <4>2, <4>3, <4>4 DEF C!IsLatest
    <3> HIDE DEF isLatest
    <3>. QED
      BY <1>q, <2>2, <3>1 DEF C!NothingMissed
  <2> HIDE DEF isLatest
  <2>. QED
    BY <2>1, <2>4, <2>5, EndsWell
<1>4. CASE stage = "tool" /\ items = {} /\ C!FallsBack
  <2>1. C!Consults("fallback", query) /\ versions' = versions /\ answer' = answer
    BY <1>4 DEF C!Returns
  <2>2. query.kind = "detail" /\ Listed /\ versions \subseteq Versions
    BY <1>4, <1>q DEF CallHolds, C!FallsBack
  <2>3. C!FallsBack' /\ Listed'
    BY <1>4, <1>t, <1>q, <2>1, <2>2 DEF C!FallsBack, Listed
  <2>4. ~faulty' => \A i \in always : C!Asked(i) => i.version # query.version
    BY <1>4 DEF Whole
  <2>. QED
    BY <2>1, <2>2, <2>3, <2>4, CallsAgain
<1>5. CASE stage = "tool" /\ items = {} /\ ~C!FallsBack
  <2>1. C!Ends("absent", {}, FALSE)
    BY <1>5 DEF C!Returns
  <2>2. /\ catalogAt' = "answered" /\ answer' = [st |-> "absent", items |-> {}, latest |-> FALSE] /\ versions' = versions
        /\ query.kind \in {"get", "detail"}
    BY <1>5, <1>q, <2>1 DEF C!Ends, CallHolds, QueryTyped
  <2>3. C!NothingInvented'
    BY <2>2 DEF C!NothingInvented
  <2>4. ~C!FallsBack'
    BY <1>5, <1>q, <2>2 DEF C!FallsBack
  <2>5. C!NothingMissed'
    BY <1>5, <1>t, <1>q, <2>2, <2>4 DEF C!NothingMissed, Whole
  <2>. QED
    BY <2>1, <2>3, <2>5, EndsWell
<1>6. CASE stage = "fallback"
  <2> DEFINE st == IF items = {} THEN "absent" ELSE "ok"
  <2>1. C!Ends(st, items, items # {})
    BY <1>6 DEF C!Returns
  <2>2. /\ catalogAt' = "answered" /\ answer'.items = items /\ answer'.st = st /\ (answer'.latest <=> items # {})
        /\ query.kind = "detail" /\ query.version # C!Any
    BY <1>6, <1>q, <2>1 DEF C!Ends, CallHolds, C!FallsBack
  <2>3. C!NothingInvented'
    BY <1>6, <1>t, <1>q, <2>2 DEF C!NothingInvented, Whole
  <2>4. C!NothingMissed'
    <3>1. ~faulty' => \A i \in always : C!Asked(i) => i.version # query.version
      BY <1>6, <1>q DEF CallHolds, Stays
    <3>. QED
      BY <1>6, <1>t, <1>q, <2>2, <3>1 DEF C!NothingMissed, Whole
  <2> HIDE DEF st
  <2>. QED
    BY <2>1, <2>3, <2>4, EndsWell
<1>. QED
  BY <1>1, <1>2, <1>3, <1>4, <1>5, <1>6 DEF C!Returns

-----------------------------------------------------------------------------
(* The steps of a query                                                    *)

(* Of the installations a query asks for, the latest versions are those of *)
(* all installations.                                                      *)
LEMMA NewestAsked ==
  C!Newest({i \in stored : C!Asked(i)}) = {i \in C!Newest(stored) : C!Asked(i)}
<1>1. \A i, j : j.source = i.source /\ j.plugin = i.plugin => (C!Asked(j) <=> C!Asked(i))
  BY DEF C!Asked
<1>. QED
  BY <1>1 DEF C!Newest

LEMMA SelectedAreChosen ==
  ASSUME CatalogInv, catalogAt = "installations" PROVE Chosen(C!Selected)
<1> DEFINE asked == {i \in stored : C!Asked(i)}
<1>q. /\ QueryTyped(query) /\ CallHolds /\ HistoryHolds /\ CatalogTyped
  BY DEF CatalogInv
<1>n. /\ Now \subseteq C!Items /\ (\A i \in Now : i.source \in C!Stored => i \in stored) /\ stored \subseteq Now
      /\ \A i \in stored : i.source \in C!Stored
  BY <1>q, NowIsTyped DEF Now, CatalogTyped
<1>l. /\ C!Newest(stored) \subseteq latest
      /\ \A i \in stayed : i.source \in C!Stored => i \in C!Newest(stored)
  BY <1>q, LatestNow DEF HistoryHolds
<1>v. \A i \in Now : i.version \in Versions /\ i.version \in Nat /\ i.version # C!Any
  BY <1>n, ItemFields, CatalogAssumption DEF C!Any
<1>s. query.kind # "list" => \A i : C!Asked(i) => i.source \in C!Stored
  BY <1>q DEF CallHolds, C!Asked
<1>o. query.kind # "list" => \A i, j : C!Asked(i) /\ C!Asked(j) => i.source = j.source /\ i.plugin = j.plugin
  BY <1>q DEF QueryTyped, C!Asked
<1>a. query.kind # "list" => \A i \in always : C!Asked(i) => i \in asked
  BY <1>q, <1>n, <1>s DEF HistoryHolds
<1>y. query.kind # "list" => \A i \in stayed : C!Asked(i) => \A j \in asked : j.version <= i.version
  BY <1>l, <1>s, <1>o DEF C!Newest
<1>1. CASE stage = "versions"
  <2>1. C!Selected = asked /\ query.kind # "list"
    BY <1>1, <1>q DEF C!Selected, CallHolds
  <2>. QED
    BY <1>1, <2>1, <1>q, <1>n, <1>a, <1>y DEF Chosen, HistoryHolds
<1>2. CASE stage \in {"list", "tool"} /\ query.version = C!Any
  <2>1. C!Selected = {i \in C!Newest(stored) : C!Asked(i)}
    BY <1>2, NewestAsked DEF C!Selected, C!Version
  <2>2. \A i \in C!Selected : i \in stored /\ i \in latest /\ C!Asked(i)
    BY <2>1, <1>l DEF C!Newest
  <2>3. stage = "tool" => \A i, j \in C!Selected : i.version = j.version
    <3>1. ASSUME stage = "tool", NEW i \in C!Selected, NEW j \in C!Selected PROVE i.version <= j.version
      BY <1>q, <1>o, <2>1, <3>1 DEF C!Newest, CallHolds
    <3>2. \A i \in C!Selected : i.version \in Nat
      BY <1>n, <1>v, <2>2
    <3>3. stage = "tool" => \A i, j \in C!Selected : i.version <= j.version
      BY <3>1
    <3>. QED
      BY <3>2, <3>3
  <2>4. \A i \in stayed : C!Asked(i) /\ i.source \in C!Stored => i \in C!Selected
    BY <2>1, <1>l
  <2>5. \A i \in always : i.version # query.version
    BY <1>2, <1>v, <1>q DEF HistoryHolds
  <2>6. stage = "tool" => query.kind # "list"
    BY <1>q DEF CallHolds
  <2>. QED
    BY <1>2, <2>2, <2>3, <2>4, <2>5, <2>6, <1>n, <1>q, <1>s DEF Chosen, HistoryHolds
<1>3. CASE stage = "tool" /\ query.version # C!Any
  <2>1. C!Selected = {i \in asked : i.version = query.version} /\ query.kind # "list"
    BY <1>3, <1>q DEF C!Selected, C!Version, CallHolds
  <2>. QED
    BY <1>3, <2>1, <1>q, <1>n, <1>a DEF Chosen, HistoryHolds
<1>4. CASE stage = "fallback"
  <2>1. versions # {} /\ versions \subseteq Versions /\ query.kind = "detail" /\ query.version # C!Any /\ Listed
    BY <1>4, <1>q DEF CallHolds, C!FallsBack
  <2>2. C!Max(versions) \in versions /\ (\A v \in versions : v <= C!Max(versions)) /\ C!Max(versions) # C!Any
    BY <2>1, HighestVersion, CatalogAssumption DEF C!Any
  <2>3. C!Selected = {i \in asked : i.version = C!Max(versions)}
    BY <1>4, <2>2 DEF C!Selected, C!Version
  <2>4. ASSUME NEW i \in stayed, C!Asked(i) PROVE i \in C!Selected
    <3>1. i \in always /\ i \in asked
      BY <1>q, <1>a, <2>1, <2>4 DEF HistoryHolds
    <3>2. i.version \in versions /\ \A v \in versions : v <= i.version
      BY <2>1, <2>4, <3>1 DEF Listed
    <3>3. \A v \in versions : v \in Nat
      BY <2>1, CatalogAssumption
    <3>4. i.version = C!Max(versions)
      BY <2>2, <3>2, <3>3
    <3>. QED
      BY <2>3, <3>1, <3>4
  <2>5. \A i \in C!Selected, j \in always : C!Asked(j) => j.version <= i.version
    BY <2>1, <2>2, <2>3 DEF Listed
  <2>6. \A i \in C!Selected : i \in ever /\ C!Asked(i) /\ i.source \in C!Stored
    BY <1>n, <1>q, <2>3 DEF HistoryHolds
  <2>. QED
    BY <1>4, <2>1, <2>4, <2>5, <2>6 DEF Chosen
<1>5. stage = "list" => query.version = C!Any
  BY <1>q DEF CallHolds, QueryTyped
<1>. QED
  BY <1>1, <1>2, <1>3, <1>4, <1>5, <1>q DEF CallHolds

(* The plugins of the installations have been read.                        *)
LEMMA ReadsHold ==
  ASSUME CatalogInv, Stays, catalogAt \in {"installations", "plugins"}, faulty' = faulty,
         NEW chosen, Chosen(chosen), C!Reads({i \in chosen : C!Active(i) /\ C!Matches(i)})
  PROVE  CatalogInv'
<1> DEFINE items == {i \in chosen : C!Active(i) /\ C!Matches(i)}
<1>q. QueryTyped(query) /\ CallHolds /\ HistoryHolds /\ CatalogTyped
  BY DEF CatalogInv
<1>n. \A i \in Now : i.source \in C!Stored => C!Active(i)
  BY <1>q, NowIsTyped, StoredIsActive
<1>h. stayed \subseteq always /\ always \subseteq Now
  BY <1>q DEF HistoryHolds
<1>m. \A i : C!Matches(i) <=> C!Passes(i)
  BY <1>q, MatchesPasses
<1>p. query.kind # "list" => \A i : C!Passes(i)
  BY <1>q DEF QueryTyped, C!Passes
<1>d. \A i : i.source \in C!Stored => i.source \notin Debugged
  BY CatalogAssumption DEF C!Stored
<1>a. \A i \in always : i \in chosen /\ i.source \in C!Stored /\ C!Passes(i) => i \in items
  BY <1>n, <1>h, <1>m
<1>i. \A i \in items : i \in chosen /\ C!Passes(i)
  BY <1>m
<1>1. CASE catalogPending = {}
  <2>1. \A i : C!Asked(i) => i.source \in C!Stored
    BY <1>1, <1>q DEF CallHolds, QueryTyped, C!Asked
  <2>2. stage # "list" <=> query.kind # "list"
    BY <1>q DEF CallHolds
  <2>3. C!Returns(items)
    BY <1>1 DEF C!Reads
  <2> HIDE DEF items
  <2>4. Whole(items, faulty')
    <3>1. \A i \in items : i \in ever /\ C!Asked(i) /\ C!Passes(i)
      BY <1>i DEF Chosen
    <3>2. query.version = C!Any /\ stage # "versions" => items \subseteq latest
      BY <1>i DEF Chosen
    <3>3. stage = "list" => \A i \in stayed : C!Asked(i) /\ (i.source \in Debugged \/ C!Passes(i)) => i \in items
      BY <1>a, <1>d, <1>h, <2>1 DEF Chosen
    <3>4. stage = "versions" =>
            /\ \A i \in always : C!Asked(i) => i \in items
            /\ \A i \in stayed, j \in items : C!Asked(i) => j.version <= i.version
      BY <1>a, <1>i, <1>p, <2>1, <2>2 DEF Chosen
    <3>5. stage = "tool" =>
            /\ \A i, j \in items : i.version = j.version
            /\ query.version # C!Any => \A i \in items : i.version = query.version
            /\ \A i \in always : C!Asked(i) /\ i.version = query.version => i \in items
            /\ query.version = C!Any => \A i \in stayed : C!Asked(i) => i \in items
      BY <1>a, <1>h, <1>i, <1>p, <2>1, <2>2 DEF Chosen
    <3>6. stage = "fallback" =>
            /\ \A i \in items, j \in always : C!Asked(j) => j.version <= i.version
            /\ \A i \in stayed : C!Asked(i) => i \in items
      BY <1>a, <1>h, <1>i, <1>p, <2>1, <2>2 DEF Chosen
    <3>. QED
      BY <3>1, <3>2, <3>3, <3>4, <3>5, <3>6 DEF Whole
  <2>. QED
    BY <2>3, <2>4, ReturnsHold
<1>2. CASE catalogPending # {}
  <2>1. query.kind = "list" /\ stage = "list" /\ query.version = C!Any /\ catalogPending = C!Wanted(query) \cap Debugged
    BY <1>2, <1>d, <1>q, CatalogAssumption DEF CallHolds, QueryTyped, C!Stored
  <2>2. /\ catalogAt' = "sessions" /\ found' = items
        /\ stage' = stage /\ catalogPending' = catalogPending /\ versions' = versions /\ answer' = answer
    BY <1>2 DEF C!Reads
  <2>3. /\ (\A i : C!Asked(i)' <=> C!Asked(i)) /\ (\A i : C!Passes(i)' <=> C!Passes(i))
        /\ query' = query /\ ever' = ever /\ always' = always /\ latest' = latest /\ stayed' = stayed
    BY StaysTyped DEF Stays, C!history
  <2>4. C!Wanted(query)' = C!Wanted(query)
    BY <2>3 DEF C!Wanted
  <2>5. CallHolds'
    BY <1>2, <1>q, <2>1, <2>2, <2>3, <2>4 DEF CallHolds
  <2>6. \A i \in stayed : C!Asked(i) /\ i.source \in Debugged => i.source \in catalogPending
    BY <2>1 DEF C!Asked
  <2> HIDE DEF items
  <2>7. Gathered(found)'
    BY <1>a, <1>h, <1>i, <2>1, <2>2, <2>3, <2>6 DEF Gathered, Chosen
  <2>. QED
    BY <2>2, <2>5, <2>7, StaysTyped DEF CatalogInv, Stays
<1>. QED
  BY <1>1, <1>2

(* A session has been read, or could not be.                               *)
LEMMA ReadSessionHolds ==
  ASSUME CatalogInv, NEW s \in Debugged, NEW down \in BOOLEAN, C!ReadSession(s, down)
  PROVE  CatalogInv'
<1> DEFINE there == IF down THEN {} ELSE {i \in C!InDebug(sessions) : i.source = s /\ C!Asked(i)}
<1>q. /\ catalogAt = "sessions" /\ s \in catalogPending
      /\ QueryTyped(query) /\ CallHolds /\ HistoryHolds /\ CatalogTyped /\ Gathered(found)
  BY DEF CatalogInv, C!ReadSession
<1>s. Stays /\ faulty' = (faulty \/ down)
  BY DEF C!ReadSession, Stays, CatalogInv
<1>n. /\ \A i \in C!InDebug(sessions) : i \in Now /\ i \in latest /\ i \in ever /\ i.source \notin C!Stored
      /\ \A i \in Now : i.source \in Debugged => i \in C!InDebug(sessions)
      /\ \A i, j \in C!InDebug(sessions) : i.source = j.source /\ i.plugin = j.plugin => i = j
      /\ \A i \in Now : i.version \in Nat
  BY <1>q, NowIsTyped, LatestNow, InDebugOnce, ItemFields, CatalogAssumption DEF HistoryHolds, Now
<1>h. stayed \subseteq always /\ always \subseteq Now
  BY <1>q DEF HistoryHolds
<1>t. /\ \A i \in there : i \in ever /\ i \in latest /\ C!Asked(i) /\ i.source \notin C!Stored /\ i.source = s /\ i \in C!InDebug(sessions)
      /\ ~down => \A i \in Now : C!Asked(i) /\ i.source = s => i \in there
  BY <1>n
<1>b. (faulty' <=> faulty \/ down) /\ faulty \in BOOLEAN
  BY <1>s DEF CatalogInv
<1>k. stage = "list" <=> query.kind = "list"
  BY <1>q DEF CallHolds
<1>o. query.kind # "list" =>
        /\ found = {} /\ catalogPending = {s} /\ C!Wanted(query) = {s}
        /\ \A i, j \in there : i = j
        /\ \A i : C!Asked(i) => i.source = s
        /\ \A i \in there, j \in always : C!Asked(j) => j = i
  <2>1. ASSUME query.kind # "list" PROVE found = {} /\ catalogPending = {s} /\ C!Wanted(query) = {s}
    BY <1>q, <2>1 DEF CallHolds, QueryTyped, Gathered
  <2>2. ASSUME query.kind # "list", NEW i, C!Asked(i) PROVE i.source = s /\ i.plugin = query.plugin
    BY <2>1, <2>2 DEF C!Asked
  <2>3. ASSUME query.kind # "list", NEW i \in there, NEW j \in C!InDebug(sessions), C!Asked(j) PROVE j = i
    BY <1>n, <1>t, <2>2, <2>3
  <2> HIDE DEF there
  <2>4. ASSUME query.kind # "list", NEW j \in always, C!Asked(j) PROVE j \in C!InDebug(sessions)
    BY <1>h, <1>n, <2>2, <2>4
  <2>. QED
    BY <1>t, <2>1, <2>2, <2>3, <2>4
<1>c. CASE catalogPending # {s}
  <2>1. /\ found' = found \cup there /\ catalogPending' = catalogPending \ {s} /\ catalogAt' = catalogAt /\ stage' = stage
        /\ versions' = versions /\ answer' = answer
    BY <1>c DEF C!ReadSession
  <2>2. /\ (\A i : C!Asked(i)' <=> C!Asked(i)) /\ (\A i : C!Passes(i)' <=> C!Passes(i))
        /\ query' = query /\ ever' = ever /\ always' = always /\ latest' = latest /\ stayed' = stayed
    BY <1>s, StaysTyped, <1>q DEF Stays, C!history
  <2>3. C!Wanted(query)' = C!Wanted(query) /\ query.kind = "list" /\ stage = "list"
    BY <1>c, <1>k, <1>o, <2>2 DEF C!Wanted
  <2> HIDE DEF there
  <2>4. CallHolds'
    BY <1>c, <1>q, <2>1, <2>2, <2>3 DEF CallHolds
  <2>5. Gathered(found)'
    BY <1>b, <1>h, <1>q, <1>t, <2>1, <2>2, <2>3 DEF Gathered
  <2>. QED
    BY <1>q, <1>s, <2>1, <2>4, <2>5, StaysTyped DEF CatalogInv, Stays
<1>d. CASE catalogPending = {s} /\ stage = "versions" /\ there = {}
  <2>1. C!Ends("absent", {}, FALSE)
    BY <1>d DEF C!ReadSession
  <2>2. /\ catalogAt' = "answered" /\ answer' = [st |-> "absent", items |-> {}, latest |-> FALSE] /\ versions' = {}
        /\ query.kind # "list"
    BY <1>d, <1>k, <1>q, <2>1 DEF C!Ends, CallHolds
  <2>3. /\ (\A i : C!Asked(i)' <=> C!Asked(i)) /\ query' = query /\ always' = always /\ stayed' = stayed
    BY <1>s, StaysTyped, <1>q DEF Stays, C!history
  <2> HIDE DEF there
  <2>4. ~faulty' => \A i \in always : ~C!Asked(i)
    BY <1>b, <1>d, <1>h, <1>o, <1>t, <2>2
  <2>5. C!NothingInvented'
    BY <2>2 DEF C!NothingInvented
  <2>6. C!NothingMissed'
    BY <1>h, <2>2, <2>3, <2>4 DEF C!NothingMissed
  <2>. QED
    BY <1>q, <1>s, <2>1, <2>5, <2>6, EndsWell
<1>e. CASE catalogPending = {s} /\ ~(stage = "versions" /\ there = {})
  <2> DEFINE items == found \cup there
  <2>1. C!Returns(items)
    BY <1>e DEF C!ReadSession
  <2> HIDE DEF there
  <2>i. query.kind # "list" => items = there
    BY <1>o
  <2> HIDE DEF items
  <2>2. CASE query.kind # "list"
    <3>1. stage # "versions" \/ ~down
      BY <1>e DEF there
    <3>2. \A i \in there : i.version \in Nat
      BY <1>n, <1>t
    <3>3. ~faulty' => \A i \in always : C!Asked(i) => i \in items
      BY <1>b, <1>h, <1>o, <1>t, <2>2, <2>i
    <3>4. ~down => \A i \in always : C!Asked(i) => i \in items
      BY <1>h, <1>o, <1>t, <2>2, <2>i
    <3>5. \A i \in items : i \in ever /\ i \in latest /\ C!Asked(i) /\ i.source \notin C!Stored
      BY <1>t, <2>2, <2>i
    <3>6. \A i, j \in items : i.version = j.version
      BY <1>o, <2>2, <2>i
    <3>7. \A i \in items, j \in always : C!Asked(j) => j.version <= i.version
      BY <1>o, <2>2, <2>i, <3>2
    <3>8. \A i \in stayed, j \in items : C!Asked(i) => j.version <= i.version
      BY <1>h, <1>o, <2>2, <2>i, <3>2
    <3>9. Whole(items, faulty')
      BY <1>h, <1>k, <2>2, <3>1, <3>3, <3>4, <3>5, <3>6, <3>7, <3>8 DEF Whole
    <3>. QED
      BY <1>q, <1>s, <2>1, <3>9, ReturnsHold
  <2>3. CASE query.kind = "list"
    <3>1. \A i \in items : i \in ever /\ C!Asked(i) /\ i \in latest /\ (i.source \in C!Stored => C!Passes(i))
      BY <1>q, <1>t DEF Gathered, items
    <3>2. ASSUME ~faulty', NEW i \in stayed, C!Asked(i), i.source \in Debugged \/ C!Passes(i) PROVE i \in items
      <4>1. i \in Now /\ ~faulty /\ ~down /\ (i.source \in C!Stored \/ i.source \in Debugged)
        BY <1>b, <1>h, <1>q, <3>2 DEF QueryTyped, C!Asked
      <4>2. i.source = s => i \in there
        BY <1>t, <3>2, <4>1
      <4>3. i.source # s => i \in found
        BY <1>e, <1>q, <3>2, <4>1 DEF Gathered
      <4>. QED
        BY <4>2, <4>3 DEF items
    <3>3. Whole(items, faulty')
      BY <1>k, <2>3, <3>1, <3>2 DEF Whole
    <3>. QED
      BY <1>q, <1>s, <2>1, <3>3, ReturnsHold
  <2>. QED
    BY <2>2, <2>3
<1>. QED
  BY <1>c, <1>d, <1>e

LEMMA FindInstallationsHolds ==
  ASSUME CatalogInv, C!FindInstallations PROVE CatalogInv'
<1>1. catalogAt = "installations" /\ Stays /\ faulty' = faulty
  BY DEF C!FindInstallations, Stays, CatalogInv
<1>2. Chosen(C!Selected)
  BY <1>1, SelectedAreChosen
<1>3. CASE C!Selected = {}
  <2>1. C!Reads({i \in C!Selected : C!Active(i) /\ C!Matches(i)})
    <3>1. C!Reads({})
      BY <1>3 DEF C!FindInstallations
    <3>2. {i \in C!Selected : C!Active(i) /\ C!Matches(i)} = {}
      BY <1>3
    <3>. QED
      BY <3>1, <3>2
  <2>. QED
    BY <1>1, <1>2, <2>1, ReadsHold
<1>4. CASE C!Selected # {}
  <2> DEFINE chosen == C!Selected
  <2>1. /\ catalogAt' = "plugins" /\ found' = chosen
        /\ stage' = stage /\ catalogPending' = catalogPending /\ versions' = versions /\ answer' = answer
    BY <1>4 DEF C!FindInstallations
  <2>2. /\ (\A i : C!Asked(i)' <=> C!Asked(i))
        /\ query' = query /\ ever' = ever /\ always' = always /\ latest' = latest /\ stayed' = stayed
        /\ C!Wanted(query)' = C!Wanted(query) /\ CatalogTyped' /\ QueryTyped(query)' /\ HistoryHolds' /\ CallHolds
    BY <1>1, StaysTyped DEF Stays, C!history, C!Wanted, CatalogInv
  <2>3. Chosen(chosen)
    BY <1>2
  <2> HIDE DEF chosen
  <2>4. Chosen(found)'
    BY <2>1, <2>2, <2>3 DEF Chosen
  <2>5. CallHolds'
    BY <1>1, <2>1, <2>2 DEF CallHolds, Listed, C!FallsBack
  <2>. QED
    BY <1>1, <2>1, <2>2, <2>4, <2>5 DEF CatalogInv, Stays
<1>. QED
  BY <1>3, <1>4

LEMMA FindPluginsHolds ==
  ASSUME CatalogInv, C!FindPlugins PROVE CatalogInv'
<1>1. catalogAt = "plugins" /\ Stays /\ faulty' = faulty /\ C!Reads({i \in found : C!Active(i) /\ C!Matches(i)})
  BY DEF C!FindPlugins, Stays, CatalogInv
<1>2. Chosen(found)
  BY <1>1 DEF CatalogInv
<1>. QED
  BY <1>1, <1>2, ReadsHold

LEMMA ReadFailsHolds ==
  ASSUME CatalogInv, C!ReadFails PROVE CatalogInv'
<1>1. catalogAt # "new" /\ Stays /\ C!Ends("failed", {}, FALSE)
  BY DEF C!ReadFails, Stays, CatalogInv
<1>2. answer' = [st |-> "failed", items |-> {}, latest |-> FALSE]
  BY <1>1 DEF C!Ends
<1>3. C!NothingInvented' /\ C!NothingMissed'
  BY <1>2 DEF C!NothingInvented, C!NothingMissed
<1>. QED
  BY <1>1, <1>3, EndsWell

LEMMA AskHolds ==
  ASSUME CatalogInv, NEW q \in C!Queries, C!Ask(q) PROVE CatalogInv'
<1>1. /\ catalogAt = "new" /\ query' = q /\ faulty' = faulty /\ UNCHANGED <<stored, sessions>>
      /\ ever' = Now /\ always' = Now /\ latest' = C!LatestOf(Now) /\ stayed' = C!LatestOf(Now)
  BY DEF C!Ask, C!database, Now
<1>2. CatalogTyped' /\ Now' = Now /\ CatalogTyped /\ faulty' \in BOOLEAN
  BY <1>1 DEF CatalogInv, CatalogTyped, Now, C!InDebug
<1>3. QueryTyped(query)' /\ QueryTyped(q)
  <2>1. QueryTyped(q)
    BY QueriesTyped
  <2>. QED
    BY <1>1, <2>1 DEF QueryTyped, C!Wanted
<1>4. HistoryHolds'
  <2>1. C!LatestOf(Now)' = C!LatestOf(Now)
    BY <1>2 DEF C!LatestOf
  <2>2. C!LatestOf(Now) \subseteq Now
    BY DEF C!LatestOf
  <2>. QED
    BY <1>1, <1>2, <2>1, <2>2, NowIsTyped DEF HistoryHolds
<1>5. CASE C!Wanted(q) \cap Debugged # {} /\ ~enabled
  <2>1. catalogAt' = "answered" /\ answer' = [st |-> "failed", items |-> {}, latest |-> FALSE]
    BY <1>5 DEF C!Ask, C!Ends
  <2>2. C!NothingInvented' /\ C!NothingMissed'
    BY <2>1 DEF C!NothingInvented, C!NothingMissed
  <2>. QED
    BY <1>2, <1>3, <1>4, <2>1, <2>2 DEF CatalogInv
<1>6. CASE ~(C!Wanted(q) \cap Debugged # {} /\ ~enabled)
  <2>1. C!Consults(C!FirstCall(q), q) /\ versions' = versions /\ answer' = answer
    BY <1>6 DEF C!Ask
  <2>2. /\ stage' = C!FirstCall(q) /\ found' = {} /\ catalogPending' = C!Wanted(q) \cap Debugged /\ versions' = {}
        /\ catalogAt' \in {"installations", "sessions"} /\ answer'.items = {}
        /\ catalogAt' = "sessions" <=> C!Wanted(q) \cap C!Stored = {}
    BY <1>1, <2>1 DEF C!Consults, CatalogInv
  <2>3. C!Wanted(query)' = C!Wanted(q) /\ C!Wanted(q) \subseteq C!Stored \cup Debugged /\ C!Wanted(q) # {} /\ C!Stored \cap Debugged = {}
    BY <1>1, <1>3, CatalogAssumption DEF C!Wanted, QueryTyped, C!Stored
  <2>4. q.kind # "list" => \E s \in C!Stored \cup Debugged : C!Wanted(q) = {s}
    BY <1>3 DEF QueryTyped
  <2>5. CallHolds'
    <3>1. /\ stage' \in {"list", "versions", "tool"} /\ (q.kind = "list" <=> stage' = "list")
          /\ (q.kind = "versions" => stage' = "versions") /\ (q.kind = "get" => stage' = "tool")
          /\ (q.kind = "detail" => stage' = "versions")
      BY <1>3, <2>2 DEF C!FirstCall, QueryTyped
    <3>. QED
      BY <1>1, <2>2, <2>3, <2>4, <3>1 DEF CallHolds
  <2>6. catalogAt' = "sessions" => Gathered(found)'
    <3>1. \A i : C!Asked(i)' => i.source \in C!Wanted(q)
      BY <1>1, <2>3 DEF C!Asked
    <3>. QED
      BY <2>2, <2>3, <3>1 DEF Gathered
  <2>. QED
    BY <1>2, <1>3, <1>4, <2>2, <2>5, <2>6 DEF CatalogInv
<1>. QED
  BY <1>5, <1>6

-----------------------------------------------------------------------------
(* Installations and sessions change                                       *)

LEMMA ChangesHold ==
  ASSUME CatalogInv, C!Changes, CatalogTyped' PROVE CatalogInv'
<1>1. /\ catalogAt # "answered" /\ query' = query /\ catalogAt' = catalogAt /\ stage' = stage /\ found' = found /\ catalogPending' = catalogPending
      /\ versions' = versions /\ answer' = answer /\ faulty' = faulty
  BY DEF C!Changes, C!progress
<1>2. CASE catalogAt = "new"
  BY <1>1, <1>2 DEF CatalogInv
<1>3. CASE catalogAt # "new"
  <2> DEFINE now == Now'
  <2>1. /\ ever' = ever \cup now /\ always' = always \cap now
        /\ latest' = latest \cup C!LatestOf(now) /\ stayed' = stayed \cap C!LatestOf(now)
    BY <1>3 DEF C!Changes, Now
  <2>2. C!LatestOf(Now)' = C!LatestOf(now)
    BY DEF C!LatestOf
  <2>3. C!LatestOf(now) \subseteq now
    BY DEF C!LatestOf
  <2>4. now \subseteq C!Items
    <3>1. Now' \subseteq C!Items
      BY DEF CatalogTyped, Now, C!InDebug
    <3>. QED
      BY <3>1
  <2>5. HistoryHolds /\ QueryTyped(query) /\ CallHolds
    BY <1>1, <1>3 DEF CatalogInv
  <2> HIDE DEF now
  <2>6. Now' = now
    BY DEF now
  <2>7. HistoryHolds'
    BY <2>1, <2>2, <2>3, <2>4, <2>5, <2>6 DEF HistoryHolds
  <2>8. QueryTyped(query)'
    BY <1>1, <2>5 DEF QueryTyped, C!Wanted
  <2>9. /\ (\A i : C!Asked(i)' <=> C!Asked(i)) /\ (\A i : C!Passes(i)' <=> C!Passes(i)) /\ C!Wanted(query)' = C!Wanted(query)
        /\ ever \subseteq ever' /\ always' \subseteq always /\ latest \subseteq latest' /\ stayed' \subseteq stayed
    BY <1>1, <2>1 DEF C!Asked, C!Passes, C!Wanted
  <2>10. CallHolds'
    BY <1>1, <2>5, <2>9 DEF CallHolds, Listed, C!FallsBack
  <2>11. catalogAt = "plugins" => Chosen(found)'
    BY <1>1, <2>9 DEF CatalogInv, Chosen
  <2>12. catalogAt = "sessions" => Gathered(found)'
    BY <1>1, <2>9 DEF CatalogInv, Gathered
  <2>. QED
    BY <1>1, <1>3, <2>7, <2>8, <2>10, <2>11, <2>12 DEF CatalogInv
<1>. QED
  BY <1>2, <1>3

LEMMA CatalogInvKept ==
  ASSUME CatalogInv, [C!Next]_catalogVars PROVE CatalogInv'
<1>1. ASSUME NEW q \in C!Queries, C!Ask(q) PROVE CatalogInv'
  BY <1>1, AskHolds
<1>2. ASSUME NEW s \in Debugged, NEW down \in BOOLEAN, C!ReadSession(s, down) PROVE CatalogInv'
  BY <1>2, ReadSessionHolds
<1>3. ASSUME NEW i \in {i \in C!Items : i.source \in C!Stored}, C!Install(i) PROVE CatalogInv'
  <2>1. CatalogTyped'
    BY <1>3 DEF C!Install, CatalogInv, CatalogTyped
  <2>. QED
    BY <1>3, <2>1, ChangesHold DEF C!Install
<1>4. ASSUME NEW i \in stored, C!Uninstall(i) PROVE CatalogInv'
  <2>1. CatalogTyped'
    BY <1>4 DEF C!Uninstall, CatalogInv, CatalogTyped
  <2>. QED
    BY <1>4, <2>1, ChangesHold DEF C!Uninstall
<1>5. ASSUME NEW s \in Debugged, NEW ts \in {ts \in SUBSET C!Contents : C!OnePerPlugin(ts)}, C!SessionChanges(s, ts)
      PROVE  CatalogInv'
  <2>1. \A t \in sessions' : (t \in sessions /\ t.source # s) \/ (t.source = s /\ t.targets = ts /\ ts # {})
    BY <1>5 DEF C!SessionChanges
  <2>2. \A t, u \in sessions' : t.source = s /\ u.source = s => t = u
    BY <1>5 DEF C!SessionChanges
  <2>3. CatalogTyped'
    <3>1. stored' = stored /\ CatalogTyped
      BY <1>5 DEF C!SessionChanges, CatalogInv
    <3>2. \A t \in sessions' : t.source \in Debugged /\ C!OnePerPlugin(t.targets)
      BY <1>5, <2>1, <3>1 DEF CatalogTyped
    <3>3. \A t, u \in sessions' : t.source = u.source => t = u
      BY <2>1, <2>2, <3>1 DEF CatalogTyped
    <3>. QED
      BY <3>1, <3>2, <3>3 DEF CatalogTyped
  <2>. QED
    BY <1>5, <2>3, ChangesHold DEF C!SessionChanges
<1>6. CASE UNCHANGED catalogVars
  <2>1. /\ UNCHANGED <<query, catalogAt, stage, found, catalogPending, versions, answer, faulty, stored, sessions>>
        /\ UNCHANGED <<ever, always, latest, stayed>>
    BY <1>6 DEF catalogVars, C!database, C!progress, C!history
  <2>2. CatalogTyped' /\ Now' = Now /\ C!LatestOf(Now)' = C!LatestOf(Now) /\ C!Wanted(query)' = C!Wanted(query)
    BY <2>1 DEF CatalogInv, CatalogTyped, Now, C!InDebug, C!LatestOf, C!Wanted
  <2>3. (\A i : C!Asked(i)' <=> C!Asked(i)) /\ (\A i : C!Passes(i)' <=> C!Passes(i)) /\ (C!FallsBack' <=> C!FallsBack)
    BY <2>1 DEF C!Asked, C!Passes, C!Wanted, C!FallsBack
  <2>4. (HistoryHolds' <=> HistoryHolds) /\ (QueryTyped(query)' <=> QueryTyped(query))
    BY <2>1, <2>2 DEF HistoryHolds, QueryTyped
  <2>5. (Chosen(found)' <=> Chosen(found)) /\ (Gathered(found)' <=> Gathered(found)) /\ (CallHolds' <=> CallHolds)
    BY <2>1, <2>2, <2>3 DEF Chosen, Gathered, CallHolds, Listed
  <2>6. (C!NothingInvented' <=> C!NothingInvented) /\ (C!NothingMissed' <=> C!NothingMissed)
    BY <2>1, <2>3 DEF C!NothingInvented, C!NothingMissed
  <2>. QED
    BY <2>1, <2>2, <2>4, <2>5, <2>6 DEF CatalogInv
<1>. QED
  BY <1>1, <1>2, <1>3, <1>4, <1>5, <1>6, FindInstallationsHolds, FindPluginsHolds, ReadFailsHolds DEF C!Next

(* What a query answers was there at some time while it ran, and what was  *)
(* there all the time is in its answer, whatever comes and goes meanwhile. *)
THEOREM AnswersAlwaysCurrent == PartsSpec => []AnswersAreCurrent
<1>1. PartsInit => CatalogInv
  BY CatalogInvAtStart DEF PartsInit
<1>2. CatalogInv /\ [PartsNext]_allVars => CatalogInv'
  BY CatalogInvKept, PartsStep
<1>3. CatalogInv => AnswersAreCurrent
  BY CatalogInvSuffices DEF AnswersAreCurrent
<1>. QED
  BY <1>1, <1>2, <1>3, PTL DEF PartsSpec

-----------------------------------------------------------------------------
(* PluginPackage                                                           *)

LogoFiles == {K!Logo(o, image) : o \in K!Owners, image \in BOOLEAN}
PackageFiles == LogoFiles \cup K!Assets \cup {K!IndexJs, K!Manifest, K!Readme}
Manifests == [icon : LogoFiles, children : UNION {[ids -> LogoFiles] : ids \in SUBSET Children}]
Outputs == [files : SUBSET PackageFiles, manifest : Manifests \cup {None}]

(* The output has a manifest when it has the file.                         *)
Described(output) == K!Manifest \in output.files => output.manifest \in Manifests

Building == {"plan", "logos", "statics", "zip"}

PackageTyped ==
  /\ source \in K!Directories /\ edited \in BOOLEAN
  /\ packageAt \in {"idle", "bundle"} \cup Building
  /\ packageAt \in Building => code \in [children : SUBSET Children, valid : BOOLEAN]
  /\ plan \subseteq LogoFiles
  /\ dist \in Outputs /\ Described(dist)
  /\ pkg # None =>
       /\ pkg \in [whole : BOOLEAN, files : SUBSET PackageFiles, manifest : Manifests \cup {None}]
       /\ pkg.whole => Described(pkg)

StaticsOf(dir) == dir.assets \cup (IF dir.readme THEN {K!Readme} ELSE {})

(* What a build has put out so far is what the directory holds, as long as *)
(* that has not changed since the build began.                             *)
FollowsSource ==
  ~edited =>
    /\ packageAt = "plan" => code.children = source.children /\ dist.files = {K!IndexJs}
    /\ packageAt \in {"logos", "statics", "zip"} =>
         /\ K!Manifest \in dist.files
         /\ DOMAIN dist.manifest.children = source.children
         /\ K!IconsOf(dist.manifest) \subseteq source.logos
    /\ packageAt = "logos" => dist.files = {K!IndexJs, K!Manifest} /\ plan = K!IconsOf(dist.manifest)
    /\ packageAt = "statics" => dist.files = {K!IndexJs, K!Manifest} \cup K!IconsOf(dist.manifest)
    /\ packageAt = "zip" =>
         dist.files = {K!IndexJs, K!Manifest} \cup K!IconsOf(dist.manifest) \cup StaticsOf(source)

PackageInv == PackageTyped /\ FollowsSource /\ K!IconsResolve

(* No file of one kind is one of another.                                  *)
LEMMA KindsOfFilesDiffer ==
  /\ \A f \in LogoFiles : f.dir = <<>> /\ f.name = "logo" /\ f.image \in BOOLEAN /\ f.of \in K!Owners
  /\ \A f \in K!Assets : f.name = "picture"
  /\ \A f \in {K!IndexJs, K!Manifest, K!Readme} : f.dir = <<>> /\ f.name \in {"index.js", "manifest.json", "README.md"}
  /\ <<"assets">> # <<>>
  /\ K!IndexJs # K!Manifest /\ K!IndexJs # K!Readme /\ K!Manifest # K!Readme
<1>1. \A f \in LogoFiles : f.dir = <<>> /\ f.name = "logo" /\ f.image \in BOOLEAN /\ f.of \in K!Owners
  BY DEF LogoFiles, K!Logo, K!File
<1>2. \A f \in K!Assets : f.name = "picture"
  BY DEF K!Assets, K!File
<1>3. \A f \in {K!IndexJs, K!Manifest, K!Readme} : f.dir = <<>> /\ f.name \in {"index.js", "manifest.json", "README.md"}
  BY DEF K!IndexJs, K!Manifest, K!Readme, K!File
<1>4. <<"assets">> # <<>>
  OBVIOUS
<1>5. K!IndexJs # K!Manifest /\ K!IndexJs # K!Readme /\ K!Manifest # K!Readme
  BY DEF K!IndexJs, K!Manifest, K!Readme, K!File
<1>. QED
  BY <1>1, <1>2, <1>3, <1>4, <1>5

LEMMA DirectoryHolds ==
  ASSUME NEW s \in K!Directories
  PROVE  /\ s.children \in SUBSET Children /\ s.valid \in BOOLEAN
         /\ s.logos \subseteq LogoFiles /\ s.assets \subseteq K!Assets
BY DEF K!Directories, LogoFiles

(* The icons a manifest names are logo files.                              *)
LEMMA IconsAreLogos ==
  ASSUME NEW manifest \in Manifests PROVE K!IconsOf(manifest) \subseteq LogoFiles
<1>1. manifest.icon \in LogoFiles
  BY DEF Manifests
<1>2. PICK ids \in SUBSET Children : manifest.children \in [ids -> LogoFiles]
  BY DEF Manifests
<1>. QED
  BY <1>1, <1>2 DEF K!IconsOf

LEMMA PackageInvAtStart ==
  ASSUME K!Init PROVE PackageInv
<1>1. dist \in Outputs /\ K!Manifest \notin dist.files
  BY DEF K!Init, K!Empty, Outputs
<1>. QED
  BY <1>1, PackageAssumption DEF K!Init, PackageInv, PackageTyped, Building, Described, FollowsSource, K!IconsResolve

(* What the plan of a build writes.                                        *)
LEMMA PlanDescribes ==
  ASSUME PackageInv, K!MakePlan, packageAt' # "idle"
  PROVE  /\ packageAt = "plan" /\ packageAt' = "logos" /\ UNCHANGED code
         /\ dist'.files = dist.files \cup {K!Manifest} /\ dist'.manifest \in Manifests
         /\ dist' \in Outputs
         /\ plan' = K!IconsOf(dist'.manifest) /\ plan' \subseteq source.logos
         /\ DOMAIN dist'.manifest.children = code.children
<1>1. packageAt = "plan" /\ code.valid /\ packageAt' = "logos" /\ UNCHANGED code
  BY DEF K!MakePlan, K!Stops
<1>2. PICK icon \in K!LogosOf(Root), icons \in [code.children -> source.logos] :
             /\ dist' = [files |-> dist.files \cup {K!Manifest},
                         manifest |-> [icon |-> icon, children |-> icons]]
             /\ plan' = {icon} \cup {icons[c] : c \in code.children}
  BY <1>1 DEF K!MakePlan, K!Stops
<1>3. code.children \in SUBSET Children /\ source.logos \subseteq LogoFiles
  BY <1>1, DirectoryHolds DEF PackageInv, PackageTyped, Building
<1>4. icon \in source.logos
  BY DEF K!LogosOf
<1>5. [icon |-> icon, children |-> icons] \in Manifests
  <2>1. icons \in [code.children -> LogoFiles]
    BY <1>3
  <2>. QED
    BY <2>1, <1>3, <1>4 DEF Manifests
<1>6. dist.files \subseteq PackageFiles /\ K!Manifest \in PackageFiles
  BY DEF PackageInv, PackageTyped, Outputs, PackageFiles
<1>7. dist' \in Outputs
  BY <1>2, <1>5, <1>6 DEF Outputs
<1>8. plan' = K!IconsOf(dist'.manifest) /\ plan' \subseteq source.logos
  BY <1>2, <1>4 DEF K!IconsOf
<1>. QED
  BY <1>1, <1>2, <1>5, <1>7, <1>8

LEMMA PackageTypeKept ==
  ASSUME PackageInv, [K!Next]_packageVars PROVE PackageTyped'
<1>a. PackageTyped
  BY DEF PackageInv
<1>s. source.logos \subseteq LogoFiles /\ source.assets \subseteq K!Assets /\ source.children \in SUBSET Children
      /\ source.valid \in BOOLEAN
  BY <1>a, DirectoryHolds DEF PackageTyped
<1> USE DEF K!local, K!building, K!Stops
<1>1. ASSUME NEW isPack, K!Begin(isPack) PROVE PackageTyped'
  BY <1>a, <1>1 DEF PackageTyped, K!Begin, Building, Described
<1>2. CASE K!Bundle
  <2>1. dist' \in Outputs /\ K!Manifest \notin dist'.files
    BY <1>2, KindsOfFilesDiffer DEF K!Bundle, K!Empty, Outputs, PackageFiles
  <2>2. packageAt' \in {"idle", "plan"} /\ plan' \subseteq LogoFiles /\ UNCHANGED <<source, edited, pkg>>
    BY <1>a, <1>2 DEF K!Bundle, PackageTyped
  <2>3. packageAt' = "plan" => code' \in [children : SUBSET Children, valid : BOOLEAN]
    BY <1>2, <1>s DEF K!Bundle
  <2>. QED
    BY <1>a, <2>1, <2>2, <2>3 DEF PackageTyped, Building, Described
<1>3. CASE K!MakePlan
  <2>1. UNCHANGED <<source, edited, pkg>> /\ packageAt = "plan"
    BY <1>3 DEF K!MakePlan
  <2>2. CASE packageAt' # "idle"
    BY <1>a, <1>s, <1>3, <2>1, <2>2, PlanDescribes DEF PackageTyped, Building, Described
  <2>3. CASE packageAt' = "idle"
    <3>1. dist' = dist /\ plan' = {}
      BY <1>3, <2>3 DEF K!MakePlan
    <3>. QED
      BY <1>a, <2>1, <2>3, <3>1 DEF PackageTyped, Building, Described
  <2>. QED
    BY <2>2, <2>3
<1>4. CASE K!CopyLogos
  <2>1. UNCHANGED <<source, edited, pkg>> /\ packageAt = "logos"
    BY <1>4 DEF K!CopyLogos
  <2>2. PICK some \in SUBSET LogoFiles : dist' = [dist EXCEPT !.files = @ \cup some]
    BY <1>4, <1>s DEF K!CopyLogos
  <2>3. dist' \in Outputs /\ dist'.manifest = dist.manifest /\ dist'.files = dist.files \cup some
    BY <1>a, <2>2 DEF PackageTyped, Outputs, PackageFiles
  <2>4. Described(dist')
    BY <1>a, <2>3, KindsOfFilesDiffer DEF PackageTyped, Described
  <2>5. (packageAt' = "statics" /\ code' = code /\ plan' = plan) \/ (packageAt' = "idle" /\ plan' = {})
    BY <1>4 DEF K!CopyLogos
  <2>. QED
    BY <1>a, <2>1, <2>3, <2>4, <2>5 DEF PackageTyped, Building, Described
<1>5. CASE K!CopyStatics
  <2>1. UNCHANGED <<source, edited, pkg>> /\ packageAt = "statics"
    BY <1>5 DEF K!CopyStatics
  <2>2. PICK some \in SUBSET (K!Assets \cup {K!Readme}) : dist' = [dist EXCEPT !.files = @ \cup some]
    <3>1. dist' = [dist EXCEPT !.files = @ \cup StaticsOf(source)]
      BY <1>5, <1>s DEF K!CopyStatics, StaticsOf
    <3>. QED
      BY <1>s, <3>1 DEF StaticsOf
  <2>3. dist' \in Outputs /\ dist'.manifest = dist.manifest /\ dist'.files = dist.files \cup some
    BY <1>a, <2>2 DEF PackageTyped, Outputs, PackageFiles
  <2>4. Described(dist')
    BY <1>a, <2>3, KindsOfFilesDiffer DEF PackageTyped, Described, K!Manifest, K!File
  <2>5. (packageAt' = "zip" /\ code' = code /\ plan' = plan) \/ (packageAt' = "idle" /\ plan' = {})
    BY <1>5 DEF K!CopyStatics
  <2>. QED
    BY <1>a, <2>1, <2>3, <2>4, <2>5 DEF PackageTyped, Building, Described
<1>6. CASE K!Zip
  <2>1. packageAt' = "idle" /\ plan' = {} /\ UNCHANGED <<source, edited, dist>>
    BY <1>6 DEF K!Zip
  <2>2. pkg' = [whole |-> TRUE, files |-> dist.files, manifest |-> dist.manifest]
    BY <1>6 DEF K!Zip
  <2>3. pkg' \in [whole : BOOLEAN, files : SUBSET PackageFiles, manifest : Manifests \cup {None}] /\ Described(pkg')
    BY <1>a, <2>2 DEF PackageTyped, Outputs, Described
  <2>. QED
    BY <1>a, <2>1, <2>3 DEF PackageTyped, Building, Described
<1>7. CASE K!Interrupt
  <2>1. packageAt' = "idle" /\ plan' = {} /\ UNCHANGED <<source, edited, dist>>
    BY <1>7 DEF K!Interrupt
  <2>2. pkg' = pkg \/ pkg' = [whole |-> FALSE, files |-> {}, manifest |-> None]
    BY <1>7 DEF K!Interrupt
  <2>3. pkg' # None => /\ pkg' \in [whole : BOOLEAN, files : SUBSET PackageFiles, manifest : Manifests \cup {None}]
                       /\ pkg'.whole => Described(pkg')
    <3>1. CASE pkg' = pkg
      BY <1>a, <3>1 DEF PackageTyped, Described
    <3>2. CASE pkg' = [whole |-> FALSE, files |-> {}, manifest |-> None]
      BY <3>2
    <3>. QED
      BY <2>2, <3>1, <3>2
  <2>. QED
    BY <1>a, <2>1, <2>3 DEF PackageTyped, Building, Described
<1>8. CASE K!Upload
  BY <1>a, <1>8 DEF PackageTyped, K!Upload, Described
<1>9. ASSUME NEW s \in SourceDirectories, K!Edit(s) PROVE PackageTyped'
  BY <1>a, <1>9, PackageAssumption DEF PackageTyped, K!Edit, Described
<1>10. CASE UNCHANGED packageVars
  BY <1>a, <1>10 DEF PackageTyped, packageVars, Described
<1>. QED
  BY <1>1, <1>2, <1>3, <1>4, <1>5, <1>6, <1>7, <1>8, <1>9, <1>10 DEF K!Next

LEMMA FollowsSourceKept ==
  ASSUME PackageInv, [K!Next]_packageVars PROVE FollowsSource'
<1>a. PackageTyped /\ FollowsSource
  BY DEF PackageInv
<1>s. source.logos \subseteq LogoFiles /\ source.assets \subseteq K!Assets
  BY <1>a, DirectoryHolds DEF PackageTyped
<1> USE DEF K!local, K!building
<1>1. ASSUME NEW isPack, K!Begin(isPack) PROVE FollowsSource'
  BY <1>1 DEF FollowsSource, K!Begin
<1>2. CASE K!Bundle
  BY <1>2 DEF FollowsSource, K!Bundle, K!Stops
<1>3. CASE K!MakePlan
  <2>1. UNCHANGED <<source, edited>> /\ packageAt = "plan"
    BY <1>3 DEF K!MakePlan
  <2>2. CASE packageAt' # "idle"
    BY <1>a, <1>3, <2>1, <2>2, PlanDescribes DEF FollowsSource, K!IconsOf
  <2>3. CASE packageAt' = "idle"
    BY <2>3 DEF FollowsSource
  <2>. QED
    BY <2>2, <2>3
<1>4. CASE K!CopyLogos
  <2>1. UNCHANGED <<source, edited>> /\ packageAt = "logos"
    BY <1>4 DEF K!CopyLogos
  <2>2. CASE packageAt' # "idle"
    <3>1. dist' = [dist EXCEPT !.files = @ \cup plan] /\ packageAt' = "statics"
      BY <1>4, <2>2 DEF K!CopyLogos, K!Stops
    <3>2. dist'.manifest = dist.manifest /\ dist'.files = dist.files \cup plan
      BY <1>a, <3>1 DEF PackageTyped, Outputs
    <3>. QED
      BY <1>a, <2>1, <3>1, <3>2 DEF FollowsSource
  <2>3. CASE packageAt' = "idle"
    BY <2>3 DEF FollowsSource
  <2>. QED
    BY <2>2, <2>3
<1>5. CASE K!CopyStatics
  <2>1. UNCHANGED <<source, edited>> /\ packageAt = "statics" /\ packageAt' \in {"zip", "idle"}
    BY <1>5 DEF K!CopyStatics, K!Stops
  <2>2. dist' = [dist EXCEPT !.files = @ \cup StaticsOf(source)]
    BY <1>5 DEF K!CopyStatics, StaticsOf
  <2>3. dist'.manifest = dist.manifest /\ dist'.files = dist.files \cup StaticsOf(source)
    BY <1>a, <2>2 DEF PackageTyped, Outputs
  <2>. QED
    BY <1>a, <2>1, <2>3 DEF FollowsSource, StaticsOf
<1>6. CASE K!Zip \/ K!Interrupt
  BY <1>6 DEF FollowsSource, K!Zip, K!Interrupt, K!Stops
<1>7. CASE K!Upload
  BY <1>a, <1>7 DEF FollowsSource, K!Upload, StaticsOf, K!IconsOf
<1>8. ASSUME NEW s \in SourceDirectories, K!Edit(s) PROVE FollowsSource'
  BY <1>8 DEF FollowsSource, K!Edit
<1>9. CASE UNCHANGED packageVars
  BY <1>a, <1>9 DEF FollowsSource, packageVars, StaticsOf, K!IconsOf
<1>. QED
  BY <1>1, <1>2, <1>3, <1>4, <1>5, <1>6, <1>7, <1>8, <1>9 DEF K!Next

LEMMA IconsResolveKept ==
  ASSUME PackageInv, [K!Next]_packageVars PROVE K!IconsResolve'
<1>1. CASE UNCHANGED uploaded
  BY <1>1 DEF PackageInv, K!IconsResolve
<1>2. ASSUME K!Upload, uploaded' # None PROVE K!IconsResolve'
  <2>1. pkg # None /\ pkg.whole /\ K!Accepts(pkg)
    BY <1>2 DEF K!Upload
  <2>2. pkg.manifest \in Manifests
    BY <2>1 DEF PackageInv, PackageTyped, K!Accepts, Described
  <2> DEFINE Kept == {f \in pkg.files : K!IsAsset(f) \/ K!IsLogo(f) \/ f \in {K!IndexJs, K!Readme}}
  <2>3. uploaded' = [icons |-> K!Icons(pkg), readme |-> K!Readme \in pkg.files, files |-> {K!StoredFile(f) : f \in Kept}]
    BY <1>2 DEF K!Upload
  <2>4. ASSUME NEW f \in uploaded'.icons, f.image, f.of \notin Dotted PROVE f \in uploaded'.files
    <3>1. f \in pkg.files /\ f \in LogoFiles
      BY <2>2, <2>3, <2>4, IconsAreLogos DEF K!Icons
    <3>2. f \in Kept /\ K!StoredFile(f) = f
      BY <2>4, <3>1, KindsOfFilesDiffer DEF K!IsLogo, K!IsAsset, K!StoredFile
    <3>. QED
      BY <2>3, <3>2
  <2>5. ASSUME uploaded'.readme PROVE K!Readme \in uploaded'.files
    <3>1. K!Readme \in Kept /\ K!StoredFile(K!Readme) = K!Readme
      BY <2>3, <2>5, KindsOfFilesDiffer DEF K!IsAsset, K!StoredFile
    <3>. QED
      BY <2>3, <3>1
  <2>. QED
    BY <2>4, <2>5 DEF K!IconsResolve
<1>3. CASE uploaded' = None
  BY <1>3 DEF K!IconsResolve
<1>. QED
  BY <1>1, <1>2, <1>3 DEF K!Next, packageVars, K!Begin, K!Bundle, K!MakePlan, K!CopyLogos, K!CopyStatics, K!Zip, K!Interrupt, K!Edit

LEMMA PackageInvKept ==
  ASSUME PackageInv, [K!Next]_packageVars PROVE PackageInv'
BY PackageTypeKept, FollowsSourceKept, IconsResolveKept DEF PackageInv

LEMMA PacksFreshly ==
  ASSUME PackageInv, [K!Next]_packageVars, pkg' # pkg, pkg'.whole, ~edited
  PROVE  /\ pkg'.files \ source.logos = {K!IndexJs, K!Manifest} \cup source.assets \cup (IF source.readme THEN {K!Readme} ELSE {})
         /\ pkg'.files \cap source.logos = K!IconsOf(pkg'.manifest)
         /\ DOMAIN pkg'.manifest.children = source.children
<1>1. K!Zip
  BY DEF K!Next, packageVars, K!local, K!building, K!Begin, K!Bundle, K!MakePlan, K!CopyLogos, K!CopyStatics, K!Interrupt, K!Upload, K!Edit
<1>2. packageAt = "zip" /\ pkg'.files = dist.files /\ pkg'.manifest = dist.manifest
  BY <1>1 DEF K!Zip
<1>3. /\ dist.files = {K!IndexJs, K!Manifest} \cup K!IconsOf(dist.manifest) \cup StaticsOf(source)
      /\ DOMAIN dist.manifest.children = source.children
      /\ K!IconsOf(dist.manifest) \subseteq source.logos
  BY <1>2 DEF PackageInv, FollowsSource
<1>4. source.logos \subseteq LogoFiles /\ source.assets \subseteq K!Assets
  BY DirectoryHolds DEF PackageInv, PackageTyped
<1>5. ASSUME NEW f \in {K!IndexJs, K!Manifest} \cup StaticsOf(source) PROVE f \notin source.logos
  BY <1>4, <1>5, KindsOfFilesDiffer DEF StaticsOf
<1>. QED
  BY <1>2, <1>3, <1>5 DEF StaticsOf

(* What a stored package shows is among its files: the README, and icons   *)
(* with an image, unless the id of their tool has a dot.                   *)
THEOREM IconsAlwaysResolve == PartsSpec => []IconsResolve
<1>1. PartsInit => PackageInv
  BY PackageInvAtStart DEF PartsInit
<1>2. PackageInv /\ [PartsNext]_allVars => PackageInv'
  BY PackageInvKept, PartsStep
<1>3. PackageInv => IconsResolve
  BY DEF PackageInv, IconsResolve
<1>. QED
  BY <1>1, <1>2, <1>3, PTL DEF PartsSpec

(* A package that is written whole holds what its directory does, unless   *)
(* that was edited meanwhile.                                              *)
THEOREM PacksAlwaysFresh == PartsSpec => PacksAreFresh
<1>1. PartsInit => PackageInv
  BY PackageInvAtStart DEF PartsInit
<1>2. PackageInv /\ [PartsNext]_allVars => PackageInv'
  BY PackageInvKept, PartsStep
<1>3. PackageInv /\ [PartsNext]_allVars =>
        [pkg' # pkg /\ pkg'.whole /\ ~edited =>
           /\ pkg'.files \ source.logos = {K!IndexJs, K!Manifest} \cup source.assets \cup (IF source.readme THEN {K!Readme} ELSE {})
           /\ pkg'.files \cap source.logos = K!IconsOf(pkg'.manifest)
           /\ DOMAIN pkg'.manifest.children = source.children]_(K!vars)
  BY PacksFreshly, PartsStep
<1>. QED
  BY <1>1, <1>2, <1>3, PTL DEF PartsSpec, PacksAreFresh, K!PacksAreFresh

-----------------------------------------------------------------------------
(* PackageUpload                                                           *)

(* A sequence, of whatever it holds.                                       *)
IsSequence(seq) == seq \in Seq({seq[i] : i \in DOMAIN seq})

UploadsTyped ==
  /\ DOMAIN batch = UploadCalls /\ DOMAIN uploadAt = UploadCalls /\ DOMAIN todo = UploadCalls /\ DOMAIN done = UploadCalls
  /\ DOMAIN packages = UploadCalls /\ DOMAIN before = UploadCalls /\ DOMAIN failed = UploadCalls
  /\ uploadFaults \in Nat /\ others \in Nat
  /\ \A c \in UploadCalls :
       /\ IsSequence(done[c]) /\ (U!IsInstall(c) \/ IsSequence(failed[c]))
       /\ uploadAt[c] \in {"idle", "snapshot", "download"} => done[c] = <<>>
       /\ uploadAt[c] \in {"idle", "snapshot"} => failed[c] = <<>>
       /\ uploadAt[c] = "download" => U!IsInstall(c) /\ IsFiniteSet(packages[c])
       /\ uploadAt[c] = "rollback" => ~U!IsInstall(c)

(* As long as nothing expires or is deleted: an upload that has looked     *)
(* knows of all that was pending before in the default source and is not   *)
(* installed by now; and without faults only what its source has installed *)
(* is rolled back.                                                         *)
RollbacksSpare ==
  others = 0 =>
    \A c \in UploadCalls :
      /\ uploadAt[c] \in {"files", "create", "rollback"} /\ ~U!IsInstall(c) =>
           \A x \in initially : x[1] = System => x \in before[c] \cup installed
      /\ uploadAt[c] = "rollback" /\ uploadFaults = 0 => U!Place(c) \in installed

UploadInv == UploadsTyped /\ pending \cap installed = {} /\ RollbacksSpare /\ U!UploadsStand

LEMMA SameCardinality ==
  ASSUME NEW A PROVE U!Cardinality(A) = Cardinality(A)
BY DEF U!Cardinality, Cardinality

LEMMA HoldsOnly ==
  ASSUME NEW A, NEW seq \in Seq(A), NEW B, \A i \in 1..Len(seq) : seq[i] \in B
  PROVE  seq \in Seq(B)
<1>1. Len(seq) \in Nat /\ seq \in [1..Len(seq) -> A]
  OBVIOUS
<1>2. seq \in [1..Len(seq) -> B]
  BY <1>1
<1>. QED
  BY <1>1, <1>2

LEMMA AppendIsSequence ==
  ASSUME NEW seq, IsSequence(seq), NEW e
  PROVE  /\ IsSequence(Append(seq, e))
         /\ \A i \in DOMAIN Append(seq, e) :
              Append(seq, e)[i] = e \/ (i \in DOMAIN seq /\ Append(seq, e)[i] = seq[i])
         /\ \A i \in DOMAIN seq : i \in DOMAIN Append(seq, e) /\ Append(seq, e)[i] = seq[i]
         /\ \E i \in DOMAIN Append(seq, e) : Append(seq, e)[i] = e
<1> DEFINE A == {seq[i] : i \in DOMAIN seq} \cup {e}
<1>1. seq \in Seq(A) /\ e \in A /\ Len(seq) \in Nat /\ DOMAIN seq = 1..Len(seq)
  BY DEF IsSequence
<1>2. Append(seq, e) \in Seq(A) /\ Len(Append(seq, e)) = Len(seq) + 1
  BY <1>1
<1>3. DOMAIN Append(seq, e) = 1..(Len(seq) + 1)
  BY <1>2, <1>1
<1>4. \A i \in 1..Len(seq) : Append(seq, e)[i] = seq[i]
  BY <1>1
<1>5. Append(seq, e)[Len(seq) + 1] = e
  BY <1>1
<1>6. IsSequence(Append(seq, e))
  <2> DEFINE T == {Append(seq, e)[i] : i \in DOMAIN Append(seq, e)}
  <2>1. \A i \in 1..(Len(seq) + 1) : Append(seq, e)[i] \in T
    BY <1>3
  <2> HIDE DEF T
  <2>2. Append(seq, e) \in Seq(T)
    BY <1>1, <1>2, <2>1, HoldsOnly
  <2>. QED
    BY <2>2 DEF T, IsSequence
<1>. QED
  BY <1>1, <1>3, <1>4, <1>5, <1>6

(* A package more that is done.                                            *)
LEMMA AddsOneDone ==
  ASSUME UploadsTyped, NEW c \in UploadCalls, done' = [done EXCEPT ![c] = Append(@, U!Package(c))]
  PROVE  /\ DOMAIN done' = UploadCalls /\ \A d \in UploadCalls : IsSequence(done'[d])
         /\ \A d \in UploadCalls : \A i \in DOMAIN done'[d] :
              done'[d][i] = U!Package(c) \/ (i \in DOMAIN done[d] /\ done'[d][i] = done[d][i])
BY AppendIsSequence DEF UploadsTyped

(* A failure more.                                                         *)
LEMMA AddsOneFailed ==
  ASSUME UploadsTyped, NEW c \in UploadCalls, ~U!IsInstall(c), NEW e, failed' = [failed EXCEPT ![c] = Append(@, e)]
  PROVE  /\ DOMAIN failed' = UploadCalls /\ IsSequence(failed'[c])
         /\ \A d \in UploadCalls \ {c} : failed'[d] = failed[d]
         /\ \A i \in DOMAIN failed[c] : i \in DOMAIN failed'[c] /\ failed'[c][i] = failed[c][i]
         /\ \E i \in DOMAIN failed'[c] : failed'[c][i] = e
BY AppendIsSequence DEF UploadsTyped

(* What was rolled back remains so, where no more is forgotten.            *)
LEMMA RemainsRolledBack ==
  ASSUME NEW d \in UploadCalls, NEW x, U!RolledBack(d, x), batch'[d] = batch[d], before'[d] = before[d],
         \A i \in DOMAIN failed[d] : i \in DOMAIN failed'[d] /\ failed'[d][i] = failed[d][i],
         uploadFaults > 0 => uploadFaults' > 0, installed \subseteq installed'
  PROVE  U!RolledBack(d, x)'
BY DEF U!RolledBack, U!IsInstall

(* Where no more of the lists is forgotten.                                *)
Remembers ==
  \A d \in UploadCalls :
    \/ failed[d] = <<>> \/ U!IsInstall(d)
    \/ /\ batch'[d] = batch[d] /\ before'[d] = before[d]
       /\ \A i \in DOMAIN failed[d] : i \in DOMAIN failed'[d] /\ failed'[d][i] = failed[d][i]

LEMMA AllRemainRolledBack ==
  ASSUME Remembers, uploadFaults > 0 => uploadFaults' > 0, installed \subseteq installed'
  PROVE  \A d \in UploadCalls : \A x : U!RolledBack(d, x) => U!RolledBack(d, x)'
<1> TAKE d \in UploadCalls
<1> TAKE x
<1> HAVE U!RolledBack(d, x)
<1>1. failed[d] # <<>> /\ ~U!IsInstall(d)
  BY DEF U!RolledBack
<1>. QED
  BY <1>1, RemainsRolledBack DEF Remembers

(* Nothing leaves, and what is reported in addition is there.              *)
LEMMA StillStand ==
  ASSUME U!UploadsStand, others' = 0 => others = 0, initially' = initially,
         pending \cup installed \subseteq pending' \cup installed',
         \A d \in UploadCalls : \A x : U!RolledBack(d, x) => U!RolledBack(d, x)',
         \A d \in UploadCalls : \A i \in DOMAIN done'[d] :
           \/ <<batch'[d].source, done'[d][i][2]>> \in pending' \cup installed'
           \/ batch'[d].source = batch[d].source /\ i \in DOMAIN done[d] /\ done'[d][i] = done[d][i]
  PROVE  U!UploadsStand'
<1> SUFFICES ASSUME others' = 0 PROVE U!UploadsStand'
  BY DEF U!UploadsStand
<1>1. initially' \subseteq pending' \cup installed'
  BY DEF U!UploadsStand
<1>2. ASSUME NEW d \in UploadCalls, NEW i \in DOMAIN done'[d]
      PROVE  \/ <<batch'[d].source, done'[d][i][2]>> \in pending' \cup installed'
             \/ batch'[d].source = System /\ \E y : y = done'[d][i][2] /\ \E o \in UploadCalls : U!RolledBack(o, y)'
  <2>1. CASE batch'[d].source = batch[d].source /\ i \in DOMAIN done[d] /\ done'[d][i] = done[d][i]
    <3>1. \/ <<batch[d].source, done[d][i][2]>> \in pending \cup installed
          \/ batch[d].source = System /\ \E o \in UploadCalls : U!RolledBack(o, done[d][i][2])
      BY <2>1 DEF U!UploadsStand
    <3>. QED
      BY <2>1, <3>1
  <2>. QED
    BY <1>2, <2>1
<1>. QED
  BY <1>1, <1>2 DEF U!UploadsStand

LEMMA UploadInvAtStart ==
  ASSUME U!Init PROVE UploadInv
<1>1. IsSequence(<< >>)
  BY DEF IsSequence
<1>. QED
  BY <1>1 DEF U!Init, UploadInv, UploadsTyped, RollbacksSpare, U!UploadsStand

LEMMA UploadInvKept ==
  ASSUME UploadInv, [U!Next]_uploadVars PROVE UploadInv'
<1> USE DEF U!progress, U!database, U!bounds, U!Goes, U!Fault, U!IsInstall, U!Plugin, U!Package, U!Place
<1>a. UploadsTyped /\ pending \cap installed = {} /\ RollbacksSpare /\ U!UploadsStand
  BY DEF UploadInv
<1>b. ASSUME UNCHANGED <<done, installed, pending, initially, others, batch, before, failed>>,
             uploadFaults' \in Nat, uploadFaults' = 0 => uploadFaults = 0
      PROVE  U!UploadsStand'
  <2>1. uploadFaults > 0 => uploadFaults' > 0
    BY <1>a, <1>b DEF UploadsTyped
  <2>2. Remembers
    BY <1>b DEF Remembers
  <2>. QED
    BY <1>a, <1>b, <2>1, <2>2, StillStand, AllRemainRolledBack
<1>1. ASSUME NEW x \in U!Places, U!Other(x) PROVE UploadInv'
  <2>1. others' = others + 1 /\ UNCHANGED <<U!progress, uploadFaults, initially>>
        /\ pending' = pending \ {x} /\ installed' = installed \ {x}
    BY <1>1 DEF U!Other
  <2>2. others' \in Nat /\ others' # 0
    BY <1>a, <2>1 DEF UploadsTyped
  <2>. QED
    BY <1>a, <2>1, <2>2 DEF UploadInv, UploadsTyped, RollbacksSpare, U!UploadsStand
<1>2. ASSUME NEW c \in UploadCalls, NEW kind \in U!Kinds, NEW to \in Sources, NEW one \in Batches,
             U!Begin(c, kind, to, one) PROVE UploadInv'
  <2>1. IsFiniteSet(DOMAIN one)
    <3>1. DOMAIN one = 1..Len(one) /\ Len(one) \in Nat
      BY UploadAssumption
    <3>. QED
      BY <3>1, FS_Interval
  <2>2. /\ uploadAt[c] = "idle" /\ done[c] = <<>> /\ failed[c] = <<>>
        /\ uploadAt' = [uploadAt EXCEPT ![c] = IF kind = "install" THEN "download" ELSE "snapshot"]
        /\ batch' = [batch EXCEPT ![c] = [kind |-> kind, source |-> to, batch |-> one]]
        /\ packages' = [packages EXCEPT ![c] = DOMAIN one]
        /\ UNCHANGED <<todo, done, failed, before, pending, installed, uploadFaults, others, initially>>
    BY <1>a, <1>2 DEF U!Begin, UploadsTyped
  <2>3. UploadsTyped' /\ RollbacksSpare'
    BY <1>a, <2>1, <2>2 DEF UploadsTyped, RollbacksSpare
  <2>4. \A d \in UploadCalls : d # c => batch'[d] = batch[d]
    BY <1>a, <2>2 DEF UploadsTyped
  <2>5. Remembers
    BY <2>2, <2>4 DEF Remembers
  <2>6. \A d \in UploadCalls : \A i \in DOMAIN done'[d] :
           batch'[d].source = batch[d].source /\ i \in DOMAIN done[d] /\ done'[d][i] = done[d][i]
    BY <2>2, <2>4
  <2>7. U!UploadsStand'
    BY <1>a, <2>2, <2>5, <2>6, StillStand, AllRemainRolledBack
  <2>. QED
    BY <1>a, <2>2, <2>3, <2>7 DEF UploadInv
<1>3. ASSUME NEW c \in UploadCalls, U!Snapshot(c) PROVE UploadInv'
  <2>1. /\ uploadAt[c] = "snapshot" /\ done[c] = <<>> /\ failed[c] = <<>>
        /\ UNCHANGED <<batch, packages, todo, done, failed, pending, installed, others, initially>>
        /\ uploadFaults' \in Nat /\ (uploadFaults' = 0 => uploadFaults = 0)
    BY <1>a, <1>3 DEF U!Snapshot, UploadsTyped
  <2>2. \/ /\ uploadAt' = [uploadAt EXCEPT ![c] = "files"]
           /\ before' = [before EXCEPT ![c] = {x \in pending : x[1] = System}]
        \/ uploadAt' = [uploadAt EXCEPT ![c] = "refused"] /\ before' = before
    BY <1>3 DEF U!Snapshot, U!Listed, U!Of
  <2>3. UploadsTyped'
    BY <1>a, <2>1, <2>2 DEF UploadsTyped
  <2>4. RollbacksSpare'
    <3>1. others = 0 => initially \subseteq pending \cup installed
      BY <1>a DEF U!UploadsStand
    <3>. QED
      BY <1>a, <2>1, <2>2, <3>1 DEF RollbacksSpare, UploadsTyped
  <2>5. Remembers
    BY <1>a, <2>1, <2>2 DEF Remembers, UploadsTyped
  <2>6. uploadFaults > 0 => uploadFaults' > 0
    BY <1>a, <2>1 DEF UploadsTyped
  <2>7. U!UploadsStand'
    BY <1>a, <2>1, <2>5, <2>6, StillStand, AllRemainRolledBack
  <2>. QED
    BY <1>a, <2>1, <2>3, <2>4, <2>7 DEF UploadInv
<1>4. ASSUME NEW c \in UploadCalls, U!Download(c) PROVE UploadInv'
  <2>1. PICK lost \in SUBSET packages[c] : uploadFaults' = uploadFaults + U!Cardinality(lost)
    BY <1>4 DEF U!Download
  <2>2. /\ uploadAt[c] = "download" /\ uploadAt' = [uploadAt EXCEPT ![c] = "files"]
        /\ DOMAIN packages' = DOMAIN packages /\ DOMAIN failed' = DOMAIN failed
    BY <1>4 DEF U!Download
  <2>3. \A d \in UploadCalls : d # c => packages'[d] = packages[d] /\ failed'[d] = failed[d]
    BY <1>a, <1>4 DEF U!Download, UploadsTyped
  <2>4. UNCHANGED <<batch, todo, done, before, pending, installed, others, initially>>
    BY <1>4 DEF U!Download
  <2>5. U!Cardinality(lost) \in Nat
    <3>1. IsFiniteSet(packages[c])
      BY <1>a, <2>2 DEF UploadsTyped
    <3>. QED
      BY <3>1, FS_Subset, FS_CardinalityType, SameCardinality
  <2>6. uploadFaults' \in Nat /\ (uploadFaults' = 0 => uploadFaults = 0) /\ (uploadFaults > 0 => uploadFaults' > 0)
    BY <1>a, <2>1, <2>5 DEF UploadsTyped
  <2>7. U!IsInstall(c)
    BY <1>a, <2>2 DEF UploadsTyped
  <2>8. UploadsTyped'
    BY <1>a, <2>2, <2>3, <2>4, <2>6, <2>7 DEF UploadsTyped
  <2>9. RollbacksSpare'
    BY <1>a, <2>2, <2>3, <2>4, <2>6, <2>7 DEF UploadsTyped, RollbacksSpare
  <2>10. Remembers
    BY <2>3, <2>4, <2>7 DEF Remembers
  <2>11. U!UploadsStand'
    BY <1>a, <2>4, <2>6, <2>10, StillStand, AllRemainRolledBack
  <2>. QED
    BY <1>a, <2>4, <2>8, <2>9, <2>11 DEF UploadInv
<1>c. ASSUME NEW c \in UploadCalls, uploadAt[c] = "files",
             UNCHANGED <<batch, done, before, pending, installed, others, initially>>,
             DOMAIN todo' = DOMAIN todo, DOMAIN packages' = DOMAIN packages,
             \A d \in UploadCalls : d # c => packages'[d] = packages[d] /\ todo'[d] = todo[d],
             uploadAt' = uploadAt \/ \E at : uploadAt' = [uploadAt EXCEPT ![c] = at],
             uploadAt'[c] \in {"files", "create", "threw"},
             failed' = failed \/ \E e : failed' = [failed EXCEPT ![c] = Append(@, e)],
             uploadFaults' \in {uploadFaults, uploadFaults + 1}
      PROVE  UploadInv'
  <2>1. uploadFaults' \in Nat /\ (uploadFaults' = 0 => uploadFaults = 0) /\ (uploadFaults > 0 => uploadFaults' > 0)
    BY <1>a, <1>c DEF UploadsTyped
  <2>2. /\ DOMAIN failed' = UploadCalls
        /\ \A d \in UploadCalls \ {c} : failed'[d] = failed[d]
        /\ U!IsInstall(c) \/ /\ IsSequence(failed'[c])
                             /\ \A i \in DOMAIN failed[c] : i \in DOMAIN failed'[c] /\ failed'[c][i] = failed[c][i]
    <3>1. CASE failed' = failed
      BY <1>a, <3>1 DEF UploadsTyped
    <3>2. ASSUME NEW e, failed' = [failed EXCEPT ![c] = Append(@, e)] PROVE <2>2!1 /\ <2>2!2 /\ <2>2!3
      <4>1. DOMAIN failed' = UploadCalls /\ \A d \in UploadCalls \ {c} : failed'[d] = failed[d]
        BY <1>a, <3>2 DEF UploadsTyped
      <4>. QED
        BY <1>a, <3>2, <4>1, AddsOneFailed
    <3>. QED
      BY <1>c, <3>1, <3>2
  <2>3. DOMAIN uploadAt' = UploadCalls /\ \A d \in UploadCalls : d # c => uploadAt'[d] = uploadAt[d]
    BY <1>a, <1>c DEF UploadsTyped
  <2>4. UploadsTyped'
    BY <1>a, <1>c, <2>1, <2>2, <2>3 DEF UploadsTyped
  <2>5. RollbacksSpare'
    BY <1>a, <1>c, <2>1, <2>3 DEF RollbacksSpare
  <2>6. Remembers
    BY <1>c, <2>2 DEF Remembers
  <2>7. U!UploadsStand'
    BY <1>a, <1>c, <2>1, <2>6, StillStand, AllRemainRolledBack
  <2>. QED
    BY <1>a, <1>c, <2>4, <2>5, <2>7 DEF UploadInv
<1>5. ASSUME NEW c \in UploadCalls, U!TakeFile(c) PROVE UploadInv'
  <2>1. /\ uploadAt[c] = "files" /\ uploadAt' = uploadAt
        /\ UNCHANGED <<batch, done, before, pending, installed, others, initially>>
    BY <1>5 DEF U!TakeFile
  <2>2. PICK n \in packages[c] :
          /\ packages' = [packages EXCEPT ![c] = @ \ {n}]
          /\ \/ todo' = [todo EXCEPT ![c] = @ \o U!PackagesOf(c, n)] /\ UNCHANGED <<failed, uploadFaults>>
             \/ /\ failed' = [failed EXCEPT ![c] = Append(@, <<n, "file">>)] /\ UNCHANGED todo
                /\ uploadFaults' = uploadFaults + 1
    BY <1>5 DEF U!TakeFile, U!Fails
  <2>3. /\ DOMAIN todo' = DOMAIN todo /\ DOMAIN packages' = DOMAIN packages
        /\ \A d \in UploadCalls : d # c => packages'[d] = packages[d] /\ todo'[d] = todo[d]
    <3>1. DOMAIN todo = UploadCalls /\ DOMAIN packages = UploadCalls
      BY <1>a DEF UploadsTyped
    <3>2. todo' = todo \/ todo' = [todo EXCEPT ![c] = @ \o U!PackagesOf(c, n)]
      BY <2>2
    <3>. QED
      BY <2>2, <3>1, <3>2
  <2>4. uploadAt' = uploadAt /\ uploadAt'[c] = "files"
    BY <2>1
  <2>5. failed' = failed \/ \E e : failed' = [failed EXCEPT ![c] = Append(@, e)]
    BY <2>2
  <2>. QED
    BY <1>c, <2>1, <2>2, <2>3, <2>4, <2>5
<1>6. ASSUME NEW c \in UploadCalls, U!Parse(c) PROVE UploadInv'
  <2>1. uploadAt[c] = "files" /\ UNCHANGED <<batch, packages, done, before, pending, installed, others, initially>>
    BY <1>6 DEF U!Parse
  <2>2. \/ /\ uploadAt' = [uploadAt EXCEPT ![c] = "create"] /\ UNCHANGED <<todo, failed, uploadFaults>>
        \/ /\ uploadAt' = [uploadAt EXCEPT ![c] = "files"] /\ uploadFaults' = uploadFaults + 1
           /\ failed' = [failed EXCEPT ![c] = Append(@, Head(todo[c]))] /\ todo' = [todo EXCEPT ![c] = Tail(@)]
        \/ /\ uploadAt' = [uploadAt EXCEPT ![c] = "threw"] /\ uploadFaults' = uploadFaults + 1
           /\ UNCHANGED <<todo, failed>>
    BY <1>6 DEF U!Parse, U!Proceed, U!Fails
  <2>3. /\ DOMAIN todo' = DOMAIN todo /\ DOMAIN packages' = DOMAIN packages
        /\ \A d \in UploadCalls : d # c => packages'[d] = packages[d] /\ todo'[d] = todo[d]
    <3>1. DOMAIN todo = UploadCalls
      BY <1>a DEF UploadsTyped
    <3>2. todo' = todo \/ todo' = [todo EXCEPT ![c] = Tail(@)]
      BY <2>2
    <3>. QED
      BY <2>1, <3>1, <3>2
  <2>5. uploadAt' = [uploadAt EXCEPT ![c] = uploadAt'[c]] /\ uploadAt'[c] \in {"files", "create", "threw"}
    <3>1. DOMAIN uploadAt = UploadCalls
      BY <1>a DEF UploadsTyped
    <3>2. PICK next \in {"files", "create", "threw"} : uploadAt' = [uploadAt EXCEPT ![c] = next]
      BY <2>2
    <3>3. uploadAt'[c] = next
      BY <3>1, <3>2
    <3>. QED
      BY <3>2, <3>3
  <2>6. uploadFaults' \in {uploadFaults, uploadFaults + 1}
    BY <2>2
  <2>4. failed' = failed \/ \E e : failed' = [failed EXCEPT ![c] = Append(@, e)]
    BY <2>2
  <2>. QED
    BY <1>c, <2>1, <2>3, <2>4, <2>5, <2>6
<1>7. ASSUME NEW c \in UploadCalls, U!Create(c) PROVE UploadInv'
  <2>1. ~U!IsInstall(c) /\ uploadAt[c] = "create"
        /\ UNCHANGED <<batch, packages, failed, before, installed, others, initially>>
    BY <1>7 DEF U!Create
  <2>2. CASE uploadAt' = [uploadAt EXCEPT ![c] = "files"]
    <3>1. /\ U!Place(c) \notin installed /\ pending' = pending \cup {U!Place(c)} /\ uploadFaults' = uploadFaults
          /\ done' = [done EXCEPT ![c] = Append(@, U!Package(c))]
          /\ todo' = [todo EXCEPT ![c] = Tail(@)]
      BY <1>a, <1>7, <2>2 DEF U!Create, UploadsTyped, U!IsDone, U!Proceed
    <3>2. UploadsTyped'
      BY <1>a, <2>1, <2>2, <3>1, AddsOneDone DEF UploadsTyped
    <3>3. RollbacksSpare' /\ pending' \cap installed' = {}
      BY <1>a, <2>1, <2>2, <3>1 DEF UploadsTyped, RollbacksSpare
    <3>4. \A d \in UploadCalls : \A i \in DOMAIN done'[d] :
            \/ <<batch'[d].source, done'[d][i][2]>> \in pending' \cup installed'
            \/ batch'[d].source = batch[d].source /\ i \in DOMAIN done[d] /\ done'[d][i] = done[d][i]
      <4>1. \A d \in UploadCalls : d # c => done'[d] = done[d]
        BY <1>a, <3>1 DEF UploadsTyped
      <4>2. \A i \in DOMAIN done'[c] :
              done'[c][i] = U!Package(c) \/ (i \in DOMAIN done[c] /\ done'[c][i] = done[c][i])
        BY <1>a, <3>1, AddsOneDone
      <4>3. <<batch'[c].source, U!Package(c)[2]>> \in pending'
        BY <2>1, <3>1
      <4>. QED
        BY <2>1, <4>1, <4>2, <4>3
    <3>5. Remembers
      BY <2>1 DEF Remembers
    <3>6. U!UploadsStand'
      BY <1>a, <2>1, <3>1, <3>4, <3>5, StillStand, AllRemainRolledBack
    <3>. QED
      BY <3>2, <3>3, <3>6 DEF UploadInv
  <2>3. CASE uploadAt' # [uploadAt EXCEPT ![c] = "files"]
    <3>1. /\ uploadAt' = [uploadAt EXCEPT ![c] = "rollback"] /\ UNCHANGED <<pending, done, todo>>
          /\ (U!Place(c) \in installed /\ UNCHANGED uploadFaults) \/ uploadFaults' = uploadFaults + 1
      BY <1>7, <2>3 DEF U!Create
    <3>2. uploadFaults' \in Nat /\ (uploadFaults' = 0 => uploadFaults = 0 /\ U!Place(c) \in installed)
      BY <1>a, <3>1 DEF UploadsTyped
    <3>3. UploadsTyped' /\ RollbacksSpare'
      BY <1>a, <2>1, <3>1, <3>2 DEF UploadsTyped, RollbacksSpare
    <3>. QED
      BY <1>a, <1>b, <2>1, <3>1, <3>2, <3>3 DEF UploadInv
  <2>. QED
    BY <2>2, <2>3
<1>13. ASSUME NEW c \in UploadCalls, U!CreateThrows(c) PROVE UploadInv'
  <2>1. /\ uploadAt' = [uploadAt EXCEPT ![c] = "threw"] /\ uploadFaults' = uploadFaults + 1
        /\ U!Place(c) \notin installed /\ pending' \in {pending, pending \cup {U!Place(c)}}
        /\ UNCHANGED <<batch, packages, todo, done, failed, before, installed, others, initially>>
    BY <1>13 DEF U!CreateThrows
  <2>2. uploadFaults' \in Nat /\ uploadFaults' > 0
    BY <1>a, <2>1 DEF UploadsTyped
  <2>3. UploadsTyped' /\ RollbacksSpare' /\ pending' \cap installed' = {}
    BY <1>a, <2>1, <2>2 DEF UploadsTyped, RollbacksSpare
  <2>4. Remembers
    BY <2>1 DEF Remembers
  <2>5. U!UploadsStand'
    BY <1>a, <2>1, <2>2, <2>4, StillStand, AllRemainRolledBack
  <2>. QED
    BY <2>3, <2>5 DEF UploadInv
<1>8. ASSUME NEW c \in UploadCalls, U!Rollback(c) PROVE UploadInv'
  <2>0. PICK x : x = U!Plugin(c)
    OBVIOUS
  <2>1. /\ uploadAt[c] = "rollback" /\ uploadAt' = [uploadAt EXCEPT ![c] = "files"]
        /\ failed' = [failed EXCEPT ![c] = Append(@, U!Package(c))] /\ todo' = [todo EXCEPT ![c] = Tail(@)]
        /\ UNCHANGED <<batch, packages, done, before, installed, others, initially>>
        /\ \/ pending' = pending \ ({<<System, x>>} \ before[c]) /\ UNCHANGED uploadFaults
           \/ uploadFaults' = uploadFaults + 1 /\ UNCHANGED pending
    BY <1>8, <2>0 DEF U!Rollback, U!Withdrawing, U!Proceed, U!Fails
  <2>2. ~U!IsInstall(c) /\ uploadFaults' \in Nat /\ (uploadFaults' = 0 => uploadFaults = 0)
        /\ (uploadFaults > 0 => uploadFaults' > 0)
    BY <1>a, <2>1 DEF UploadsTyped
  <2>3. /\ DOMAIN failed' = UploadCalls /\ IsSequence(failed'[c])
        /\ \A d \in UploadCalls \ {c} : failed'[d] = failed[d]
        /\ \A i \in DOMAIN failed[c] : i \in DOMAIN failed'[c] /\ failed'[c][i] = failed[c][i]
        /\ \E i \in DOMAIN failed'[c] : failed'[c][i] = U!Package(c)
    <3>1. PICK e : e = U!Package(c)
      OBVIOUS
    <3>2. failed' = [failed EXCEPT ![c] = Append(@, e)]
      BY <2>1, <3>1
    <3>. QED
      BY <1>a, <2>2, <3>1, <3>2, AddsOneFailed
  <2>4. UploadsTyped'
    BY <1>a, <2>1, <2>2, <2>3 DEF UploadsTyped
  <2>5. RollbacksSpare'
    BY <1>a, <2>1, <2>2 DEF RollbacksSpare, UploadsTyped
  <2>6. pending' \cap installed' = {} /\ pending' \subseteq pending
    BY <1>a, <2>1
  <2>7. \A d \in UploadCalls : \A y : U!RolledBack(d, y) => U!RolledBack(d, y)'
    <3>1. Remembers
      BY <2>1, <2>3 DEF Remembers
    <3>. QED
      BY <2>1, <2>2, <3>1, AllRemainRolledBack
  <2>8. CASE pending' = pending
    BY <1>a, <2>1, <2>4, <2>5, <2>7, <2>8, StillStand DEF UploadInv
  <2>9. CASE /\ pending' = pending \ ({<<System, x>>} \ before[c]) /\ UNCHANGED uploadFaults
             /\ <<System, x>> \notin before[c]
    <3>1. ASSUME others = 0 PROVE U!RolledBack(c, x)'
      <4>1. uploadFaults = 0 => <<batch[c].source, x>> \in installed
        BY <1>a, <2>0, <2>1, <3>1 DEF RollbacksSpare
      <4>2. uploadFaults' > 0 \/ <<batch'[c].source, x>> \in installed'
        BY <1>a, <2>1, <2>9, <4>1 DEF UploadsTyped
      <4>3. <<System, x>> \notin before'[c] /\ ~(batch'[c].kind = "install")
        BY <2>1, <2>2, <2>9
      <4>4. \E i \in DOMAIN failed'[c] : failed'[c][i][2] = x
        BY <2>0, <2>3
      <4>. QED
        BY <4>2, <4>3, <4>4 DEF U!RolledBack
    <3>2. U!UploadsStand'
      <4> SUFFICES ASSUME others' = 0 PROVE U!UploadsStand'
        BY DEF U!UploadsStand
      <4>1. others = 0
        BY <2>1
      <4>2. initially' \subseteq pending' \cup installed'
        <5>1. <<System, x>> \in initially => <<System, x>> \in installed
          BY <1>a, <2>1, <2>2, <2>9, <4>1 DEF RollbacksSpare
        <5>. QED
          BY <1>a, <2>1, <2>9, <4>1, <5>1 DEF U!UploadsStand
      <4>3. ASSUME NEW d \in UploadCalls, NEW i \in DOMAIN done'[d]
            PROVE  \/ <<batch'[d].source, done'[d][i][2]>> \in pending' \cup installed'
                   \/ batch'[d].source = System /\ \E y : y = done'[d][i][2] /\ \E o \in UploadCalls : U!RolledBack(o, y)'
        <5>1. PICK y : y = done[d][i][2]
          OBVIOUS
        <5>2. \/ <<batch[d].source, y>> \in pending \cup installed
              \/ batch[d].source = System /\ \E o \in UploadCalls : U!RolledBack(o, y)
          BY <1>a, <2>1, <4>1, <4>3, <5>1 DEF U!UploadsStand
        <5>3. batch[d].source = System /\ y = x => U!RolledBack(c, y)'
          BY <3>1, <4>1
        <5>4. \/ <<batch[d].source, y>> \in pending' \cup installed'
              \/ batch[d].source = System /\ \E o \in UploadCalls : U!RolledBack(o, y)'
          BY <2>1, <2>7, <2>9, <5>2, <5>3
        <5>. QED
          BY <2>1, <5>1, <5>4
      <4>. QED
        BY <4>2, <4>3 DEF U!UploadsStand
    <3>. QED
      BY <2>4, <2>5, <2>6, <3>2 DEF UploadInv
  <2>. QED
    BY <2>1, <2>8, <2>9
<1>9. ASSUME NEW c \in UploadCalls, U!Install(c) PROVE UploadInv'
  <2>1. U!IsInstall(c) /\ uploadAt' = [uploadAt EXCEPT ![c] = "files"] /\ todo' = [todo EXCEPT ![c] = Tail(@)]
        /\ uploadAt[c] = "create"
        /\ UNCHANGED <<batch, packages, before, pending, others, initially>>
    BY <1>9 DEF U!Install, U!Proceed
  <2>2. uploadFaults' \in Nat /\ (uploadFaults' = 0 => uploadFaults = 0) /\ (uploadFaults > 0 => uploadFaults' > 0)
    BY <1>a, <1>9 DEF U!Install, UploadsTyped
  <2>3. \/ done' = [done EXCEPT ![c] = Append(@, U!Package(c))] /\ installed' = installed \cup {U!Place(c)}
        \/ done' = done /\ installed' \in {installed, installed \cup {U!Place(c)}}
    BY <1>9 DEF U!Install, U!IsDone
  <2>4. installed \subseteq installed' /\ pending' \cap installed' = {}
    BY <1>a, <1>9 DEF U!Install
  <2>5. DOMAIN failed' = UploadCalls /\ \A d \in UploadCalls : d # c => failed'[d] = failed[d]
    BY <1>a, <1>9 DEF U!Install, U!Fails, UploadsTyped
  <2>6. UploadsTyped'
    BY <1>a, <2>1, <2>2, <2>3, <2>5, AddsOneDone DEF UploadsTyped
  <2>7. RollbacksSpare'
    BY <1>a, <2>1, <2>2, <2>4 DEF RollbacksSpare, UploadsTyped
  <2>8. Remembers
    BY <2>1, <2>5 DEF Remembers
  <2>9. \A d \in UploadCalls : \A i \in DOMAIN done'[d] :
          \/ <<batch'[d].source, done'[d][i][2]>> \in pending' \cup installed'
          \/ batch'[d].source = batch[d].source /\ i \in DOMAIN done[d] /\ done'[d][i] = done[d][i]
    <3>1. CASE done' = done
      BY <2>1, <3>1
    <3>2. CASE done' = [done EXCEPT ![c] = Append(@, U!Package(c))] /\ installed' = installed \cup {U!Place(c)}
      <4>1. \A d \in UploadCalls : d # c => done'[d] = done[d]
        BY <1>a, <3>2 DEF UploadsTyped
      <4>2. \A i \in DOMAIN done'[c] :
              done'[c][i] = U!Package(c) \/ (i \in DOMAIN done[c] /\ done'[c][i] = done[c][i])
        BY <1>a, <3>2, AddsOneDone
      <4>3. <<batch'[c].source, U!Package(c)[2]>> \in installed'
        BY <2>1, <3>2
      <4>. QED
        BY <2>1, <4>1, <4>2, <4>3
    <3>. QED
      BY <2>3, <3>1, <3>2
  <2>10. U!UploadsStand'
    BY <1>a, <2>1, <2>2, <2>4, <2>8, <2>9, StillStand, AllRemainRolledBack
  <2>. QED
    BY <2>4, <2>6, <2>7, <2>10 DEF UploadInv
<1>10. ASSUME NEW c \in UploadCalls, U!Answer(c) \/ U!Decide(c) \/ U!Complete(c) PROVE UploadInv'
  <2>1. /\ UNCHANGED <<batch, packages, done, failed, before, pending, installed, uploadFaults, others, initially>>
        /\ uploadAt' = [uploadAt EXCEPT ![c] = uploadAt'[c]]
        /\ uploadAt'[c] \in {"answered", "confirm", "gaveUp", "completed"}
    BY <1>a, <1>10 DEF U!Answer, U!Decide, U!Complete, UploadsTyped
  <2>2. DOMAIN todo' = DOMAIN todo /\ \A d \in UploadCalls : d # c => todo'[d] = todo[d]
    BY <1>a, <1>10 DEF U!Answer, U!Decide, U!Complete, UploadsTyped
  <2>3. UploadsTyped' /\ RollbacksSpare'
    BY <1>a, <2>1, <2>2 DEF UploadsTyped, RollbacksSpare
  <2>. QED
    BY <1>a, <1>b, <2>1, <2>3 DEF UploadInv, UploadsTyped
<1>11. ASSUME NEW c \in UploadCalls, U!Confirm(c) PROVE UploadInv'
  <2>1. /\ uploadAt[c] = "confirm" /\ todo' = [todo EXCEPT ![c] = Tail(@)]
        /\ UNCHANGED <<batch, uploadAt, packages, done, failed, before, others, initially>>
        /\ uploadFaults' \in {uploadFaults, uploadFaults + 1}
        /\ \/ pending' = pending \ {U!Place(c)} /\ installed' = installed \cup {U!Place(c)}
           \/ UNCHANGED <<pending, installed>>
    BY <1>11 DEF U!Confirm, U!Proceed
  <2>2. uploadFaults' \in Nat /\ (uploadFaults' = 0 => uploadFaults = 0) /\ (uploadFaults > 0 => uploadFaults' > 0)
    BY <1>a, <2>1 DEF UploadsTyped
  <2>3. /\ pending \cup installed \subseteq pending' \cup installed' /\ installed \subseteq installed'
        /\ pending' \cap installed' = {}
    BY <1>a, <2>1
  <2>4. UploadsTyped' /\ RollbacksSpare'
    BY <1>a, <2>1, <2>2, <2>3 DEF UploadsTyped, RollbacksSpare
  <2>5. Remembers
    BY <2>1 DEF Remembers
  <2>6. U!UploadsStand'
    BY <1>a, <2>1, <2>2, <2>3, <2>5, StillStand, AllRemainRolledBack
  <2>. QED
    BY <2>3, <2>4, <2>6 DEF UploadInv
<1>12. CASE UNCHANGED uploadVars
  <2>1. UploadsTyped' /\ RollbacksSpare'
    BY <1>a, <1>12 DEF uploadVars, UploadsTyped, RollbacksSpare
  <2>. QED
    BY <1>a, <1>b, <1>12, <2>1 DEF uploadVars, UploadInv, UploadsTyped
<1>. QED
  BY <1>1, <1>2, <1>3, <1>4, <1>5, <1>6, <1>7, <1>8, <1>9, <1>10, <1>11, <1>12, <1>13 DEF U!Next

-----------------------------------------------------------------------------
(* How often something occurs in a sequence.                               *)

LEMMA CountsThem ==
  ASSUME NEW x, NEW seq
  PROVE  U!Occurrences(x, seq) = Cardinality({i \in DOMAIN seq : seq[i] = x})
BY SameCardinality DEF U!Occurrences

LEMMA OccursNaturally ==
  ASSUME NEW R, NEW seq \in Seq(R), NEW x
  PROVE  U!Occurrences(x, seq) \in Nat /\ IsFiniteSet({i \in DOMAIN seq : seq[i] = x})
<1>1. DOMAIN seq = 1..Len(seq) /\ Len(seq) \in Nat
  OBVIOUS
<1>2. IsFiniteSet(1..Len(seq))
  BY <1>1, FS_Interval
<1>3. IsFiniteSet({i \in DOMAIN seq : seq[i] = x})
  BY <1>1, <1>2, FS_Subset
<1>. QED
  BY <1>3, FS_CardinalityType, CountsThem

LEMMA OccursInNone ==
  ASSUME NEW x PROVE U!Occurrences(x, <<>>) = 0
<1>1. {i \in DOMAIN <<>> : <<>>[i] = x} = {}
  OBVIOUS
<1>. QED
  BY <1>1, FS_EmptySet, CountsThem

LEMMA OccursInOne ==
  ASSUME NEW x, NEW y PROVE U!Occurrences(x, <<y>>) = IF y = x THEN 1 ELSE 0
<1>1. CASE y = x
  <2>1. {i \in DOMAIN <<y>> : <<y>>[i] = x} = {1}
    BY <1>1
  <2>. QED
    BY <1>1, <2>1, FS_Singleton, CountsThem
<1>2. CASE y # x
  <2>1. {i \in DOMAIN <<y>> : <<y>>[i] = x} = {}
    BY <1>2
  <2>. QED
    BY <1>2, <2>1, FS_EmptySet, CountsThem
<1>. QED
  BY <1>1, <1>2

LEMMA OccursInBoth ==
  ASSUME NEW R, NEW s \in Seq(R), NEW t \in Seq(R), NEW x
  PROVE  U!Occurrences(x, s \o t) = U!Occurrences(x, s) + U!Occurrences(x, t)
<1> DEFINE A == {i \in DOMAIN s : s[i] = x}
           B == {i \in DOMAIN t : t[i] = x}
           moved == {i + Len(s) : i \in B}
<1>1. /\ Len(s) \in Nat /\ Len(t) \in Nat /\ DOMAIN s = 1..Len(s) /\ DOMAIN t = 1..Len(t)
      /\ s \o t \in Seq(R) /\ DOMAIN (s \o t) = 1..(Len(s) + Len(t))
  OBVIOUS
<1>2. /\ \A i \in 1..Len(s) : (s \o t)[i] = s[i]
      /\ \A i \in 1..Len(t) : (s \o t)[i + Len(s)] = t[i]
  BY <1>1
<1>3. {i \in DOMAIN (s \o t) : (s \o t)[i] = x} = A \cup moved
  <2>1. ASSUME NEW i \in DOMAIN (s \o t), (s \o t)[i] = x PROVE i \in A \cup moved
    <3>1. CASE i <= Len(s)
      <4>1. i \in 1..Len(s)
        BY <1>1, <3>1
      <4>. QED
        BY <1>1, <1>2, <2>1, <4>1
    <3>2. CASE ~(i <= Len(s))
      <4>1. PICK k \in 1..Len(t) : i = k + Len(s)
        <5>1. i - Len(s) \in 1..Len(t) /\ i = (i - Len(s)) + Len(s)
          BY <1>1, <3>2
        <5>. QED
          BY <5>1
      <4>2. t[k] = x
        BY <1>2, <2>1, <4>1
      <4>. QED
        BY <1>1, <4>1, <4>2
    <3>. QED
      BY <3>1, <3>2
  <2>2. ASSUME NEW i \in A PROVE i \in DOMAIN (s \o t) /\ (s \o t)[i] = x
    BY <1>1, <1>2
  <2>3. ASSUME NEW i \in moved PROVE i \in DOMAIN (s \o t) /\ (s \o t)[i] = x
    <3>1. PICK k \in B : i = k + Len(s)
      OBVIOUS
    <3>2. k \in 1..Len(t) /\ t[k] = x
      BY <1>1
    <3>3. k + Len(s) \in 1..(Len(s) + Len(t))
      BY <1>1, <3>2
    <3>. QED
      BY <1>1, <1>2, <3>1, <3>2, <3>3
  <2>. QED
    BY <2>1, <2>2, <2>3
<1>4. IsFiniteSet(A) /\ IsFiniteSet(B)
  BY OccursNaturally
<1>5. IsFiniteSet(moved) /\ Cardinality(moved) = Cardinality(B)
  <2> DEFINE f == [i \in B |-> i + Len(s)]
  <2>1. f \in [B -> moved] /\ \A y \in moved : \E i \in B : f[i] = y
    OBVIOUS
  <2>2. \A i, j \in B : f[i] = f[j] => i = j
    BY <1>1
  <2> HIDE DEF f
  <2>3. f \in Bijection(B, moved)
    BY <2>1, <2>2 DEF Bijection, Injection, Surjection, IsInjective
  <2>4. ExistsBijection(B, moved)
    BY <2>3 DEF ExistsBijection
  <2>. QED
    BY <1>4, <2>4, FS_Bijection
<1>6. A \cap moved = {}
  BY <1>1
<1> HIDE DEF A, B, moved
<1>7. Cardinality(A \cup moved) = Cardinality(A) + Cardinality(B)
  <2>1. Cardinality(A \cup moved) = Cardinality(A) + Cardinality(moved) - Cardinality(A \cap moved)
    BY <1>4, <1>5, FS_Union
  <2>2. Cardinality(A) \in Nat /\ Cardinality(B) \in Nat
    BY <1>4, FS_CardinalityType
  <2>3. Cardinality(A \cap moved) = 0
    BY <1>6, FS_EmptySet
  <2>. QED
    BY <1>5, <2>1, <2>2, <2>3
<1>. QED
  BY <1>3, <1>7, CountsThem DEF A, B

LEMMA OccursOnceMore ==
  ASSUME NEW R, NEW s \in Seq(R), NEW y \in R, NEW x
  PROVE  U!Occurrences(x, Append(s, y)) = U!Occurrences(x, s) + IF y = x THEN 1 ELSE 0
<1>1. <<y>> \in Seq(R) /\ Append(s, y) = s \o <<y>>
  OBVIOUS
<1>2. U!Occurrences(x, s \o <<y>>) = U!Occurrences(x, s) + U!Occurrences(x, <<y>>)
  BY <1>1, OccursInBoth
<1>3. U!Occurrences(x, <<y>>) = IF y = x THEN 1 ELSE 0
  BY OccursInOne
<1>4. U!Occurrences(x, s) \in Nat
  BY OccursNaturally
<1> PICK one \in {0, 1} : one = IF y = x THEN 1 ELSE 0
  OBVIOUS
<1>5. U!Occurrences(x, s \o <<y>>) = U!Occurrences(x, s) + one
  BY <1>2, <1>3
<1>. QED
  BY <1>1, <1>5

LEMMA OccursOnceLess ==
  ASSUME NEW R, NEW s \in Seq(R), s # <<>>, NEW x
  PROVE  /\ Head(s) \in R /\ Tail(s) \in Seq(R)
         /\ U!Occurrences(x, s) = U!Occurrences(x, Tail(s)) + IF Head(s) = x THEN 1 ELSE 0
<1>1. Head(s) \in R /\ Tail(s) \in Seq(R) /\ <<Head(s)>> \in Seq(R) /\ s = <<Head(s)>> \o Tail(s)
  OBVIOUS
<1>2. U!Occurrences(x, <<Head(s)>> \o Tail(s)) = U!Occurrences(x, <<Head(s)>>) + U!Occurrences(x, Tail(s))
  BY <1>1, OccursInBoth
<1>3. U!Occurrences(x, <<Head(s)>>) = IF Head(s) = x THEN 1 ELSE 0
  BY OccursInOne
<1>4. U!Occurrences(x, Tail(s)) \in Nat
  BY <1>1, OccursNaturally
<1> PICK one \in {0, 1} : one = IF Head(s) = x THEN 1 ELSE 0
  OBVIOUS
<1>5. U!Occurrences(x, s) = one + U!Occurrences(x, Tail(s))
  BY <1>1, <1>2, <1>3
<1>6. U!Occurrences(x, s) = U!Occurrences(x, Tail(s)) + one
  BY <1>4, <1>5
<1>. QED
  BY <1>1, <1>6

(* A set as a sequence has each element once.                              *)
LEMMA OccursInSet ==
  ASSUME NEW A, IsFiniteSet(A), NEW x
  PROVE  /\ U!SetToSeq(A) \in Seq(A)
         /\ U!Occurrences(x, U!SetToSeq(A)) = IF x \in A THEN 1 ELSE 0
<1>1. Cardinality(A) \in Nat /\ ExistsBijection(1..Cardinality(A), A)
  BY FS_CardinalityType
<1>2. PICK n \in Nat : n = Cardinality(A)
  BY <1>1
<1>3. \E f \in [1..n -> A] : \A i, j \in DOMAIN f : f[i] = f[j] => i = j
  BY <1>1, <1>2 DEF ExistsBijection, Bijection, Injection, IsInjective
<1>4. U!SetToSeq(A) = CHOOSE f \in [1..n -> A] : \A i, j \in DOMAIN f : f[i] = f[j] => i = j
  BY <1>2, SameCardinality DEF U!SetToSeq, U!IsInjective
<1>5. PICK f \in [1..n -> A] : f = U!SetToSeq(A) /\ \A i, j \in DOMAIN f : f[i] = f[j] => i = j
  BY <1>3, <1>4
<1>6. f \in Seq(A) /\ DOMAIN f = 1..n
  OBVIOUS
<1>7. \A y \in A : \E i \in 1..n : f[i] = y
  <2>1. f \in Injection(1..n, A)
    BY <1>5, <1>6 DEF Injection, IsInjective
  <2>2. Cardinality(1..n) = n /\ IsFiniteSet(1..n)
    BY FS_Interval
  <2>3. f \in Surjection(1..n, A)
    BY <2>1, <2>2, <1>2, FS_Injection
  <2>. QED
    BY <2>3 DEF Surjection
<1>8. CASE x \in A
  <2>1. PICK i \in 1..n : f[i] = x
    BY <1>7, <1>8
  <2>2. {k \in DOMAIN f : f[k] = x} = {i}
    BY <1>5, <1>6, <2>1
  <2>3. Cardinality({k \in DOMAIN f : f[k] = x}) = 1
    BY <2>2, FS_Singleton
  <2>. QED
    BY <1>5, <1>6, <1>8, <2>3, CountsThem
<1>9. CASE x \notin A
  <2>1. {k \in DOMAIN f : f[k] = x} = {}
    BY <1>6, <1>9
  <2>2. Cardinality({k \in DOMAIN f : f[k] = x}) = 0
    BY <2>1, FS_EmptySet
  <2>. QED
    BY <1>5, <1>6, <1>9, <2>2, CountsThem
<1>. QED
  BY <1>8, <1>9

-----------------------------------------------------------------------------
(* What has become of the files and packages of a call.                    *)

FileSet == [zip : BOOLEAN, plugins : Seq(UploadPlugins)]
Packages == Nat \X UploadPlugins
Entries == Nat \X (UploadPlugins \cup {"file"})

CallTyped(c) ==
  /\ batch[c].batch \in Seq(FileSet) /\ packages[c] \subseteq DOMAIN batch[c].batch
  /\ todo[c] \in Seq(Packages) /\ done[c] \in Seq(Packages) /\ failed[c] \in Seq(Entries)

Lost(c, n) == U!Occurrences(<<n, "file">>, failed[c])
Handled(c, n, p) ==
  U!Occurrences(<<n, p>>, done[c]) + U!Occurrences(<<n, p>>, failed[c]) + U!Occurrences(<<n, p>>, todo[c])

(* A file is still to go through, or has failed, or its packages are       *)
(* handled or to go through.                                               *)
Balanced(c) ==
  \A n \in DOMAIN batch[c].batch :
    \/ n \in packages[c] /\ Lost(c, n) = 0 /\ \A p \in UploadPlugins : Handled(c, n, p) = 0
    \/ n \notin packages[c] /\ Lost(c, n) = 0 /\ \A p \in UploadPlugins : Handled(c, n, p) = U!Occurrences(p, U!File(c, n).plugins)
    \/ n \notin packages[c] /\ Lost(c, n) = 1 /\ \A p \in UploadPlugins : Handled(c, n, p) = 0

Settled(c) ==
  \A n \in DOMAIN batch[c].batch :
    LET plugins == batch[c].batch[n].plugins
        lost == U!Occurrences(<<n, "file">>, failed[c])
    IN \A p \in UploadPlugins :
         /\ lost <= 1
         /\ U!Occurrences(<<n, p>>, done[c]) + U!Occurrences(<<n, p>>, failed[c]) = (1 - lost) * U!Occurrences(p, plugins)

CallAccounts(c) ==
  /\ CallTyped(c)
  /\ uploadAt[c] \in {"idle", "snapshot", "download"} => todo[c] = <<>> /\ done[c] = <<>> /\ failed[c] = <<>>
  /\ uploadAt[c] \in {"snapshot", "download", "files", "create", "rollback", "answered"} => Balanced(c)
  /\ uploadAt[c] \in {"create", "rollback"} => todo[c] # <<>>
  /\ uploadAt[c] = "answered" => packages[c] = {} /\ todo[c] = <<>>
  /\ uploadAt[c] \in {"gaveUp", "confirm", "completed"} => Settled(c)

AccountInv ==
  /\ DOMAIN batch = UploadCalls /\ DOMAIN uploadAt = UploadCalls /\ DOMAIN packages = UploadCalls
  /\ DOMAIN todo = UploadCalls /\ DOMAIN done = UploadCalls /\ DOMAIN failed = UploadCalls
  /\ \A c \in UploadCalls : CallAccounts(c)

LEMMA AccountInvAtStart ==
  ASSUME U!Init PROVE AccountInv
<1>1. \A R : <<>> \in Seq(R)
  OBVIOUS
<1>. QED
  BY <1>1 DEF U!Init, AccountInv, CallAccounts, CallTyped, U!NoCall

LEMMA SameData ==
  ASSUME NEW d, batch'[d] = batch[d], done'[d] = done[d], failed'[d] = failed[d]
  PROVE  /\ Settled(d)' = Settled(d)
         /\ packages'[d] = packages[d] /\ todo'[d] = todo[d] =>
              CallTyped(d)' = CallTyped(d) /\ Balanced(d)' = Balanced(d)
<1>1. Settled(d)' = Settled(d)
  BY DEF Settled, U!Occurrences
<1>2. packages'[d] = packages[d] /\ todo'[d] = todo[d] => CallTyped(d)' = CallTyped(d)
  BY DEF CallTyped
<1>3. packages'[d] = packages[d] /\ todo'[d] = todo[d] => Balanced(d)' = Balanced(d)
  BY DEF Balanced, Lost, Handled, U!File, U!Occurrences
<1>. QED
  BY <1>1, <1>2, <1>3

LEMMA OthersStay ==
  ASSUME NEW d \in UploadCalls, CallAccounts(d), batch'[d] = batch[d], uploadAt'[d] = uploadAt[d], packages'[d] = packages[d],
         todo'[d] = todo[d], done'[d] = done[d], failed'[d] = failed[d]
  PROVE  CallAccounts(d)'
BY SameData DEF CallAccounts

LEMMA SettledAtLast ==
  ASSUME NEW c \in UploadCalls, CallTyped(c), Balanced(c), packages[c] = {}, todo[c] = <<>>
  PROVE  Settled(c)
<1> SUFFICES ASSUME NEW n \in DOMAIN batch[c].batch, NEW p \in UploadPlugins
             PROVE  /\ Lost(c, n) <= 1
                    /\ U!Occurrences(<<n, p>>, done[c]) + U!Occurrences(<<n, p>>, failed[c])
                         = (1 - Lost(c, n)) * U!Occurrences(p, U!File(c, n).plugins)
  BY DEF Settled, Lost, U!File
<1>1. U!Occurrences(<<n, p>>, todo[c]) = 0
  BY OccursInNone
<1>2. U!Occurrences(<<n, p>>, done[c]) \in Nat /\ U!Occurrences(<<n, p>>, failed[c]) \in Nat
  BY OccursNaturally DEF CallTyped
<1>3. U!Occurrences(p, U!File(c, n).plugins) \in Nat
  <2>1. U!File(c, n) \in FileSet
    BY DEF CallTyped, U!File
  <2>2. U!File(c, n).plugins \in Seq(UploadPlugins)
    BY <2>1 DEF FileSet
  <2>. QED
    BY <2>2, OccursNaturally
<1>4. Handled(c, n, p) = U!Occurrences(<<n, p>>, done[c]) + U!Occurrences(<<n, p>>, failed[c])
  BY <1>1, <1>2 DEF Handled
<1>5. \/ Lost(c, n) = 0 /\ Handled(c, n, p) = U!Occurrences(p, U!File(c, n).plugins)
      \/ Lost(c, n) = 1 /\ Handled(c, n, p) = 0
  BY DEF Balanced
<1>6. PICK k \in Nat : k = U!Occurrences(p, U!File(c, n).plugins)
  BY <1>3
<1>7. (1 - 0) * k = k /\ (1 - 1) * k = 0
  BY <1>6
<1>. QED
  BY <1>4, <1>5, <1>6, <1>7

LEMMA AccountInvSuffices ==
  ASSUME AccountInv PROVE U!Accounted
<1>1. \A c \in UploadCalls : CallTyped(c) /\ uploadAt[c] = "answered" => Settled(c)
  BY SettledAtLast DEF AccountInv, CallAccounts
<1>2. \A c \in UploadCalls : uploadAt[c] \in {"answered", "gaveUp", "confirm", "completed"} => Settled(c)
  BY <1>1 DEF AccountInv, CallAccounts
<1>. QED
  BY <1>2 DEF Settled, U!Accounted

(* A package has passed: it was to go through, and is done or has failed.  *)
LEMMA Passes ==
  ASSUME NEW c \in UploadCalls, CallTyped(c), Balanced(c), todo[c] # <<>>,
         batch'[c] = batch[c], packages'[c] = packages[c], todo'[c] = Tail(todo[c]),
         \/ done'[c] = Append(done[c], Head(todo[c])) /\ failed'[c] = failed[c]
         \/ failed'[c] = Append(failed[c], Head(todo[c])) /\ done'[c] = done[c]
  PROVE  CallTyped(c)' /\ Balanced(c)'
<1> DEFINE x == Head(todo[c])
<1>1. /\ todo[c] \in Seq(Packages) /\ done[c] \in Seq(Packages) /\ failed[c] \in Seq(Entries)
      /\ batch[c].batch \in Seq(FileSet) /\ packages[c] \subseteq DOMAIN batch[c].batch
  BY DEF CallTyped
<1>2. x \in Packages /\ Tail(todo[c]) \in Seq(Packages)
  BY <1>1, OccursOnceLess
<1>3. x \in Entries /\ \A n : x # <<n, "file">>
  BY <1>2, UploadAssumption DEF Packages, Entries
<1>4. \A y : U!Occurrences(y, todo[c]) = U!Occurrences(y, Tail(todo[c])) + IF x = y THEN 1 ELSE 0
  BY <1>1, OccursOnceLess
<1>5. /\ Append(done[c], x) \in Seq(Packages) /\ Append(failed[c], x) \in Seq(Entries)
      /\ \A y : U!Occurrences(y, Append(done[c], x)) = U!Occurrences(y, done[c]) + IF x = y THEN 1 ELSE 0
      /\ \A y : U!Occurrences(y, Append(failed[c], x)) = U!Occurrences(y, failed[c]) + IF x = y THEN 1 ELSE 0
  <2>1. Append(done[c], x) \in Seq(Packages) /\ Append(failed[c], x) \in Seq(Entries)
    BY <1>1, <1>2, <1>3
  <2>. QED
    BY <2>1, <1>1, <1>2, <1>3, OccursOnceMore
<1>6. \A y : /\ U!Occurrences(y, done[c]) \in Nat /\ U!Occurrences(y, failed[c]) \in Nat
             /\ U!Occurrences(y, Tail(todo[c])) \in Nat
  BY <1>1, <1>2, OccursNaturally
<1> HIDE DEF x
<1>7. CallTyped(c)'
  BY <1>1, <1>2, <1>5 DEF CallTyped, x
<1>8. \A n : Lost(c, n)' = Lost(c, n)
  <2> TAKE n
  <2>1. U!Occurrences(<<n, "file">>, Append(failed[c], x)) = U!Occurrences(<<n, "file">>, failed[c])
    BY <1>3, <1>5, <1>6
  <2>. QED
    BY <2>1 DEF Lost, x, U!Occurrences
<1>9. \A n, p : Handled(c, n, p)' = Handled(c, n, p)
  <2> TAKE n, p
  <2>1. PICK y : y = <<n, p>>
    OBVIOUS
  <2>2. PICK one \in {0, 1} : one = IF x = y THEN 1 ELSE 0
    OBVIOUS
  <2>3. /\ U!Occurrences(y, todo[c]) = U!Occurrences(y, Tail(todo[c])) + one
        /\ U!Occurrences(y, Append(done[c], x)) = U!Occurrences(y, done[c]) + one
        /\ U!Occurrences(y, Append(failed[c], x)) = U!Occurrences(y, failed[c]) + one
    BY <1>4, <1>5, <2>2
  <2>4. Handled(c, n, p)' = U!Occurrences(y, done'[c]) + U!Occurrences(y, failed'[c]) + U!Occurrences(y, Tail(todo[c]))
    BY <2>1 DEF Handled, U!Occurrences
  <2>5. Handled(c, n, p) = U!Occurrences(y, done[c]) + U!Occurrences(y, failed[c]) + U!Occurrences(y, todo[c])
    BY <2>1 DEF Handled
  <2>6. CASE done'[c] = Append(done[c], x) /\ failed'[c] = failed[c]
    BY <2>3, <2>4, <2>5, <2>6, <1>6
  <2>7. CASE failed'[c] = Append(failed[c], x) /\ done'[c] = done[c]
    BY <2>3, <2>4, <2>5, <2>7, <1>6
  <2>. QED
    BY <2>6, <2>7 DEF x
<1>10. \A n : U!File(c, n)' = U!File(c, n)
  BY DEF U!File
<1>. QED
  BY <1>7, <1>8, <1>9, <1>10 DEF Balanced, U!Occurrences

(* A file is unfolded into its packages.                                   *)
LEMMA Unfolds ==
  ASSUME NEW c \in UploadCalls, CallTyped(c), Balanced(c), NEW m \in packages[c],
         batch'[c] = batch[c], packages'[c] = packages[c] \ {m}, todo'[c] = todo[c] \o U!PackagesOf(c, m),
         done'[c] = done[c], failed'[c] = failed[c]
  PROVE  CallTyped(c)' /\ Balanced(c)'
<1>1. /\ todo[c] \in Seq(Packages) /\ done[c] \in Seq(Packages) /\ failed[c] \in Seq(Entries)
      /\ batch[c].batch \in Seq(FileSet) /\ packages[c] \subseteq DOMAIN batch[c].batch
  BY DEF CallTyped
<1>2. m \in Nat /\ U!File(c, m) \in FileSet
  BY <1>1 DEF U!File
<1>3. PICK plugins \in Seq(UploadPlugins) : plugins = U!File(c, m).plugins
  BY <1>2 DEF FileSet
<1>4. U!PackagesOf(c, m) = [i \in DOMAIN plugins |-> <<m, plugins[i]>>]
  BY <1>3 DEF U!PackagesOf
<1>5. PICK new : new = U!PackagesOf(c, m)
  OBVIOUS
<1>6. new \in Seq(Packages)
  BY <1>2, <1>4, <1>5 DEF Packages
<1>7. \A p : U!Occurrences(<<m, p>>, new) = U!Occurrences(p, plugins)
  <2> TAKE p
  <2>1. {i \in DOMAIN new : new[i] = <<m, p>>} = {i \in DOMAIN plugins : plugins[i] = p}
    BY <1>4, <1>5
  <2>. QED
    BY <2>1, CountsThem
<1>8. \A n, p : n # m => U!Occurrences(<<n, p>>, new) = 0
  <2> TAKE n, p
  <2>1. n # m => {i \in DOMAIN new : new[i] = <<n, p>>} = {}
    BY <1>4, <1>5
  <2>. QED
    BY <2>1, CountsThem, FS_EmptySet
<1>9. todo[c] \o new \in Seq(Packages) /\ \A y : U!Occurrences(y, todo[c] \o new) = U!Occurrences(y, todo[c]) + U!Occurrences(y, new)
  BY <1>1, <1>6, OccursInBoth
<1>10. CallTyped(c)'
  BY <1>1, <1>5, <1>9 DEF CallTyped
<1>11. \A n : Lost(c, n)' = Lost(c, n) /\ U!File(c, n)' = U!File(c, n)
  BY DEF Lost, U!File, U!Occurrences
<1>12. \A n, p : Handled(c, n, p) \in Nat /\ Handled(c, n, p)' = Handled(c, n, p) + U!Occurrences(<<n, p>>, new)
  <2> TAKE n, p
  <2>1. PICK y : y = <<n, p>>
    OBVIOUS
  <2>2. /\ U!Occurrences(y, done[c]) \in Nat /\ U!Occurrences(y, failed[c]) \in Nat
        /\ U!Occurrences(y, todo[c]) \in Nat /\ U!Occurrences(y, new) \in Nat
    BY <1>1, <1>6, OccursNaturally
  <2>3. Handled(c, n, p)' = U!Occurrences(y, done[c]) + U!Occurrences(y, failed[c]) + U!Occurrences(y, todo[c] \o new)
    BY <1>5, <2>1 DEF Handled, U!Occurrences
  <2>4. Handled(c, n, p) = U!Occurrences(y, done[c]) + U!Occurrences(y, failed[c]) + U!Occurrences(y, todo[c])
    BY <2>1 DEF Handled
  <2>. QED
    BY <2>1, <2>2, <2>3, <2>4, <1>9
<1>13. Balanced(c)'
  <2> SUFFICES ASSUME NEW n \in DOMAIN batch[c].batch
               PROVE  \/ n \in packages'[c] /\ Lost(c, n)' = 0 /\ \A p \in UploadPlugins : Handled(c, n, p)' = 0
                      \/ n \notin packages'[c] /\ Lost(c, n)' = 0
                         /\ \A p \in UploadPlugins : Handled(c, n, p)' = U!Occurrences(p, U!File(c, n).plugins)
                      \/ n \notin packages'[c] /\ Lost(c, n)' = 1 /\ \A p \in UploadPlugins : Handled(c, n, p)' = 0
    BY <1>11 DEF Balanced, U!Occurrences
  <2>1. CASE n = m
    <3>1. Lost(c, n) = 0 /\ \A p \in UploadPlugins : Handled(c, n, p) = 0
      BY <2>1 DEF Balanced
    <3>2. \A p : U!Occurrences(p, plugins) \in Nat
      BY OccursNaturally
    <3>3. \A p \in UploadPlugins : Handled(c, n, p)' = U!Occurrences(p, plugins)
      <4> TAKE p \in UploadPlugins
      <4>1. Handled(c, n, p)' = 0 + U!Occurrences(<<n, p>>, new)
        BY <3>1, <1>12
      <4>2. U!Occurrences(<<n, p>>, new) = U!Occurrences(p, plugins)
        BY <2>1, <1>7
      <4>3. PICK k \in Nat : k = U!Occurrences(p, plugins)
        BY <3>2
      <4>4. Handled(c, n, p)' = 0 + k
        BY <4>1, <4>2, <4>3
      <4>. QED
        BY <4>3, <4>4
    <3>4. n \notin packages'[c] /\ Lost(c, n)' = 0
      BY <2>1, <3>1, <1>11
    <3>. QED
      BY <2>1, <3>3, <3>4, <1>3
  <2>2. CASE n # m
    <3>1. \A p : Handled(c, n, p)' = Handled(c, n, p)
      <4> TAKE p
      <4>1. U!Occurrences(<<n, p>>, new) = 0
        BY <2>2, <1>8
      <4>2. Handled(c, n, p)' = Handled(c, n, p) + 0 /\ Handled(c, n, p) \in Nat
        BY <4>1, <1>12
      <4>3. PICK k \in Nat : k = Handled(c, n, p)
        BY <4>2
      <4>4. Handled(c, n, p)' = k + 0
        BY <4>2, <4>3
      <4>. QED
        BY <4>3, <4>4
    <3>2. Lost(c, n)' = Lost(c, n) /\ (n \in packages'[c] <=> n \in packages[c])
      BY <2>2, <1>11
    <3>. QED
      BY <3>1, <3>2 DEF Balanced
  <2>. QED
    BY <2>1, <2>2
<1>. QED
  BY <1>10, <1>13

(* Files fail: they are no longer to go through, and are among what failed. *)
LEMMA FilesFail ==
  ASSUME NEW c \in UploadCalls, CallTyped(c), Balanced(c), NEW lost, lost \subseteq packages[c],
         batch'[c] = batch[c], packages'[c] = packages[c] \ lost, todo'[c] = todo[c], done'[c] = done[c],
         failed'[c] \in Seq(Entries),
         \A n \in Nat : \A p \in UploadPlugins :
           U!Occurrences(<<n, p>>, failed'[c]) = U!Occurrences(<<n, p>>, failed[c]),
         \A n \in Nat : U!Occurrences(<<n, "file">>, failed'[c])
                         = U!Occurrences(<<n, "file">>, failed[c]) + IF n \in lost THEN 1 ELSE 0
  PROVE  CallTyped(c)' /\ Balanced(c)'
<1>1. /\ todo[c] \in Seq(Packages) /\ done[c] \in Seq(Packages) /\ failed[c] \in Seq(Entries)
      /\ batch[c].batch \in Seq(FileSet) /\ packages[c] \subseteq DOMAIN batch[c].batch
  BY DEF CallTyped
<1>2. CallTyped(c)'
  BY <1>1 DEF CallTyped
<1>3. \A n \in Nat : \A p \in UploadPlugins : Handled(c, n, p)' = Handled(c, n, p)
  BY DEF Handled, U!Occurrences
<1>4. \A n : U!File(c, n)' = U!File(c, n)
  BY DEF U!File
<1>5. DOMAIN batch[c].batch \subseteq Nat
  BY <1>1
<1>6. \A n \in Nat : n \notin lost => Lost(c, n)' = Lost(c, n)
  <2> SUFFICES ASSUME NEW n \in Nat, n \notin lost PROVE Lost(c, n)' = Lost(c, n)
    OBVIOUS
  <2>1. U!Occurrences(<<n, "file">>, failed'[c]) = U!Occurrences(<<n, "file">>, failed[c]) + 0
    OBVIOUS
  <2>2. PICK k \in Nat : k = U!Occurrences(<<n, "file">>, failed[c])
    BY <1>1, OccursNaturally
  <2>3. U!Occurrences(<<n, "file">>, failed'[c]) = k
    BY <2>1, <2>2
  <2>. QED
    BY <2>2, <2>3 DEF Lost, U!Occurrences
<1>7. \A n \in lost : Lost(c, n)' = 1 /\ n \notin packages'[c]
  <2> TAKE n \in lost
  <2>1. n \in Nat /\ Lost(c, n) = 0
    BY <1>1, <1>5 DEF Balanced
  <2>2. U!Occurrences(<<n, "file">>, failed[c]) = 0
    BY <2>1 DEF Lost
  <2>3. U!Occurrences(<<n, "file">>, failed'[c]) = 1
    BY <2>1, <2>2
  <2>. QED
    BY <2>3 DEF Lost, U!Occurrences
<1>8. ASSUME NEW n \in DOMAIN batch[c].batch, n \in lost
      PROVE  n \notin packages'[c] /\ Lost(c, n)' = 1 /\ \A p \in UploadPlugins : Handled(c, n, p)' = 0
  <2>1. \A p \in UploadPlugins : Handled(c, n, p) = 0
    BY <1>8 DEF Balanced
  <2>. QED
    BY <1>3, <1>5, <1>7, <1>8, <2>1
<1>9. ASSUME NEW n \in DOMAIN batch[c].batch, n \notin lost
      PROVE  /\ n \in packages'[c] <=> n \in packages[c]
             /\ Lost(c, n)' = Lost(c, n)
             /\ \A p \in UploadPlugins : Handled(c, n, p)' = Handled(c, n, p)
  BY <1>3, <1>5, <1>6, <1>9
<1>10. Balanced(c)'
  <2> SUFFICES ASSUME NEW n \in DOMAIN batch[c].batch
               PROVE  \/ n \in packages'[c] /\ Lost(c, n)' = 0 /\ \A p \in UploadPlugins : Handled(c, n, p)' = 0
                      \/ n \notin packages'[c] /\ Lost(c, n)' = 0
                         /\ \A p \in UploadPlugins : Handled(c, n, p)' = U!Occurrences(p, U!File(c, n).plugins)
                      \/ n \notin packages'[c] /\ Lost(c, n)' = 1 /\ \A p \in UploadPlugins : Handled(c, n, p)' = 0
    BY <1>4 DEF Balanced, U!Occurrences
  <2>1. CASE n \in lost
    BY <2>1, <1>8
  <2>2. CASE n \notin lost
    BY <2>2, <1>9 DEF Balanced
  <2>. QED
    BY <2>1, <2>2
<1>. QED
  BY <1>2, <1>10

LEMMA OneFileFails ==
  ASSUME NEW c \in UploadCalls, CallTyped(c), Balanced(c), NEW m \in packages[c],
         batch'[c] = batch[c], packages'[c] = packages[c] \ {m}, todo'[c] = todo[c], done'[c] = done[c],
         failed'[c] = Append(failed[c], <<m, "file">>)
  PROVE  CallTyped(c)' /\ Balanced(c)'
<1>1. failed[c] \in Seq(Entries) /\ m \in Nat
  BY DEF CallTyped
<1>2. PICK y \in Entries : y = <<m, "file">>
  BY <1>1 DEF Entries
<1>3. Append(failed[c], y) \in Seq(Entries)
  BY <1>1
<1>4. \A x : U!Occurrences(x, Append(failed[c], y)) = U!Occurrences(x, failed[c]) + IF y = x THEN 1 ELSE 0
  BY <1>1, OccursOnceMore
<1>5. \A n \in Nat : \A p \in UploadPlugins :
        U!Occurrences(<<n, p>>, failed'[c]) = U!Occurrences(<<n, p>>, failed[c])
  <2> TAKE n \in Nat
  <2> TAKE p \in UploadPlugins
  <2>1. PICK x : x = <<n, p>>
    OBVIOUS
  <2>2. x # y
    BY <1>2, <2>1, UploadAssumption
  <2>3. U!Occurrences(x, failed[c]) \in Nat
    BY <1>1, OccursNaturally
  <2>4. U!Occurrences(x, Append(failed[c], y)) = U!Occurrences(x, failed[c])
    BY <2>2, <2>3, <1>4
  <2>. QED
    BY <2>1, <2>4, <1>2
<1>6. \A n \in Nat : U!Occurrences(<<n, "file">>, failed'[c])
                        = U!Occurrences(<<n, "file">>, failed[c]) + IF n \in {m} THEN 1 ELSE 0
  <2> TAKE n \in Nat
  <2>1. <<n, "file">> = y <=> n \in {m}
    BY <1>2
  <2>. QED
    BY <2>1, <1>2, <1>4
<1>. QED
  BY <1>2, <1>3, <1>5, <1>6, FilesFail

(* The files that cannot be downloaded, each listed once.                  *)
LEMMA SomeFilesFail ==
  ASSUME NEW c \in UploadCalls, CallTyped(c), Balanced(c), NEW lost, lost \subseteq packages[c],
         batch'[c] = batch[c], packages'[c] = packages[c] \ lost, todo'[c] = todo[c], done'[c] = done[c],
         failed[c] = <<>>, failed'[c] = U!SetToSeq({<<n, "file">> : n \in lost})
  PROVE  CallTyped(c)' /\ Balanced(c)'
<1> DEFINE A == {<<n, "file">> : n \in lost}
<1>1. lost \subseteq Nat /\ IsFiniteSet(lost)
  <2>1. batch[c].batch \in Seq(FileSet) /\ lost \subseteq DOMAIN batch[c].batch
    BY DEF CallTyped
  <2>2. DOMAIN batch[c].batch = 1..Len(batch[c].batch) /\ Len(batch[c].batch) \in Nat
    BY <2>1
  <2>3. IsFiniteSet(1..Len(batch[c].batch))
    BY <2>2, FS_Interval
  <2>. QED
    BY <2>1, <2>2, <2>3, FS_Subset
<1>2. IsFiniteSet(A)
  <2> DEFINE f == [n \in lost |-> <<n, "file">>]
  <2>1. f \in Surjection(lost, A)
    BY DEF Surjection
  <2>. QED
    BY <1>1, <2>1, FS_Surjection
<1>3. A \subseteq Entries
  BY <1>1 DEF Entries
<1> HIDE DEF A
<1>4. U!SetToSeq(A) \in Seq(A) /\ \A x : U!Occurrences(x, U!SetToSeq(A)) = IF x \in A THEN 1 ELSE 0
  BY <1>2, OccursInSet
<1>5. failed'[c] = U!SetToSeq(A)
  BY DEF A
<1>6. failed'[c] \in Seq(Entries)
  BY <1>3, <1>4, <1>5
<1>7. \A n \in Nat : \A p \in UploadPlugins :
        U!Occurrences(<<n, p>>, failed'[c]) = U!Occurrences(<<n, p>>, failed[c])
  <2> TAKE n \in Nat
  <2> TAKE p \in UploadPlugins
  <2>1. <<n, p>> \notin A
    BY UploadAssumption DEF A
  <2>. QED
    BY <2>1, <1>4, <1>5, OccursInNone
<1>8. \A n \in Nat : U!Occurrences(<<n, "file">>, failed'[c])
                        = U!Occurrences(<<n, "file">>, failed[c]) + IF n \in lost THEN 1 ELSE 0
  <2> TAKE n \in Nat
  <2>1. <<n, "file">> \in A <=> n \in lost
    BY DEF A
  <2>. QED
    BY <2>1, <1>4, <1>5, OccursInNone
<1>. QED
  BY <1>6, <1>7, <1>8, FilesFail

(* A step of one call keeps what holds of it, and of the others.           *)
LEMMA OneCall ==
  ASSUME AccountInv, NEW c \in UploadCalls, CallAccounts(c)',
         \/ batch' = batch \/ \E v : batch' = [batch EXCEPT ![c] = v],
         \/ uploadAt' = uploadAt \/ \E v : uploadAt' = [uploadAt EXCEPT ![c] = v],
         \/ packages' = packages \/ \E v : packages' = [packages EXCEPT ![c] = v],
         \/ todo' = todo \/ \E v : todo' = [todo EXCEPT ![c] = v],
         \/ done' = done \/ \E v : done' = [done EXCEPT ![c] = v],
         \/ failed' = failed \/ \E v : failed' = [failed EXCEPT ![c] = v]
  PROVE  AccountInv'
<1>1. /\ DOMAIN batch' = UploadCalls /\ DOMAIN uploadAt' = UploadCalls /\ DOMAIN packages' = UploadCalls
      /\ DOMAIN todo' = UploadCalls /\ DOMAIN done' = UploadCalls /\ DOMAIN failed' = UploadCalls
  BY DEF AccountInv
<1>2. ASSUME NEW d \in UploadCalls, d # c
      PROVE  /\ batch'[d] = batch[d] /\ uploadAt'[d] = uploadAt[d] /\ packages'[d] = packages[d]
             /\ todo'[d] = todo[d] /\ done'[d] = done[d] /\ failed'[d] = failed[d]
  BY <1>2 DEF AccountInv
<1>3. \A d \in UploadCalls : CallAccounts(d)
  BY DEF AccountInv
<1>4. \A d \in UploadCalls : CallAccounts(d)'
  BY <1>2, <1>3, OthersStay
<1>. QED
  BY <1>1, <1>4 DEF AccountInv

LEMMA AccountInvKept ==
  ASSUME AccountInv, [U!Next]_uploadVars
  PROVE  AccountInv'
<1> USE DEF U!Goes, U!Fails, U!Proceed, U!IsDone, U!Package, U!Fault
<1>0. /\ DOMAIN batch = UploadCalls /\ DOMAIN uploadAt = UploadCalls /\ DOMAIN packages = UploadCalls
      /\ DOMAIN todo = UploadCalls /\ DOMAIN done = UploadCalls /\ DOMAIN failed = UploadCalls
      /\ \A c \in UploadCalls : CallAccounts(c)
  BY DEF AccountInv
<1>1. CASE UNCHANGED U!progress
  <2>1. \A c \in UploadCalls : CallAccounts(c)'
    BY <1>0, <1>1, OthersStay DEF U!progress
  <2>. QED
    BY <1>0, <1>1, <2>1 DEF U!progress, AccountInv
<1>2. ASSUME NEW c \in UploadCalls, NEW kind \in U!Kinds, NEW to \in Sources, NEW sent \in Batches, U!Begin(c, kind, to, sent)
      PROVE  AccountInv'
  <2>1. CallTyped(c) /\ todo[c] = <<>> /\ done[c] = <<>> /\ failed[c] = <<>>
    BY <1>0, <1>2 DEF U!Begin, CallAccounts
  <2>2. /\ batch'[c].batch = sent /\ packages'[c] = DOMAIN sent /\ uploadAt'[c] \in {"snapshot", "download"}
        /\ todo'[c] = <<>> /\ done'[c] = <<>> /\ failed'[c] = <<>>
    BY <1>0, <1>2, <2>1 DEF U!Begin
  <2>3. sent \in Seq(FileSet)
    BY UploadAssumption DEF FileSet
  <2>4. CallTyped(c)'
    BY <2>1, <2>2, <2>3 DEF CallTyped
  <2>5. Balanced(c)'
    <3>1. \A x : /\ U!Occurrences(x, done'[c]) = 0 /\ U!Occurrences(x, failed'[c]) = 0
                 /\ U!Occurrences(x, todo'[c]) = 0
      BY <2>2, OccursInNone
    <3>2. \A n : Lost(c, n)' = 0 /\ \A p : Handled(c, n, p)' = 0
      <4> TAKE n
      <4>1. Lost(c, n)' = 0
        BY <3>1 DEF Lost, U!Occurrences
      <4>2. ASSUME NEW p PROVE Handled(c, n, p)' = 0
        <5>1. PICK y : y = <<n, p>>
          OBVIOUS
        <5>2. Handled(c, n, p)' = U!Occurrences(y, done'[c]) + U!Occurrences(y, failed'[c]) + U!Occurrences(y, todo'[c])
          BY <5>1 DEF Handled, U!Occurrences
        <5>3. Handled(c, n, p)' = 0 + 0 + 0
          BY <5>2, <3>1
        <5>. QED
          BY <5>3
      <4>. QED
        BY <4>1, <4>2
    <3>. QED
      BY <2>2, <3>2 DEF Balanced
  <2>6. CallAccounts(c)'
    BY <2>2, <2>4, <2>5 DEF CallAccounts
  <2>. QED
    BY <1>2, <2>6, OneCall DEF U!Begin
<1>3. ASSUME NEW c \in UploadCalls, U!Snapshot(c) PROVE AccountInv'
  <2>1. CallAccounts(c) /\ uploadAt[c] = "snapshot" /\ uploadAt'[c] \in {"files", "refused"}
    BY <1>0, <1>3 DEF U!Snapshot
  <2>2. UNCHANGED <<batch, packages, todo, done, failed>>
    BY <1>3 DEF U!Snapshot
  <2>3. CallAccounts(c)'
    BY <2>1, <2>2, SameData DEF CallAccounts
  <2>. QED
    BY <1>3, <2>2, <2>3, OneCall DEF U!Snapshot
<1>4. ASSUME NEW c \in UploadCalls, U!Download(c) PROVE AccountInv'
  <2>1. CallAccounts(c) /\ uploadAt[c] = "download" /\ uploadAt'[c] = "files"
    BY <1>0, <1>4 DEF U!Download
  <2>2. PICK lost \in SUBSET packages[c] :
          /\ packages' = [packages EXCEPT ![c] = @ \ lost]
          /\ failed' = [failed EXCEPT ![c] = U!SetToSeq({<<n, "file">> : n \in lost})]
    BY <1>4 DEF U!Download
  <2>3. UNCHANGED <<batch, todo, done>>
    BY <1>4 DEF U!Download
  <2>4. CallTyped(c) /\ Balanced(c) /\ failed[c] = <<>>
    BY <2>1 DEF CallAccounts
  <2>5. CallTyped(c)' /\ Balanced(c)'
    BY <1>0, <2>2, <2>3, <2>4, SomeFilesFail
  <2>6. CallAccounts(c)'
    BY <2>1, <2>5 DEF CallAccounts
  <2>. QED
    BY <1>4, <2>2, <2>3, <2>6, OneCall DEF U!Download
<1>5. ASSUME NEW c \in UploadCalls, U!TakeFile(c) PROVE AccountInv'
  <2>1. CallAccounts(c) /\ uploadAt[c] = "files" /\ CallTyped(c) /\ Balanced(c)
    BY <1>0, <1>5 DEF U!TakeFile, CallAccounts
  <2>2. PICK n \in packages[c] :
          /\ packages' = [packages EXCEPT ![c] = @ \ {n}]
          /\ \/ todo' = [todo EXCEPT ![c] = @ \o U!PackagesOf(c, n)] /\ failed' = failed
             \/ failed' = [failed EXCEPT ![c] = Append(@, <<n, "file">>)] /\ todo' = todo
    BY <1>5 DEF U!TakeFile
  <2>3. UNCHANGED <<batch, uploadAt, done>>
    BY <1>5 DEF U!TakeFile
  <2>4. CallTyped(c)' /\ Balanced(c)'
    <3>1. CASE todo' = [todo EXCEPT ![c] = @ \o U!PackagesOf(c, n)] /\ failed' = failed
      BY <1>0, <2>1, <2>2, <2>3, <3>1, Unfolds
    <3>2. CASE failed' = [failed EXCEPT ![c] = Append(@, <<n, "file">>)] /\ todo' = todo
      BY <1>0, <2>1, <2>2, <2>3, <3>2, OneFileFails
    <3>. QED
      BY <2>2, <3>1, <3>2
  <2>5. CallAccounts(c)'
    BY <2>1, <2>3, <2>4 DEF CallAccounts
  <2>. QED
    BY <2>2, <2>3, <2>5, OneCall
<1>6. ASSUME NEW c \in UploadCalls, U!Parse(c) PROVE AccountInv'
  <2>1. CallAccounts(c) /\ uploadAt[c] = "files" /\ CallTyped(c) /\ Balanced(c) /\ todo[c] # <<>>
    BY <1>0, <1>6 DEF U!Parse, CallAccounts
  <2>2. UNCHANGED <<batch, packages, done>>
    BY <1>6 DEF U!Parse
  <2>3. CASE uploadAt'[c] \in {"create", "threw"} /\ UNCHANGED <<todo, failed>>
    <3>1. CallAccounts(c)'
      BY <2>1, <2>2, <2>3, SameData DEF CallAccounts
    <3>. QED
      BY <1>6, <2>2, <2>3, <3>1, OneCall DEF U!Parse
  <2>4. CASE /\ uploadAt'[c] = "files" /\ failed' = [failed EXCEPT ![c] = Append(@, Head(todo[c]))]
             /\ todo' = [todo EXCEPT ![c] = Tail(@)]
    <3>1. CallTyped(c)' /\ Balanced(c)'
      BY <1>0, <2>1, <2>2, <2>4, Passes
    <3>2. CallAccounts(c)'
      BY <2>4, <3>1 DEF CallAccounts
    <3>. QED
      BY <1>6, <2>2, <2>4, <3>2, OneCall DEF U!Parse
  <2>. QED
    BY <1>0, <1>6, <2>3, <2>4 DEF U!Parse
<1>7. ASSUME NEW c \in UploadCalls, U!Create(c) PROVE AccountInv'
  <2>1. CallAccounts(c) /\ uploadAt[c] = "create" /\ CallTyped(c) /\ Balanced(c) /\ todo[c] # <<>>
    BY <1>0, <1>7 DEF U!Create, CallAccounts
  <2>2. UNCHANGED <<batch, packages, failed>>
    BY <1>7 DEF U!Create
  <2>3. CASE uploadAt'[c] = "rollback" /\ UNCHANGED <<todo, done>>
    <3>1. CallAccounts(c)'
      BY <2>1, <2>2, <2>3, SameData DEF CallAccounts
    <3>. QED
      BY <1>7, <2>2, <2>3, <3>1, OneCall DEF U!Create
  <2>4. CASE /\ uploadAt'[c] = "files" /\ done' = [done EXCEPT ![c] = Append(@, Head(todo[c]))]
             /\ todo' = [todo EXCEPT ![c] = Tail(@)]
    <3>1. CallTyped(c)' /\ Balanced(c)'
      BY <1>0, <2>1, <2>2, <2>4, Passes
    <3>2. CallAccounts(c)'
      BY <2>4, <3>1 DEF CallAccounts
    <3>. QED
      BY <1>7, <2>2, <2>4, <3>2, OneCall DEF U!Create
  <2>. QED
    BY <1>0, <1>7, <2>3, <2>4 DEF U!Create
<1>14. ASSUME NEW c \in UploadCalls, U!CreateThrows(c) PROVE AccountInv'
  <2>1. CallAccounts(c) /\ uploadAt[c] = "create" /\ uploadAt'[c] = "threw"
    BY <1>0, <1>14 DEF U!CreateThrows
  <2>2. UNCHANGED <<batch, packages, todo, done, failed>>
    BY <1>14 DEF U!CreateThrows
  <2>3. CallAccounts(c)'
    BY <2>1, <2>2, SameData DEF CallAccounts
  <2>. QED
    BY <1>14, <2>2, <2>3, OneCall DEF U!CreateThrows
<1>8. ASSUME NEW c \in UploadCalls, U!Rollback(c) PROVE AccountInv'
  <2>1. CallAccounts(c) /\ uploadAt[c] = "rollback" /\ CallTyped(c) /\ Balanced(c) /\ todo[c] # <<>>
    BY <1>0, <1>8 DEF U!Rollback, CallAccounts
  <2>2. /\ UNCHANGED <<batch, packages, done>> /\ uploadAt'[c] = "files"
        /\ failed' = [failed EXCEPT ![c] = Append(@, Head(todo[c]))] /\ todo' = [todo EXCEPT ![c] = Tail(@)]
    BY <1>0, <1>8 DEF U!Rollback
  <2>3. CallTyped(c)' /\ Balanced(c)'
    BY <1>0, <2>1, <2>2, Passes
  <2>4. CallAccounts(c)'
    BY <2>2, <2>3 DEF CallAccounts
  <2>. QED
    BY <1>8, <2>2, <2>4, OneCall DEF U!Rollback
<1>9. ASSUME NEW c \in UploadCalls, U!Install(c) PROVE AccountInv'
  <2>1. CallAccounts(c) /\ uploadAt[c] = "create" /\ CallTyped(c) /\ Balanced(c) /\ todo[c] # <<>>
    BY <1>0, <1>9 DEF U!Install, CallAccounts
  <2>2. /\ UNCHANGED <<batch, packages>> /\ uploadAt'[c] = "files" /\ todo' = [todo EXCEPT ![c] = Tail(@)]
        /\ \/ done' = [done EXCEPT ![c] = Append(@, Head(todo[c]))] /\ failed' = failed
           \/ failed' = [failed EXCEPT ![c] = Append(@, Head(todo[c]))] /\ done' = done
    BY <1>0, <1>9 DEF U!Install
  <2>3. CallTyped(c)' /\ Balanced(c)'
    BY <1>0, <2>1, <2>2, Passes
  <2>4. CallAccounts(c)'
    BY <2>2, <2>3 DEF CallAccounts
  <2>. QED
    BY <1>9, <2>2, <2>4, OneCall DEF U!Install
<1>10. ASSUME NEW c \in UploadCalls, U!Answer(c) PROVE AccountInv'
  <2>1. CallAccounts(c) /\ uploadAt[c] = "files" /\ packages[c] = {} /\ todo[c] = <<>> /\ uploadAt'[c] = "answered"
    BY <1>0, <1>10 DEF U!Answer
  <2>2. UNCHANGED <<batch, packages, todo, done, failed>>
    BY <1>10 DEF U!Answer
  <2>3. CallAccounts(c)'
    BY <2>1, <2>2, SameData DEF CallAccounts
  <2>. QED
    BY <1>10, <2>2, <2>3, OneCall DEF U!Answer
<1>11. ASSUME NEW c \in UploadCalls, U!Decide(c) PROVE AccountInv'
  <2>1. /\ CallAccounts(c) /\ uploadAt[c] = "answered" /\ uploadAt'[c] \in {"confirm", "gaveUp"}
        /\ todo'[c] \in {done[c], <<>>}
    BY <1>0, <1>11 DEF U!Decide
  <2>2. UNCHANGED <<batch, packages, done, failed>>
    BY <1>11 DEF U!Decide
  <2>3. CallTyped(c) /\ Settled(c)
    BY <2>1, SettledAtLast DEF CallAccounts
  <2>4. CallTyped(c)'
    <3>1. <<>> \in Seq(Packages)
      OBVIOUS
    <3>. QED
      BY <2>1, <2>2, <2>3, <3>1 DEF CallTyped
  <2>5. CallAccounts(c)'
    BY <2>1, <2>2, <2>3, <2>4, SameData DEF CallAccounts
  <2>. QED
    BY <1>11, <2>2, <2>5, OneCall DEF U!Decide
<1>12. ASSUME NEW c \in UploadCalls, U!Confirm(c) PROVE AccountInv'
  <2>1. CallAccounts(c) /\ uploadAt[c] = "confirm" /\ todo[c] # <<>> /\ todo'[c] = Tail(todo[c])
    BY <1>0, <1>12 DEF U!Confirm
  <2>2. UNCHANGED <<batch, uploadAt, packages, done, failed>>
    BY <1>12 DEF U!Confirm
  <2>3. CallTyped(c) /\ Settled(c)
    BY <2>1 DEF CallAccounts
  <2>4. CallTyped(c)'
    BY <2>1, <2>2, <2>3, OccursOnceLess DEF CallTyped
  <2>5. CallAccounts(c)'
    BY <2>1, <2>2, <2>3, <2>4, SameData DEF CallAccounts
  <2>. QED
    BY <1>12, <2>2, <2>5, OneCall DEF U!Confirm
<1>13. ASSUME NEW c \in UploadCalls, U!Complete(c) PROVE AccountInv'
  <2>1. CallAccounts(c) /\ uploadAt[c] = "confirm" /\ uploadAt'[c] = "completed"
    BY <1>0, <1>13 DEF U!Complete
  <2>2. UNCHANGED <<batch, packages, todo, done, failed>>
    BY <1>13 DEF U!Complete
  <2>3. CallAccounts(c)'
    BY <2>1, <2>2, SameData DEF CallAccounts
  <2>. QED
    BY <1>13, <2>2, <2>3, OneCall DEF U!Complete
<1>. QED
  BY <1>1, <1>2, <1>3, <1>4, <1>5, <1>6, <1>7, <1>8, <1>9, <1>10, <1>11, <1>12, <1>13, <1>14
     DEF U!Next, U!Other, U!progress, uploadVars

(* As long as nothing expires or is deleted, what was pending, in whatever *)
(* source, is so or installed, and so is what an upload reports as done,   *)
(* except in the default source where an upload, to any, failed with the   *)
(* plugin and had not found it pending there.                              *)
THEOREM UploadsAlwaysStand == PartsSpec => []UploadsStand
<1>1. PartsInit => UploadInv
  BY UploadInvAtStart DEF PartsInit
<1>2. UploadInv /\ [PartsNext]_allVars => UploadInv'
  BY UploadInvKept, PartsStep
<1>3. UploadInv => UploadsStand
  BY DEF UploadInv, UploadsStand
<1>. QED
  BY <1>1, <1>2, <1>3, PTL DEF PartsSpec

(* The answer to an upload or an installation reports each file or package *)
(* that was sent, once, as done or as failed.                              *)
THEOREM AccountedAlways == PartsSpec => []Accounted
<1>1. PartsInit => AccountInv
  BY AccountInvAtStart DEF PartsInit
<1>2. AccountInv /\ [PartsNext]_allVars => AccountInv'
  BY AccountInvKept, PartsStep
<1>3. AccountInv => Accounted
  BY AccountInvSuffices DEF Accounted
<1>. QED
  BY <1>1, <1>2, <1>3, PTL DEF PartsSpec

-----------------------------------------------------------------------------
(* FailureReport                                                           *)

LinkKinds == {"registered", "error", "value", "null"}
Codes == E!Registered \cup {None, "INTERNAL_ERROR", "REQUEST_TIMEOUT", "QUEUE_TIMEOUT"}
Texts ==
  E!Registered \cup {Messages[i] : i \in 1..Len(Messages)} \cup
  {"a", "depth exceeded", "unknown error", "[object Object]", "internal server error",
   "timed out", "invoke failed", "repo", "get plugin", "use case", "host", "invoke"}
Links == [kind : LinkKinds, code : Codes, reason : SUBSET Texts, text : SUBSET Texts]

(* A link as an error has it that was thrown.                              *)
IsPlain(link) == link.kind = "error" /\ link.code = None /\ link.reason = {} /\ link.text # {}

(* Where an error arises: plain links, but for a timeout, a registered     *)
(* error, or what is no error, which are alone.                            *)
ArisesAsKnown ==
  /\ raised \in Seq(Links) /\ Len(raised) \in Nat \ {0}
  /\ \/ \A i \in 1..Len(raised) : IsPlain(raised[i])
     \/ /\ from = "pod" /\ Len(raised) = 1 /\ raised[1].kind = "error"
        /\ raised[1].code \in {"REQUEST_TIMEOUT", "QUEUE_TIMEOUT"} /\ raised[1].reason = {}
     \/ /\ from = "driver" /\ Len(raised) = 1 /\ raised[1].kind = "registered"
        /\ raised[1].code = "plugin_not_found"
     \/ /\ from = "route" /\ Len(raised) = 1 /\ raised[1].kind = "registered"
        /\ raised[1].code \in {"validation_failed", "not_found"}
     \/ /\ from = "fastgpt" /\ Len(raised) = 1 /\ raised[1].kind \in {"value", "null"}
        /\ raised[1].code = None /\ raised[1].reason = {}
  /\ from = "session" => Len(raised) = 1 /\ IsPlain(raised[1])
  /\ from = "driver" => ~IsPlain(raised[1])
  /\ from = "route" => ~IsPlain(raised[1])
  /\ from \in {"pod", "driver", "debug", "repo", "thrown", "http", "route", "fastgpt", "session"}

(* The error has n links before those that arose.                          *)
Under(n) ==
  /\ error \in Seq(Links) /\ Len(error) = Len(raised) + n
  /\ \A i \in 1..Len(raised) : error[i + n] = raised[i]

(* The texts of the first four links that arose are there, n links         *)
(* further down.                                                           *)
Shown(n) ==
  \A i \in 1..Len(raised) :
    i <= 4 /\ raised[i].text # {} => i + n \in DOMAIN error /\ error[i + n].text = raised[i].text

(* The last link of a short error is what arose last, with a text only.    *)
LastIs(n, length) ==
  Len(raised) <= 3 =>
    /\ Len(error) = Len(raised) + n /\ Len(error) <= length
    /\ error[Len(error)].reason = {} /\ raised[Len(raised)].text \subseteq error[Len(error)].text

(* The head says what happened, of the run of a tool.                      *)
HeadSays ==
  /\ from \in {"pod", "driver", "debug"} => error[1].code = E!Due
  /\ from \in {"pod", "driver"} /\ E!Due \in {"invoke.failed", "plugin_not_found"} => raised[1].text \subseteq error[1].text

Origins == {"pod", "driver", "debug", "repo", "thrown", "http", "route", "fastgpt", "session"}

(* How far what arose is down at each stage.                               *)
StageHolds ==
  /\ report \in Origins \cup {"begin", "manager", "failure", "client", "result", "plugin", "tool", "over"}
  /\ report # "begin" => ArisesAsKnown
  /\ report \in Origins \ {"route"} => from = report /\ error = raised
  /\ report = "manager" =>
       /\ from \in {"pod", "driver", "debug"} /\ HeadSays
       /\ error[1].kind = "registered" /\ error[1].code \in E!Registered \ E!Internal
       /\ Under(1) \/ (from = "driver" /\ Under(0))
  /\ report = "failure" => from = "repo" /\ Under(1) /\ error[1] = E!Link("error", None, {"repo"}, {"repo"})
  /\ report = "route" =>
       /\ from \notin {"fastgpt", "session"} /\ HeadSays
       /\ \E n \in 0..2 : Under(n) /\ (n = 0 => error[1].code \notin E!Internal)
       /\ from \in {"pod", "driver", "debug"} => error[1].code \notin E!Internal
       /\ error[1].kind \in {"registered", "error"}
  /\ report = "client" =>
       /\ from \notin {"fastgpt", "session"} /\ HeadSays
       /\ \E n \in 0..2 : Shown(n)
  /\ report = "result" =>
       /\ from = "fastgpt" /\ error[1] = E!Link("error", None, E!HostReason, E!HostReason)
       /\ \/ Under(1) /\ \A i \in 1..Len(raised) : IsPlain(raised[i])
          \/ /\ Under(2) /\ Len(raised) = 1 /\ raised[1].kind \in {"value", "null"} /\ raised[1].reason = {}
             /\ error[2].kind = "error" /\ error[2].code = None
  /\ report = "plugin" =>
       /\ error \in Seq(Links) /\ Len(error) > 0
       /\ \/ from = "session" /\ Shown(0) /\ LastIs(0, 1)
          \/ /\ from = "fastgpt" /\ error[1].kind = "error" /\ error[1].reason = E!HostReason
             /\ \E n \in 1..2 : Shown(n) /\ LastIs(n, 4)
  /\ report = "tool" =>
       /\ error \in Seq(Links) /\ Len(error) > 1 /\ error[1].reason = {"invoke"}
       /\ from \in {"fastgpt", "session"} /\ (from = "fastgpt" => error[2].reason = E!HostReason)
       /\ \E n \in 1..3 : Shown(n) /\ LastIs(n, 5)
  /\ report = "over" => E!FailuresAreTold

-----------------------------------------------------------------------------
(* One link more on top.                                                   *)
LEMMA OnTop ==
  ASSUME NEW w \in Links, NEW e \in Seq(Links)
  PROVE  /\ <<w>> \o e \in Seq(Links) /\ Len(<<w>> \o e) = Len(e) + 1
         /\ (<<w>> \o e)[1] = w /\ \A i \in 1..Len(e) : (<<w>> \o e)[i + 1] = e[i]
<1>1. <<w>> \in Seq(Links) /\ Len(<<w>>) = 1 /\ <<w>>[1] = w
  OBVIOUS
<1>2. Len(e) \in Nat
  OBVIOUS
<1>. QED
  BY <1>1, <1>2

LEMMA FirstOnes ==
  ASSUME NEW R, NEW e \in Seq(R), NEW n \in Nat, n <= Len(e)
  PROVE  /\ SubSeq(e, 1, n) \in Seq(R) /\ Len(SubSeq(e, 1, n)) = n
         /\ \A i \in 1..n : SubSeq(e, 1, n)[i] = e[i]
OBVIOUS

LEMMA AppendedOne ==
  ASSUME NEW R, NEW e \in Seq(R), NEW x \in R
  PROVE  /\ Append(e, x) \in Seq(R) /\ Len(Append(e, x)) = Len(e) + 1
         /\ \A i \in 1..Len(e) : Append(e, x)[i] = e[i]
OBVIOUS

(* What is cut to n and one more.                                          *)
LEMMA CutKeeps ==
  ASSUME NEW R, NEW e \in Seq(R), NEW x \in R, NEW n \in Nat,
         NEW kept, kept = IF Len(e) > n THEN Append(SubSeq(e, 1, n), x) ELSE e
  PROVE  /\ kept \in Seq(R) /\ Len(kept) = (IF Len(e) > n THEN n + 1 ELSE Len(e))
         /\ \A i \in 1..Len(e) : i <= n => kept[i] = e[i]
<1>1. Len(e) \in Nat
  OBVIOUS
<1>2. CASE Len(e) > n
  <2>1. /\ SubSeq(e, 1, n) \in Seq(R) /\ Len(SubSeq(e, 1, n)) = n
        /\ \A i \in 1..n : SubSeq(e, 1, n)[i] = e[i]
    BY <1>1, <1>2, FirstOnes
  <2>2. /\ Append(SubSeq(e, 1, n), x) \in Seq(R)
        /\ Len(Append(SubSeq(e, 1, n), x)) = n + 1
        /\ \A i \in 1..n : Append(SubSeq(e, 1, n), x)[i] = SubSeq(e, 1, n)[i]
    BY <2>1, AppendedOne
  <2>. QED
    BY <1>1, <1>2, <2>1, <2>2
<1>3. CASE ~(Len(e) > n)
  BY <1>3, <1>1
<1>. QED
  BY <1>2, <1>3

LEMMA IndicesOf ==
  ASSUME NEW R, NEW e \in Seq(R)
  PROVE  Len(e) \in Nat /\ DOMAIN e = 1..Len(e) /\ \A i \in 1..Len(e) : e[i] \in R
OBVIOUS

LEMMA SequenceOf ==
  ASSUME NEW R, NEW n \in Nat, NEW e, DOMAIN e = 1..n, e = [i \in 1..n |-> e[i]], \A i \in 1..n : e[i] \in R
  PROVE  e \in Seq(R) /\ Len(e) = n
OBVIOUS

LEMMA SerializeKeeps ==
  ASSUME NEW e \in Seq(Links), Len(e) > 0
  PROVE  /\ E!Serialize(e) \in Seq(Links) /\ Len(E!Serialize(e)) = (IF Len(e) > 6 THEN 7 ELSE Len(e))
         /\ \A i \in 1..Len(e) : i <= 6 => E!Serialize(e)[i] = E!SerializedLink(e[i])
<1>1. E!Plain({"depth exceeded"}) \in Links
  BY DEF E!Plain, E!Link, Links, LinkKinds, Codes, Texts
<1>2. PICK end \in Links : end = E!Plain({"depth exceeded"})
  BY <1>1
<1> PICK kept : kept = IF Len(e) > 6 THEN Append(SubSeq(e, 1, 6), end) ELSE e
  OBVIOUS
<1>3. /\ kept \in Seq(Links) /\ Len(kept) = (IF Len(e) > 6 THEN 7 ELSE Len(e))
      /\ \A i \in 1..Len(e) : i <= 6 => kept[i] = e[i]
  BY CutKeeps
<1>4. E!Serialize(e) = [i \in DOMAIN kept |-> E!SerializedLink(kept[i])]
  BY <1>2 DEF E!Serialize, E!Depth
<1>5. \A link \in Links : E!SerializedLink(link) \in Links
  BY DEF E!SerializedLink, E!UnknownText, E!Plain, E!Link, Links, LinkKinds, Codes, Texts
<1>6. Len(kept) \in Nat /\ DOMAIN kept = 1..Len(kept) /\ \A i \in 1..Len(kept) : kept[i] \in Links
  BY <1>3, IndicesOf
<1>7. E!Serialize(e) = [i \in 1..Len(kept) |-> E!SerializedLink(kept[i])]
  BY <1>4, <1>6
<1>8. \A i \in 1..Len(kept) : E!SerializedLink(kept[i]) \in Links
  BY <1>5, <1>6
<1>9. E!Serialize(e) \in Seq(Links) /\ Len(E!Serialize(e)) = Len(kept)
  BY <1>6, <1>7, <1>8
<1>10. \A i \in 1..Len(e) : i <= 6 => i \in 1..Len(kept)
  <2>1. Len(e) \in Nat
    BY IndicesOf
  <2>. QED
    BY <2>1, <1>3
<1>. QED
  BY <1>3, <1>7, <1>9, <1>10

LEMMA DeserializeKeeps ==
  ASSUME NEW e \in Seq(Links)
  PROVE  /\ E!Deserialize(e) \in Seq(Links) /\ Len(E!Deserialize(e)) = Len(e)
         /\ \A i \in 1..Len(e) :
              /\ E!Deserialize(e)[i].text = e[i].text
              /\ e[i].code \notin E!Registered =>
                   E!Deserialize(e)[i].kind = "error" /\ E!Deserialize(e)[i].reason = e[i].reason
<1> DEFINE D(link) == IF link.code \notin E!Registered THEN [link EXCEPT !.kind = "error"]
                      ELSE [link EXCEPT !.kind = "registered", !.reason = IF @ = {} THEN {link.code} ELSE @]
<1>1. Len(e) \in Nat /\ DOMAIN e = 1..Len(e) /\ \A i \in 1..Len(e) : e[i] \in Links
  OBVIOUS
<1>2. \A link \in Links : /\ D(link) \in Links /\ D(link).text = link.text
                          /\ link.code \notin E!Registered => D(link).kind = "error" /\ D(link).reason = link.reason
  <2> SUFFICES ASSUME NEW link \in Links
               PROVE  /\ D(link) \in Links /\ D(link).text = link.text
                      /\ link.code \notin E!Registered => D(link).kind = "error" /\ D(link).reason = link.reason
    OBVIOUS
  <2>1. CASE link.code \notin E!Registered
    BY <2>1 DEF Links, LinkKinds
  <2>2. CASE link.code \in E!Registered
    <3>1. {link.code} \in SUBSET Texts
      BY <2>2 DEF Texts
    <3>. QED
      BY <2>2, <3>1 DEF Links, LinkKinds
  <2>. QED
    BY <2>1, <2>2
<1>3. E!Deserialize(e) = [i \in 1..Len(e) |-> D(e[i])]
  BY <1>1 DEF E!Deserialize
<1> HIDE DEF D
<1>. QED
  BY <1>1, <1>2, <1>3

(* What arises is a sequence of plain links.                               *)
LEMMA NestedIsPlain ==
  ASSUME NEW e \in E!Arisen
  PROVE  e \in Seq(Links) /\ Len(e) \in Nat \ {0} /\ \A i \in 1..Len(e) : IsPlain(e[i])
<1>1. PICK n \in 0..Len(Messages) - 1 : e = E!Nested(E!Plain({Messages[1]}), n)
  BY DEF E!Arisen
<1>2. Len(Messages) \in Nat
  BY ReportAssumption
<1>3. n \in Nat /\ \A i \in 1..(n + 1) : i \in 1..Len(Messages)
  BY <1>1, <1>2
<1>4. \A k \in 1..Len(Messages) : E!Plain({Messages[k]}) \in Links /\ IsPlain(E!Plain({Messages[k]}))
  <2>1. \A k \in 1..Len(Messages) : Messages[k] \in Texts
    BY DEF Texts
  <2>. QED
    BY <2>1 DEF E!Plain, E!Link, Links, IsPlain, LinkKinds, Codes
<1> DEFINE causes == [i \in 1..n |-> E!Plain({Messages[i + 1]})]
<1>5. causes \in Seq(Links) /\ Len(causes) = n /\ \A i \in 1..n : causes[i] = E!Plain({Messages[i + 1]})
  <2>1. \A i \in 1..n : i + 1 \in 1..Len(Messages)
    BY <1>3
  <2>2. \A i \in 1..n : E!Plain({Messages[i + 1]}) \in Links
    BY <2>1, <1>4
  <2>. QED
    <3>1. /\ DOMAIN causes = 1..n /\ causes = [i \in 1..n |-> causes[i]]
          /\ \A i \in 1..n : causes[i] = E!Plain({Messages[i + 1]})
      OBVIOUS
    <3>2. \A i \in 1..n : causes[i] \in Links
      BY <2>2, <3>1
    <3>3. n \in Nat
      BY <1>3
    <3> HIDE DEF causes
    <3>. QED
      BY <3>1, <3>2, <3>3, SequenceOf
<1>6. e = <<E!Plain({Messages[1]})>> \o causes
  BY <1>1 DEF E!Nested
<1> HIDE DEF causes
<1>7. PICK w \in Links : w = E!Plain({Messages[1]}) /\ IsPlain(w)
  <2>1. 1 \in 1..Len(Messages)
    BY <1>3
  <2>. QED
    BY <2>1, <1>4
<1>8. /\ e \in Seq(Links) /\ Len(e) = n + 1 /\ e[1] = w
      /\ \A i \in 1..n : e[i + 1] = causes[i]
  <2>1. e = <<w>> \o causes
    BY <1>6, <1>7
  <2>2. causes \in Seq(Links) /\ Len(causes) = n
    BY <1>5
  <2>. QED
    BY <2>1, <2>2, OnTop
<1>9. \A i \in 1..n : IsPlain(e[i + 1])
  <2>1. \A i \in 1..n : i + 1 \in 1..Len(Messages)
    BY <1>3
  <2>. QED
    BY <2>1, <1>4, <1>5, <1>8
<1>10. \A i \in 1..(n + 1) : IsPlain(e[i])
  <2> TAKE i \in 1..(n + 1)
  <2>1. CASE i = 1
    BY <2>1, <1>7, <1>8
  <2>2. CASE i # 1
    <3>1. PICK k \in 1..n : i = k + 1
      <4>1. i - 1 \in 1..n /\ i = (i - 1) + 1
        BY <2>2, <1>3
      <4>. QED
        BY <4>1
    <3>. QED
      BY <3>1, <1>9
  <2>. QED
    BY <2>1, <2>2
<1>. QED
  BY <1>3, <1>8, <1>10

(* What is no error is serialised with its text, what is one as it is.     *)
LEMMA SerializedText ==
  ASSUME NEW link \in Links
  PROVE  /\ link.kind \in {"registered", "error"} => E!SerializedLink(link) = link
         /\ link.text # {} => E!SerializedLink(link).text = link.text
         /\ link.kind \notin {"registered", "error"} =>
              /\ E!SerializedLink(link).kind = "error" /\ E!SerializedLink(link).code = None
              /\ E!SerializedLink(link).reason = {}
BY DEF E!SerializedLink, E!UnknownText, E!Plain, E!Link, Links, LinkKinds

LEMMA RespondsWith ==
  ASSUME NEW e \in Seq(Links), Len(e) > 0, e[1].kind \in {"registered", "error"}
  PROVE  /\ \A i \in 1..Len(e) :
              i <= 6 /\ e[i].text # {} /\ (i = 1 => e[1].code \notin E!Internal)
                => i \in DOMAIN E!ErrorResponse(e) /\ E!ErrorResponse(e)[i].text = e[i].text
         /\ e[1].code # None => E!ErrorResponse(e)[1].code = e[1].code
         /\ e[1].code \notin E!Internal => E!ErrorResponse(e)[1].text = e[1].text
<1>1. PICK sent : sent = E!Serialize(e)
  OBVIOUS
<1>2. /\ sent \in Seq(Links) /\ Len(sent) = (IF Len(e) > 6 THEN 7 ELSE Len(e))
      /\ \A i \in 1..Len(e) : i <= 6 => sent[i] = E!SerializedLink(e[i])
  BY <1>1, SerializeKeeps
<1>3. Len(e) \in Nat /\ \A i \in 1..Len(e) : e[i] \in Links
  BY IndicesOf
<1>4. Len(sent) \in Nat /\ DOMAIN sent = 1..Len(sent)
  BY <1>2, IndicesOf
<1>5. E!ErrorResponse(e) =
        [i \in DOMAIN sent |->
          [code |-> IF sent[i].code = None THEN "INTERNAL_ERROR" ELSE sent[i].code,
           reason |-> IF i = 1 THEN E!Reason(e)
                      ELSE IF sent[i].reason # {} THEN sent[i].reason ELSE sent[i].text,
           text |-> IF i = 1 /\ e[1].kind = "registered" /\ e[1].code \in E!Internal
                    THEN E!Reason(e) ELSE sent[i].text]]
  BY <1>1 DEF E!ErrorResponse
<1>6. \A i \in 1..Len(e) : i <= 6 => i \in DOMAIN sent
  BY <1>2, <1>3, <1>4
<1>7. 1 \in 1..Len(e) /\ e[1] \in Links /\ sent[1] = e[1] /\ 1 \in DOMAIN sent
  BY <1>2, <1>3, <1>6, SerializedText
<1>8. \A i \in 1..Len(e) : i <= 6 /\ e[i].text # {} => sent[i].text = e[i].text
  BY <1>2, <1>3, SerializedText
<1>9. \A i \in DOMAIN sent : (i = 1 => e[1].code \notin E!Internal) => E!ErrorResponse(e)[i].text = sent[i].text
  BY <1>5
<1>10. E!ErrorResponse(e)[1].code = IF e[1].code = None THEN "INTERNAL_ERROR" ELSE e[1].code
  BY <1>5, <1>7
<1>11. DOMAIN E!ErrorResponse(e) = DOMAIN sent
  BY <1>5
<1>12. ASSUME NEW i \in 1..Len(e), i <= 6, e[i].text # {}, i = 1 => e[1].code \notin E!Internal
       PROVE  i \in DOMAIN E!ErrorResponse(e) /\ E!ErrorResponse(e)[i].text = e[i].text
  BY <1>6, <1>8, <1>9, <1>11, <1>12
<1>13. e[1].code \notin E!Internal => E!ErrorResponse(e)[1].text = e[1].text
  BY <1>7, <1>9
<1>. QED
  BY <1>10, <1>12, <1>13

LEMMA CrossesInResult ==
  ASSUME NEW e \in Seq(Links), Len(e) > 0,
         \A i \in 1..Len(e) : e[i].kind = "registered" \/ e[i].code = None
  PROVE  /\ E!InResult(e) \in Seq(Links) /\ Len(E!InResult(e)) = (IF Len(e) > 6 THEN 7 ELSE Len(e))
         /\ \A i \in 1..Len(e) : i <= 6 =>
              /\ e[i].text # {} => E!InResult(e)[i].text = e[i].text
              /\ e[i].kind # "registered" => E!InResult(e)[i].kind = "error"
              /\ e[i].kind = "error" => E!InResult(e)[i].reason = e[i].reason
              /\ e[i].kind \in {"value", "null"} => E!InResult(e)[i].reason = {}
<1>1. PICK sent : sent = E!Serialize(e)
  OBVIOUS
<1>2. /\ sent \in Seq(Links) /\ Len(sent) = (IF Len(e) > 6 THEN 7 ELSE Len(e))
      /\ \A i \in 1..Len(e) : i <= 6 => sent[i] = E!SerializedLink(e[i])
  BY <1>1, SerializeKeeps
<1>3. Len(e) \in Nat /\ \A i \in 1..Len(e) : e[i] \in Links
  BY IndicesOf
<1>4. \A i \in 1..Len(e) : i <= 6 => i \in 1..Len(sent)
  BY <1>2, <1>3
<1>5. E!InResult(e) = E!Deserialize(sent)
  BY <1>1 DEF E!InResult
<1>6. /\ E!InResult(e) \in Seq(Links) /\ Len(E!InResult(e)) = Len(sent)
      /\ \A i \in 1..Len(sent) :
           /\ E!InResult(e)[i].text = sent[i].text
           /\ sent[i].code \notin E!Registered =>
                E!InResult(e)[i].kind = "error" /\ E!InResult(e)[i].reason = sent[i].reason
  <2>1. /\ E!Deserialize(sent) \in Seq(Links) /\ Len(E!Deserialize(sent)) = Len(sent)
        /\ \A i \in 1..Len(sent) :
             /\ E!Deserialize(sent)[i].text = sent[i].text
             /\ sent[i].code \notin E!Registered =>
                  E!Deserialize(sent)[i].kind = "error" /\ E!Deserialize(sent)[i].reason = sent[i].reason
    BY <1>2, DeserializeKeeps
  <2>. QED
    BY <2>1, <1>5
<1>7. None \notin E!Registered
  BY ReportAssumption
<1>8. ASSUME NEW i \in 1..Len(e), i <= 6
      PROVE  /\ e[i].text # {} => E!InResult(e)[i].text = e[i].text
             /\ e[i].kind # "registered" => E!InResult(e)[i].kind = "error"
             /\ e[i].kind = "error" => E!InResult(e)[i].reason = e[i].reason
             /\ e[i].kind \in {"value", "null"} => E!InResult(e)[i].reason = {}
  <2>1. sent[i] = E!SerializedLink(e[i]) /\ e[i] \in Links /\ i \in 1..Len(sent)
    BY <1>2, <1>3, <1>4, <1>8
  <2>2. e[i].text # {} => E!InResult(e)[i].text = e[i].text
    BY <2>1, <1>6, SerializedText
  <2>3. CASE e[i].kind = "registered"
    BY <2>2, <2>3
  <2>4. CASE e[i].kind = "error"
    BY <2>1, <2>2, <2>4, <1>6, <1>7, SerializedText
  <2>5. CASE e[i].kind \notin {"registered", "error"}
    BY <2>1, <2>2, <2>5, <1>6, <1>7, SerializedText
  <2>. QED
    BY <2>3, <2>4, <2>5
<1>. QED
  BY <1>2, <1>6, <1>8

(* A lone plain link over the channel.                                     *)
LEMMA CrossesAlone ==
  ASSUME NEW e \in Seq(Links), Len(e) = 1, IsPlain(e[1])
  PROVE  /\ E!OverChannel(e) \in Seq(Links) /\ Len(E!OverChannel(e)) = 1
         /\ E!OverChannel(e)[1].text = e[1].text /\ E!OverChannel(e)[1].reason = {}
<1>1. PICK sent : sent = E!Serialize(e)
  OBVIOUS
<1>2. sent \in Seq(Links) /\ Len(sent) = 1 /\ sent[1] = E!SerializedLink(e[1]) /\ e[1] \in Links
  <2>1. 1 \in 1..Len(e) /\ e[1] \in Links
    BY IndicesOf
  <2>. QED
    <3>1. /\ E!Serialize(e) \in Seq(Links) /\ Len(E!Serialize(e)) = (IF Len(e) > 6 THEN 7 ELSE Len(e))
          /\ \A i \in 1..Len(e) : i <= 6 => E!Serialize(e)[i] = E!SerializedLink(e[i])
      BY SerializeKeeps
    <3>. QED
      BY <2>1, <3>1, <1>1
<1>3. sent[1] = e[1]
  BY <1>2, SerializedText DEF IsPlain
<1>4. PICK coded : coded = [i \in DOMAIN sent |-> [sent[i] EXCEPT !.code = IF @ = None THEN "INTERNAL_ERROR" ELSE @]]
  OBVIOUS
<1>5. DOMAIN sent = 1..1
  BY <1>2, IndicesOf
<1>6. /\ coded[1].code = "INTERNAL_ERROR" /\ coded[1].text = e[1].text /\ coded[1].reason = {}
      /\ coded[1] \in Links
  BY <1>2, <1>3, <1>4, <1>5 DEF IsPlain, Links, Codes
<1>7. coded \in Seq(Links) /\ Len(coded) = 1
  BY <1>4, <1>5, <1>6, SequenceOf
<1>8. E!OverChannel(e) = E!Deserialize(coded)
  BY <1>1, <1>4 DEF E!OverChannel
<1>9. "INTERNAL_ERROR" \notin E!Registered
  BY DEF E!Registered
<1>. QED
  BY <1>6, <1>7, <1>8, <1>9, DeserializeKeeps

-----------------------------------------------------------------------------
LEMMA StageHoldsAtStart ==
  ASSUME E!Init PROVE StageHolds
BY DEF E!Init, StageHolds, Origins

LEMMA Alone ==
  ASSUME NEW w \in Links
  PROVE  <<w>> \in Seq(Links) /\ Len(<<w>>) = 1 /\ <<w>>[1] = w
OBVIOUS

Arising ==
  E!PodFails \/ E!DriverFails \/ E!DebugFails \/ E!RepoFails \/ E!HandlerThrows \/ E!HttpException \/ E!InputFails
  \/ E!PathFails \/ E!FastGPTFails \/ E!NotPermitted \/ E!NoSession

(* Where it arises.                                                        *)
LEMMA Arises ==
  ASSUME Arising
  PROVE  ArisesAsKnown'
<1> USE DEF E!Raise
<1>1. ASSUME NEW x \in {"pod", "debug", "repo", "thrown", "fastgpt"}, E!Raise(x, E!Arisen)
      PROVE  ArisesAsKnown'
  BY <1>1, NestedIsPlain DEF ArisesAsKnown
<1>2. ASSUME NEW x \in {"http", "session"}, E!Raise(x, {<<E!Plain({"a"})>>})
      PROVE  ArisesAsKnown'
  <2>1. E!Plain({"a"}) \in Links /\ IsPlain(E!Plain({"a"}))
    BY DEF E!Plain, E!Link, Links, LinkKinds, Codes, Texts, IsPlain
  <2>2. PICK w \in Links : w = E!Plain({"a"}) /\ IsPlain(w)
    BY <2>1
  <2>3. raised' = <<w>>
    BY <1>2, <2>2
  <2>4. raised' \in Seq(Links) /\ Len(raised') = 1 /\ raised'[1] = w
    BY <2>3, Alone
  <2>. QED
    BY <1>2, <2>2, <2>4 DEF ArisesAsKnown
<1>3. ASSUME NEW which \in {"REQUEST_TIMEOUT", "QUEUE_TIMEOUT"}, E!Raise("pod", {<<E!Link("error", which, {}, {"a"})>>})
      PROVE  ArisesAsKnown'
  <2>1. E!Link("error", which, {}, {"a"}) \in Links
    BY DEF E!Link, Links, LinkKinds, Codes, Texts
  <2>2. PICK w \in Links : w = E!Link("error", which, {}, {"a"})
    BY <2>1
  <2>3. w.kind = "error" /\ w.code = which /\ w.reason = {}
    BY <2>2 DEF E!Link
  <2>4. raised' \in Seq(Links) /\ Len(raised') = 1 /\ raised'[1] = w
    BY <1>3, <2>2, Alone
  <2>. QED
    BY <1>3, <2>3, <2>4 DEF ArisesAsKnown
<1>4. ASSUME NEW x \in {"driver", "route"}, NEW which \in {"plugin_not_found", "validation_failed", "not_found"},
             (x = "driver") = (which = "plugin_not_found"),
             E!Raise(x, {E!CreateError(which, {"a"}, <<>>)})
      PROVE  ArisesAsKnown'
  <2>1. E!Link("registered", which, {"a"}, {"a"}) \in Links
    BY DEF E!Link, Links, LinkKinds, Codes, Texts, E!Registered
  <2>2. PICK w \in Links : w = E!Link("registered", which, {"a"}, {"a"})
    BY <2>1
  <2>3. w.kind = "registered" /\ w.code = which /\ ~IsPlain(w)
    BY <2>2 DEF E!Link, IsPlain
  <2>4. raised' = <<w>> \o <<>>
    BY <1>4, <2>2 DEF E!CreateError
  <2>5. raised' = <<w>>
    BY <2>4
  <2>6. raised' \in Seq(Links) /\ Len(raised') = 1 /\ raised'[1] = w
    BY <2>5, Alone
  <2>. QED
    BY <1>4, <2>3, <2>6 DEF ArisesAsKnown
<1>5. ASSUME NEW link, link \in {E!Link("value", None, {}, {}), E!Link("value", None, {}, {"a"}), E!Link("null", None, {}, {})},
             E!Raise("fastgpt", {<<link>>})
      PROVE  ArisesAsKnown'
  <2>1. link \in Links /\ link.kind \in {"value", "null"} /\ link.code = None /\ link.reason = {}
    <3>1. E!Link("value", None, {}, {}) \in Links /\ E!Link("null", None, {}, {}) \in Links
      BY DEF E!Link, Links, LinkKinds, Codes
    <3>2. E!Link("value", None, {}, {"a"}) \in Links
      BY DEF E!Link, Links, LinkKinds, Codes, Texts
    <3>3. link.kind \in {"value", "null"} /\ link.code = None /\ link.reason = {}
      BY <1>5 DEF E!Link
    <3>. QED
      BY <1>5, <3>1, <3>2, <3>3
  <2>2. raised' \in Seq(Links) /\ Len(raised') = 1 /\ raised'[1] = link
    BY <1>5, <2>1, Alone
  <2>. QED
    BY <1>5, <2>1, <2>2 DEF ArisesAsKnown
<1>6. CASE E!PodFails
  <2>1. E!Raise("pod", E!Arisen) \/ \E which \in {"REQUEST_TIMEOUT", "QUEUE_TIMEOUT"} :
                                  E!Raise("pod", {<<E!Link("error", which, {}, {"a"})>>})
    BY <1>6 DEF E!PodFails
  <2>. QED
    BY <2>1, <1>1, <1>3
<1>7. CASE E!DriverFails
  BY <1>7, <1>4 DEF E!DriverFails
<1>8. CASE E!DebugFails \/ E!RepoFails \/ E!HandlerThrows
  BY <1>8, <1>1 DEF E!DebugFails, E!RepoFails, E!HandlerThrows
<1>9. CASE E!HttpException \/ E!NoSession
  BY <1>9, <1>2 DEF E!HttpException, E!NoSession
<1>10. CASE E!InputFails \/ E!PathFails
  BY <1>10, <1>4 DEF E!InputFails, E!PathFails
<1>11. CASE E!FastGPTFails \/ E!NotPermitted
  <2>1. \/ E!Raise("fastgpt", E!Arisen)
        \/ \E link \in {E!Link("value", None, {}, {}), E!Link("value", None, {}, {"a"}), E!Link("null", None, {}, {})} :
             E!Raise("fastgpt", {<<link>>})
    BY <1>11 DEF E!FastGPTFails, E!NotPermitted
  <2>. QED
    BY <2>1, <1>1, <1>5
<1>. QED
  BY <1>6, <1>7, <1>8, <1>9, <1>10, <1>11 DEF Arising

LEMMA ArisingKeeps ==
  ASSUME StageHolds, Arising
  PROVE  StageHolds'
<1>1. /\ report' = from' /\ error' = raised'
      /\ from' \in {"pod", "driver", "debug", "repo", "thrown", "http", "route", "fastgpt", "session"}
  BY DEF Arising, E!PodFails, E!DriverFails, E!DebugFails, E!RepoFails, E!HandlerThrows, E!HttpException, E!InputFails,
     E!PathFails, E!FastGPTFails, E!NotPermitted, E!NoSession, E!Raise
<1>2. ArisesAsKnown'
  BY Arises
<1>3. from' = "route" =>
        /\ HeadSays' /\ Under(0)' /\ error'[1].code \notin E!Internal
        /\ error'[1].kind = "registered"
  BY <1>1, <1>2 DEF ArisesAsKnown, HeadSays, Under, E!Internal, IsPlain
<1>. QED
  BY <1>1, <1>2, <1>3 DEF StageHolds, Origins

(* One link more puts what arose one link further down.                    *)
LEMMA Wraps ==
  ASSUME NEW w \in Links, NEW n \in Nat, Under(n), ArisesAsKnown, error' = <<w>> \o error, raised' = raised
  PROVE  Under(n + 1)' /\ error'[1] = w
<1>1. error \in Seq(Links) /\ Len(error) = Len(raised) + n /\ Len(raised) \in Nat \ {0}
      /\ \A i \in 1..Len(raised) : error[i + n] = raised[i]
  BY DEF Under, ArisesAsKnown
<1>2. /\ error' \in Seq(Links) /\ Len(error') = Len(error) + 1 /\ error'[1] = w
      /\ \A i \in 1..Len(error) : error'[i + 1] = error[i]
  BY <1>1, OnTop
<1>3. \A i \in 1..Len(raised) : i + n \in 1..Len(error) /\ error'[i + (n + 1)] = error[i + n]
  <2>1. \A i \in 1..Len(raised) : i + n \in 1..Len(error) /\ (i + n) + 1 = i + (n + 1)
    BY <1>1
  <2>. QED
    BY <2>1, <1>2
<1>4. Len(error') = Len(raised) + (n + 1) /\ \A i \in 1..Len(raised) : error'[i + (n + 1)] = raised[i]
  <2>1. Len(error') = Len(raised) + (n + 1)
    BY <1>1, <1>2
  <2>. QED
    BY <2>1, <1>1, <1>3
<1>. QED
  BY <1>2, <1>4 DEF Under

LEMMA AsItArose ==
  ASSUME ArisesAsKnown, error = raised PROVE Under(0)
BY DEF ArisesAsKnown, Under

LEMMA NewLinks ==
  ASSUME NEW which \in E!Registered, NEW text \in SUBSET Texts
  PROVE  E!Link("registered", which, text, text) \in Links /\ E!Link("error", None, text, text) \in Links
BY DEF E!Link, Links, LinkKinds, Codes

(* The run of a tool: the error of the runtime becomes that of the answer. *)
LEMMA ManagerKeeps ==
  ASSUME StageHolds, E!WrapPodError \/ E!PassDriverError \/ E!WrapDebugError
  PROVE  StageHolds'
<1>1. /\ report' = "manager" /\ UNCHANGED <<raised, from, told>> /\ ArisesAsKnown /\ Under(0) /\ error = raised
      /\ from = report /\ from \in {"pod", "driver", "debug"}
  BY AsItArose DEF E!WrapPodError, E!PassDriverError, E!WrapDebugError, E!Moves, StageHolds, Origins
<1>2. ArisesAsKnown'
  BY <1>1 DEF ArisesAsKnown, IsPlain
<1>3. E!Due' = E!Due
  BY <1>1 DEF E!Due
<1>4. raised[1] \in Links /\ Len(raised) \in Nat \ {0}
  BY <1>1 DEF ArisesAsKnown
<1>5. E!TimeoutCode(None) = None /\ None \notin E!Registered /\ None # "REQUEST_TIMEOUT" /\ None # "QUEUE_TIMEOUT"
  BY ReportAssumption DEF E!TimeoutCode
<1>6. SUFFICES /\ HeadSays' /\ error'[1].kind = "registered" /\ error'[1].code \in E!Registered \ E!Internal
               /\ Under(1)' \/ (from' = "driver" /\ Under(0)')
  BY <1>1, <1>2 DEF StageHolds, Origins
<1>7. ASSUME NEW which \in E!Registered \ E!Internal, NEW text \in SUBSET Texts,
             error' = E!CreateError(which, text, error), E!Due = which, from # "driver",
             from = "pod" /\ which = "invoke.failed" => raised[1].text \subseteq text
      PROVE  /\ HeadSays' /\ error'[1].kind = "registered" /\ error'[1].code \in E!Registered \ E!Internal
             /\ Under(1)'
  <2>1. PICK w \in Links : w = E!Link("registered", which, text, text)
    BY <1>7, NewLinks
  <2>2. Under(1)' /\ error'[1] = w
    <3>1. error' = <<w>> \o error
      BY <1>7, <2>1 DEF E!CreateError
    <3>. QED
      BY <3>1, <1>1, Wraps
  <2>3. w.kind = "registered" /\ w.code = which /\ w.text = text
    BY <2>1 DEF E!Link
  <2>4. HeadSays'
    <3>1. E!Due' = which /\ error'[1].code = which /\ error'[1].text = text /\ from' = from /\ raised' = raised
      BY <1>3, <1>7, <2>2, <2>3, <1>1
    <3>2. which # "plugin_not_found" \/ from' # "pod"
      <4>1. from = "pod" => E!Due # "plugin_not_found"
        BY DEF E!Due, E!TimeoutCode
      <4>. QED
        BY <4>1, <1>1, <1>7
    <3>. QED
      BY <3>1, <3>2, <1>7 DEF HeadSays
  <2>. QED
    BY <2>2, <2>3, <2>4, <1>7
<1>8. CASE E!WrapPodError
  <2>1. from = "pod" /\ error' = E!ToInvokeFailureError(raised)
    BY <1>8, <1>1 DEF E!WrapPodError, E!Moves
  <2>2. CASE E!TimeoutCode(raised[1].code) # None
    <3>1. /\ E!TimeoutCode(raised[1].code) \in E!Registered \ E!Internal
          /\ E!TimeoutCode(raised[1].code) # "invoke.failed"
      BY <2>2 DEF E!TimeoutCode, E!Registered, E!Internal
    <3>2. {"timed out"} \in SUBSET Texts
      BY DEF Texts
    <3>3. E!Due = E!TimeoutCode(raised[1].code)
      BY <2>1, <2>2 DEF E!Due
    <3>. QED
      BY <1>1, <1>7, <2>1, <2>2, <3>1, <3>2, <3>3 DEF E!ToInvokeFailureError
  <2>3. CASE E!TimeoutCode(raised[1].code) = None
    <3>1. "invoke.failed" \in E!Registered \ E!Internal
      BY DEF E!Registered, E!Internal
    <3>2. {"invoke failed"} \cup raised[1].text \in SUBSET Texts
      BY <1>4 DEF Texts, Links
    <3>3. E!Due = "invoke.failed"
      BY <2>1, <2>3 DEF E!Due
    <3>4. error' = E!CreateError("invoke.failed", {"invoke failed"} \cup raised[1].text, error)
      BY <1>1, <2>1, <2>3 DEF E!ToInvokeFailureError
    <3>. QED
      BY <2>1, <3>1, <3>2, <3>3, <3>4, <1>7
  <2>. QED
    BY <2>2, <2>3
<1>9. CASE E!PassDriverError
  <2>1. from = "driver" /\ error' = raised
    BY <1>9, <1>1 DEF E!PassDriverError, E!Moves
  <2>2. Under(0)'
    BY <1>1, <2>1 DEF Under
  <2>3. raised[1].kind = "registered" /\ raised[1].code = "plugin_not_found"
    BY <1>1, <2>1 DEF ArisesAsKnown
  <2>4. "plugin_not_found" \in E!Registered \ E!Internal
    BY DEF E!Registered, E!Internal
  <2>5. HeadSays'
    BY <1>1, <2>1, <2>3 DEF HeadSays, E!Due
  <2>. QED
    BY <1>1, <2>1, <2>2, <2>3, <2>4, <2>5
<1>10. CASE E!WrapDebugError
  <2>1. from = "debug" /\ error' = E!CreateError("invoke.failed", {"invoke failed"}, error)
    BY <1>10, <1>1 DEF E!WrapDebugError, E!Moves
  <2>2. "invoke.failed" \in E!Registered \ E!Internal /\ {"invoke failed"} \in SUBSET Texts
    BY DEF E!Registered, E!Internal, Texts
  <2>3. raised[1].code = None
    <3>1. 1 \in 1..Len(raised)
      BY <1>4
    <3>. QED
      BY <2>1, <3>1, <1>1 DEF ArisesAsKnown, IsPlain
  <2>4. E!Due = "invoke.failed"
    BY <2>1, <2>3, <1>5 DEF E!Due
  <2>. QED
    BY <2>1, <2>2, <2>4, <1>7
<1>. QED
  BY <1>8, <1>9, <1>10

LEMMA Repeats ==
  ASSUME NEW R, NEW e \in Seq(R), Len(e) > 1
  PROVE  <<e[1]>> \o Tail(e) = e
OBVIOUS

LEMMA SameUnder ==
  ASSUME NEW n, Under(n), error' = error, raised' = raised
  PROVE  Under(n)'
BY DEF Under

LEMMA RouteKeeps ==
  ASSUME StageHolds, E!WrapManagerError
  PROVE  StageHolds'
<1>1. /\ report = "manager" /\ report' = "route" /\ UNCHANGED <<raised, from, told>> /\ ArisesAsKnown
      /\ from \in {"pod", "driver", "debug"} /\ HeadSays
      /\ error[1].kind = "registered" /\ error[1].code \in E!Registered \ E!Internal
      /\ Under(1) \/ (from = "driver" /\ Under(0))
  BY DEF E!WrapManagerError, E!Moves, StageHolds
<1>2. ArisesAsKnown' /\ E!Due' = E!Due
  BY <1>1 DEF ArisesAsKnown, IsPlain, E!Due
<1>3. error' = E!Repeated(error)
  BY <1>1 DEF E!WrapManagerError, E!Moves
<1>4. Under(1)' /\ error'[1] = error[1]
  <2>1. Len(raised) \in Nat \ {0}
    BY <1>1 DEF ArisesAsKnown
  <2>2. CASE Under(1)
    <3>1. error \in Seq(Links) /\ Len(error) > 1
      <4>1. error \in Seq(Links) /\ Len(error) = Len(raised) + 1
        BY <2>2 DEF Under
      <4>2. PICK k \in Nat \ {0} : Len(raised) = k
        BY <2>1
      <4>3. Len(error) = k + 1
        BY <4>1, <4>2
      <4>. QED
        BY <4>1, <4>3
    <3>2. error' = error
      BY <1>3, <3>1, Repeats DEF E!Repeated
    <3>. QED
      BY <1>1, <2>2, <3>2, SameUnder
  <2>3. CASE from = "driver" /\ Under(0)
    <3>1. Len(raised) = 1
      <4>1. 1 \in 1..Len(raised)
        BY <2>1
      <4>. QED
        BY <2>3, <1>1, <4>1 DEF ArisesAsKnown
    <3>2. error \in Seq(Links) /\ Len(error) = 1
      BY <2>3, <3>1 DEF Under
    <3>3. error[1] \in Links
      <4>1. 1 \in 1..Len(error)
        BY <3>2
      <4>. QED
        BY <3>2, <4>1, IndicesOf
    <3>4. error' = <<error[1]>> \o error
      BY <1>3, <3>2 DEF E!Repeated
    <3>. QED
      BY <1>1, <2>3, <3>3, <3>4, Wraps
  <2>. QED
    BY <1>1, <2>2, <2>3
<1>5. HeadSays'
  BY <1>1, <1>2, <1>4 DEF HeadSays
<1>. QED
  BY <1>1, <1>2, <1>4, <1>5 DEF StageHolds, Origins

(* The repository fails: one reason is its own, another that of the use    *)
(* case or of the manager of tools.                                        *)
LEMMA FailureKeeps ==
  ASSUME StageHolds, E!WrapRepoError \/ E!WrapPluginError \/ E!WrapUseCaseError
  PROVE  StageHolds'
<1>1. UNCHANGED <<raised, from, told>> /\ ArisesAsKnown /\ from = "repo"
  BY DEF E!WrapRepoError, E!WrapPluginError, E!WrapUseCaseError, E!Moves, StageHolds, Origins
<1>2. ArisesAsKnown'
  BY <1>1 DEF ArisesAsKnown, IsPlain
<1>3. CASE E!WrapRepoError
  <2>1. /\ report = "repo" /\ error = raised /\ report' = "failure" /\ error' = <<E!Link("error", None, {"repo"}, {"repo"})>> \o error
    BY <1>3 DEF E!WrapRepoError, E!Moves, StageHolds, Origins, E!ReasonError
  <2>2. E!Link("error", None, {"repo"}, {"repo"}) \in Links
    BY DEF E!Link, Links, LinkKinds, Codes, Texts
  <2>3. Under(1)' /\ error'[1] = E!Link("error", None, {"repo"}, {"repo"})
    BY <1>1, <2>1, <2>2, AsItArose, Wraps
  <2>. QED
    BY <1>1, <1>2, <2>1, <2>3 DEF StageHolds, Origins
<1>4. CASE E!WrapPluginError \/ E!WrapUseCaseError
  <2>1. report' = "route" /\ Under(1) /\ error[1] = E!Link("error", None, {"repo"}, {"repo"})
    BY <1>4 DEF E!WrapPluginError, E!WrapUseCaseError, E!Moves, StageHolds, Origins
  <2>2. SUFFICES \E n \in {1, 2} : Under(n)' /\ error'[1].kind \in {"registered", "error"}
    BY <1>1, <1>2, <2>1 DEF StageHolds, Origins, HeadSays
  <2>3. E!Reason(error) = {"repo"}
    BY <2>1 DEF E!Reason, E!Link
  <2>4. \/ error' = error
        \/ error' = <<E!Link("error", None, {"use case"}, {"use case"})>> \o error
        \/ error' = <<E!Link("registered", "plugin_not_found", {"get plugin"}, {"get plugin"})>> \o error
    BY <1>4, <2>3 DEF E!WrapPluginError, E!WrapUseCaseError, E!Moves, E!ReasonError, E!NormalizedFailure, E!CreateError
  <2>5. /\ E!Link("error", None, {"use case"}, {"use case"}) \in Links
        /\ E!Link("registered", "plugin_not_found", {"get plugin"}, {"get plugin"}) \in Links
    BY DEF E!Link, Links, LinkKinds, Codes, Texts, E!Registered
  <2>6. error' = error => Under(1)' /\ error'[1].kind = "error"
    BY <1>1, <2>1, SameUnder DEF E!Link
  <2>7. error' # error => Under(2)' /\ error'[1].kind \in {"registered", "error"}
    <3>1. ASSUME NEW w \in Links, error' = <<w>> \o error, w.kind \in {"registered", "error"}
          PROVE  Under(2)' /\ error'[1].kind \in {"registered", "error"}
      <4>1. Under(1 + 1)' /\ error'[1] = w
        BY <1>1, <2>1, <3>1, Wraps
      <4>. QED
        BY <4>1, <3>1
    <3>. QED
      BY <2>4, <2>5, <3>1 DEF E!Link
  <2>. QED
    BY <2>6, <2>7
<1>. QED
  BY <1>3, <1>4

(* What is thrown out of a handler.                                        *)
LEMMA OnErrorKeeps ==
  ASSUME StageHolds, E!OnError
  PROVE  StageHolds'
<1>1. /\ UNCHANGED <<raised, from, told>> /\ ArisesAsKnown /\ from = report /\ report \in {"thrown", "http"}
      /\ report' = "route" /\ error = raised
  BY DEF E!OnError, E!Moves, StageHolds, Origins
<1>2. ArisesAsKnown'
  BY <1>1 DEF ArisesAsKnown, IsPlain
<1>3. raised[1] \in Links
  BY <1>1 DEF ArisesAsKnown
<1>4. \E which \in E!Registered, text \in SUBSET Texts : error' = E!CreateError(which, text, error)
  <2>1. {"internal server error"} \in SUBSET Texts /\ raised[1].text \in SUBSET Texts
    BY <1>3 DEF Texts, Links
  <2>2. {"internal_server_error", "bad_request", "unauthorized"} \subseteq E!Registered
    BY DEF E!Registered
  <2>. QED
    BY <1>1, <2>1, <2>2 DEF E!OnError, E!Moves
<1>5. PICK w \in Links : error' = <<w>> \o error /\ w.kind = "registered"
  BY <1>4, NewLinks DEF E!CreateError, E!Link
<1>6. Under(1)' /\ error'[1] = w
  BY <1>1, <1>5, AsItArose, Wraps
<1>. QED
  BY <1>1, <1>2, <1>5, <1>6 DEF StageHolds, Origins, HeadSays

(* What arises as a link that is no error has come from FastGPT.           *)
LEMMA AreErrors ==
  ASSUME ArisesAsKnown, from # "fastgpt"
  PROVE  \A i \in 1..Len(raised) : raised[i].kind \in {"registered", "error"}
BY DEF ArisesAsKnown, IsPlain

LEMMA RespondKeeps ==
  ASSUME StageHolds, E!Respond
  PROVE  StageHolds'
<1>1. /\ UNCHANGED <<raised, from, told>> /\ ArisesAsKnown /\ report' = "client"
      /\ error' = E!ErrorResponse(error) /\ from \notin {"fastgpt", "session"} /\ HeadSays
      /\ from \in {"pod", "driver", "debug"} => error[1].code \notin E!Internal
  BY DEF E!Respond, E!Moves, StageHolds
<1>2. PICK n \in 0..2 : Under(n) /\ (n = 0 => error[1].code \notin E!Internal)
  BY DEF E!Respond, E!Moves, StageHolds
<1>3. error[1].kind \in {"registered", "error"}
  BY DEF E!Respond, E!Moves, StageHolds
<1>4. Len(raised) \in Nat \ {0} /\ error \in Seq(Links) /\ Len(error) = Len(raised) + n
  BY <1>1, <1>2 DEF Under, ArisesAsKnown
<1>5. Len(error) > 0
  BY <1>4
<1>6. /\ \A i \in 1..Len(error) :
            i <= 6 /\ error[i].text # {} /\ (i = 1 => error[1].code \notin E!Internal)
              => i \in DOMAIN error' /\ error'[i].text = error[i].text
      /\ error[1].code # None => error'[1].code = error[1].code
      /\ error[1].code \notin E!Internal => error'[1].text = error[1].text
  BY <1>1, <1>3, <1>4, <1>5, RespondsWith
<1>7. Shown(n)'
  <2>1. SUFFICES ASSUME NEW i \in 1..Len(raised), i <= 4, raised[i].text # {}
                 PROVE  i + n \in DOMAIN error' /\ error'[i + n].text = raised[i].text
    BY <1>1 DEF Shown
  <2>2. error[i + n] = raised[i]
    BY <1>2 DEF Under
  <2>3. i + n \in 1..Len(error) /\ i + n <= 6 /\ (i + n = 1 => n = 0)
    BY <1>4, <2>1
  <2>. QED
    BY <2>1, <2>2, <2>3, <1>2, <1>6
<1>8. HeadSays' /\ ArisesAsKnown'
  <2>1. E!Due \in E!Registered /\ None \notin E!Registered
    BY ReportAssumption DEF E!Due, E!TimeoutCode, E!Registered
  <2>2. E!Due' = E!Due
    BY <1>1 DEF E!Due
  <2>. QED
    BY <1>1, <1>6, <2>1, <2>2 DEF HeadSays, ArisesAsKnown, IsPlain
<1>. QED
  BY <1>1, <1>7, <1>8 DEF StageHolds, Origins

(* What is shown, is found in the order in which it arose.                 *)
LEMMA ShownIsTold ==
  ASSUME ArisesAsKnown, NEW n \in Nat, Shown(n)
  PROVE  LET kept == {i \in DOMAIN raised : i <= 4 /\ raised[i].text # {}}
         IN /\ \A i \in kept : \E k \in DOMAIN error : error[k].text = raised[i].text
            /\ \A i, j \in kept :
                 i < j => \E k, l \in DOMAIN error :
                            k < l /\ error[k].text = raised[i].text /\ error[l].text = raised[j].text
<1>1. DOMAIN raised = 1..Len(raised) /\ Len(raised) \in Nat \ {0}
  BY IndicesOf DEF ArisesAsKnown
<1>2. \A i \in DOMAIN raised :
        i <= 4 /\ raised[i].text # {} => i + n \in DOMAIN error /\ error[i + n].text = raised[i].text
  BY <1>1 DEF Shown
<1>3. \A i, j \in DOMAIN raised : i < j => i + n < j + n
  BY <1>1
<1>. QED
  BY <1>2, <1>3

LEMMA ClientThrowsKeeps ==
  ASSUME StageHolds, E!ClientThrows
  PROVE  StageHolds'
<1>1. /\ UNCHANGED <<error, raised, from>> /\ ArisesAsKnown /\ report' = "over"
      /\ told' = error[1].text /\ from \notin {"fastgpt", "session"} /\ HeadSays
      /\ \E n \in 0..2 : Shown(n)
  BY DEF E!ClientThrows, StageHolds
<1>2. ArisesAsKnown' /\ E!Due' = E!Due
  BY <1>1 DEF ArisesAsKnown, IsPlain, E!Due
<1>3. PICK n \in Nat : Shown(n)
  BY <1>1
<1>4. /\ from' \in {"pod", "driver", "debug"} => error'[1].code = E!Due'
      /\ from' \in {"pod", "driver"} /\ E!Due' \in {"invoke.failed", "plugin_not_found"} => raised'[1].text \subseteq told'
  BY <1>1, <1>2 DEF HeadSays
<1>5. LET kept == {i \in DOMAIN raised' : i <= 4 /\ raised'[i].text # {}}
      IN /\ \A i \in kept : \E k \in DOMAIN error' : error'[k].text = raised'[i].text
         /\ \A i, j \in kept :
              i < j => \E k, l \in DOMAIN error' :
                         k < l /\ error'[k].text = raised'[i].text /\ error'[l].text = raised'[j].text
  BY <1>1, <1>3, ShownIsTold
<1>6. E!FailuresAreTold'
  BY <1>1, <1>4, <1>5 DEF E!FailuresAreTold
<1>. QED
  BY <1>1, <1>2, <1>6 DEF StageHolds, Origins

-----------------------------------------------------------------------------
(* A reverse invocation fails.                                             *)

LEMMA HostReasonIs ==
  ASSUME ArisesAsKnown
  PROVE  E!HostReason \in SUBSET Texts /\ E!HostReason # {} /\ E!Link("error", None, E!HostReason, E!HostReason) \in Links
<1>1. raised[1] \in Links
  BY DEF ArisesAsKnown
<1>2. E!HostReason \in SUBSET Texts /\ E!HostReason # {}
  BY <1>1 DEF E!HostReason, Links, Texts
<1>. QED
  BY <1>2 DEF E!Link, Links, LinkKinds, Codes

LEMMA AnswerKeeps ==
  ASSUME StageHolds, E!WrapAnswer
  PROVE  StageHolds'
<1>1. /\ UNCHANGED <<raised, from, told>> /\ ArisesAsKnown /\ from = "fastgpt" /\ report' = "result"
      /\ error = raised /\ error' = E!ReasonError(E!HostReason, E!Normalized(raised, E!HostReason))
  BY DEF E!WrapAnswer, E!Moves, StageHolds, Origins
<1>2. ArisesAsKnown' /\ E!HostReason' = E!HostReason
  BY <1>1 DEF ArisesAsKnown, IsPlain, E!HostReason
<1>3. PICK w \in Links : w = E!Link("error", None, E!HostReason, E!HostReason)
  BY <1>1, HostReasonIs
<1>4. raised \in Seq(Links) /\ Len(raised) \in Nat \ {0} /\ raised[1] \in Links /\ 1 \in 1..Len(raised)
  BY <1>1 DEF ArisesAsKnown
<1>5. CASE \A i \in 1..Len(raised) : IsPlain(raised[i])
  <2>1. E!Normalized(raised, E!HostReason) = error
    BY <1>1, <1>4, <1>5 DEF E!Normalized, IsPlain
  <2>2. Under(1)' /\ error'[1] = w
    <3>1. error' = <<w>> \o error
      BY <1>1, <1>3, <2>1 DEF E!ReasonError
    <3>2. Under(0 + 1)' /\ error'[1] = w
      BY <1>1, <3>1, AsItArose, Wraps
    <3>. QED
      BY <3>2
  <2>3. (\A i \in 1..Len(raised) : IsPlain(raised[i]))'
    BY <1>1, <1>5 DEF IsPlain
  <2>. QED
    BY <1>1, <1>2, <1>3, <2>2, <2>3 DEF StageHolds, Origins
<1>6. CASE Len(raised) = 1 /\ raised[1].kind \in {"value", "null"} /\ raised[1].reason = {}
  <2>1. E!Plain(E!UnknownText(raised[1], E!HostReason)) \in Links
    <3>1. E!UnknownText(raised[1], E!HostReason) \in SUBSET Texts
      BY <1>4, <1>1, HostReasonIs DEF E!UnknownText, Links, Texts
    <3>. QED
      BY <3>1 DEF E!Plain, E!Link, Links, LinkKinds, Codes
  <2>2. PICK v \in Links : v = E!Plain(E!UnknownText(raised[1], E!HostReason))
    BY <2>1
  <2>3. E!Normalized(raised, E!HostReason) = <<v>> \o raised
    BY <1>6, <2>2 DEF E!Normalized
  <2>4. error' = <<w>> \o (<<v>> \o raised)
    BY <1>1, <1>3, <2>3 DEF E!ReasonError
  <2>5. PICK inner : inner = <<v>> \o raised
    OBVIOUS
  <2>6. inner \in Seq(Links) /\ Len(inner) = 2 /\ inner[1] = v /\ inner[2] = raised[1]
    <3>1. \A i \in 1..Len(raised) : inner[i + 1] = raised[i]
      BY <1>4, <2>5, OnTop
    <3>2. inner[1 + 1] = raised[1]
      BY <1>4, <3>1
    <3>3. inner \in Seq(Links) /\ Len(inner) = Len(raised) + 1 /\ inner[1] = v
      BY <1>4, <2>5, OnTop
    <3>. QED
      BY <1>6, <3>2, <3>3
  <2>7. error' \in Seq(Links) /\ Len(error') = 3 /\ error'[1] = w /\ error'[2] = v /\ error'[3] = raised[1]
    <3>1. error' = <<w>> \o inner
      BY <2>4, <2>5
    <3>2. error' \in Seq(Links) /\ Len(error') = Len(inner) + 1 /\ error'[1] = w
          /\ \A i \in 1..Len(inner) : error'[i + 1] = inner[i]
      BY <2>6, <3>1, OnTop
    <3>3. error'[1 + 1] = inner[1] /\ error'[2 + 1] = inner[2]
      <4>1. 1 \in 1..Len(inner) /\ 2 \in 1..Len(inner)
        BY <2>6
      <4>. QED
        BY <4>1, <3>2
    <3>. QED
      BY <2>6, <3>2, <3>3
  <2>8. Under(2)' /\ v.kind = "error" /\ v.code = None /\ v.reason = {}
    <3>1. Under(2)'
      BY <1>1, <1>6, <2>7 DEF Under
    <3>. QED
      BY <3>1, <2>2 DEF E!Plain, E!Link
  <2>. QED
    BY <1>1, <1>2, <1>3, <1>6, <2>7, <2>8 DEF StageHolds, Origins
<1>. QED
  BY <1>1, <1>5, <1>6 DEF ArisesAsKnown

LEMMA ReplyKeeps ==
  ASSUME StageHolds, E!ReplyResult
  PROVE  StageHolds'
<1>1. /\ UNCHANGED <<raised, from, told>> /\ ArisesAsKnown /\ from = "fastgpt" /\ report' = "plugin"
      /\ error' = E!InResult(error) /\ error[1] = E!Link("error", None, E!HostReason, E!HostReason)
  BY DEF E!ReplyResult, E!Moves, StageHolds, Origins
<1>2. ArisesAsKnown' /\ E!HostReason' = E!HostReason
  BY <1>1 DEF ArisesAsKnown, IsPlain, E!HostReason
<1>3. /\ error[1].kind = "error" /\ error[1].code = None /\ error[1].reason = E!HostReason
  BY <1>1 DEF E!Link
<1>4. Len(raised) \in Nat \ {0}
  BY <1>1 DEF ArisesAsKnown
<1>5. PICK n \in {1, 2} :
        /\ Under(n)
        /\ \/ n = 1 /\ \A i \in 1..Len(raised) : IsPlain(raised[i])
           \/ /\ n = 2 /\ Len(raised) = 1 /\ raised[1].kind \in {"value", "null"} /\ raised[1].reason = {}
              /\ error[2].kind = "error" /\ error[2].code = None
  BY DEF E!ReplyResult, E!Moves, StageHolds
<1>6. /\ error \in Seq(Links) /\ Len(error) = Len(raised) + n
      /\ \A i \in 1..Len(raised) : error[i + n] = raised[i]
  BY <1>5 DEF Under
<1>7. \A i \in 1..Len(raised) : raised[i].kind \in {"error", "value", "null"} /\ raised[i].code = None /\ raised[i].reason = {}
  <2>1. CASE n = 1
    BY <1>5, <2>1 DEF IsPlain
  <2>2. CASE n = 2
    <3>1. Len(raised) = 1 /\ raised[1].kind \in {"value", "null"} /\ raised[1].reason = {}
      BY <1>5, <2>2
    <3>2. raised[1].code = None
      BY <1>1, <1>4, <3>1 DEF ArisesAsKnown, IsPlain
    <3>. QED
      BY <3>1, <3>2
  <2>. QED
    BY <2>1, <2>2
<1>8. \A i \in 1..Len(error) : error[i].kind = "registered" \/ error[i].code = None
  <2>1. SUFFICES ASSUME NEW i \in 1..Len(error) PROVE error[i].code = None
    OBVIOUS
  <2>2. CASE i = 1
    BY <2>2, <1>3
  <2>3. CASE i = 2 /\ n = 2
    BY <2>3, <1>5
  <2>4. CASE i > n
    <3>1. i - n \in 1..Len(raised) /\ i = (i - n) + n
      BY <2>4, <1>4, <1>6
    <3>2. PICK j \in 1..Len(raised) : i = j + n
      BY <3>1
    <3>3. error[j + n] = raised[j] /\ raised[j].code = None
      BY <1>6, <1>7
    <3>. QED
      BY <3>2, <3>3
  <2>. QED
    BY <2>2, <2>3, <2>4, <1>4, <1>6
<1>9. Len(error) > 0
  BY <1>4, <1>6
<1>10. /\ error' \in Seq(Links) /\ Len(error') = (IF Len(error) > 6 THEN 7 ELSE Len(error))
       /\ \A i \in 1..Len(error) : i <= 6 =>
              /\ error[i].text # {} => error'[i].text = error[i].text
              /\ error[i].kind # "registered" => error'[i].kind = "error"
              /\ error[i].kind = "error" => error'[i].reason = error[i].reason
              /\ error[i].kind \in {"value", "null"} => error'[i].reason = {}
  BY <1>1, <1>6, <1>8, <1>9, CrossesInResult
<1>11. error'[1].kind = "error" /\ error'[1].reason = E!HostReason
  <2>1. 1 \in 1..Len(error) /\ 1 <= 6
    BY <1>4, <1>6
  <2>. QED
    BY <2>1, <1>3, <1>10
<1>12. Len(error) \in Nat \ {0} /\ Len(error') \in 1..7 /\ \A i \in 1..Len(error) : i <= 6 => i \in 1..Len(error')
  <2>1. PICK k \in Nat \ {0} : k = Len(raised)
    BY <1>4
  <2>2. Len(error) = k + n /\ n \in {1, 2}
    BY <2>1, <1>5, <1>6
  <2>3. PICK length \in Nat \ {0} : length = Len(error)
    BY <2>2
  <2>4. PICK cut \in 1..7 : cut = IF length > 6 THEN 7 ELSE length
    OBVIOUS
  <2>5. Len(error') = cut
    BY <2>3, <2>4, <1>10
  <2>6. \A i \in 1..length : i <= 6 => i \in 1..cut
    BY <2>4
  <2>. QED
    BY <2>3, <2>5, <2>6
<1>13. DOMAIN error' = 1..Len(error')
  BY <1>10, IndicesOf
<1>14. Shown(n)'
  <2>1. SUFFICES ASSUME NEW i \in 1..Len(raised), i <= 4, raised[i].text # {}
                 PROVE  i + n \in DOMAIN error' /\ error'[i + n].text = raised[i].text
    BY <1>1 DEF Shown
  <2>2. error[i + n] = raised[i] /\ i + n \in 1..Len(error) /\ i + n <= 6
    BY <2>1, <1>4, <1>6
  <2>. QED
    BY <2>1, <2>2, <1>10, <1>12, <1>13
<1>15. LastIs(n, 4)'
  <2>1. SUFFICES ASSUME Len(raised) <= 3
                 PROVE  /\ Len(error') = Len(raised) + n /\ Len(error') <= 4
                        /\ error'[Len(error')].reason = {} /\ raised[Len(raised)].text \subseteq error'[Len(error')].text
    BY <1>1 DEF LastIs
  <2>2. Len(error') = Len(raised) + n /\ Len(error) = Len(raised) + n /\ Len(error') <= 4
    BY <2>1, <1>4, <1>5, <1>6, <1>10
  <2>3. /\ Len(raised) \in 1..Len(raised) /\ Len(raised) + n \in 1..Len(error) /\ Len(raised) + n <= 6
        /\ error[Len(raised) + n] = raised[Len(raised)]
    <3>1. Len(raised) \in 1..Len(raised)
      BY <1>4
    <3>2. Len(raised) + n \in 1..Len(error)
      BY <2>2, <1>4, <1>5
    <3>. QED
      BY <2>1, <3>1, <3>2, <1>4, <1>5, <1>6
  <2>4. PICK k \in 1..Len(error) : k = Len(raised) + n /\ k <= 6 /\ error[k] = raised[Len(raised)] /\ k = Len(error')
    BY <2>2, <2>3
  <2>5. /\ error[k].kind \in {"error", "value", "null"} /\ error[k].reason = {}
        /\ error[k].text = raised[Len(raised)].text
    BY <2>3, <2>4, <1>7
  <2>6. error'[k].reason = {} /\ (error[k].text # {} => error'[k].text = error[k].text)
    BY <2>4, <2>5, <1>10
  <2>. QED
    BY <2>2, <2>4, <2>5, <2>6
<1>. QED
  BY <1>1, <1>2, <1>10, <1>11, <1>12, <1>14, <1>15 DEF StageHolds, Origins

LEMMA ReplyErrorKeeps ==
  ASSUME StageHolds, E!ReplyError
  PROVE  StageHolds'
<1>1. /\ UNCHANGED <<raised, from, told>> /\ ArisesAsKnown /\ from = "session" /\ report' = "plugin"
      /\ error = raised /\ error' = E!OverChannel(raised)
  BY DEF E!ReplyError, E!Moves, StageHolds, Origins
<1>2. ArisesAsKnown'
  BY <1>1 DEF ArisesAsKnown, IsPlain
<1>3. raised \in Seq(Links) /\ Len(raised) = 1 /\ IsPlain(raised[1])
  BY <1>1 DEF ArisesAsKnown
<1>4. error' \in Seq(Links) /\ Len(error') = 1 /\ error'[1].text = raised[1].text /\ error'[1].reason = {}
  BY <1>1, <1>3, CrossesAlone
<1>5. DOMAIN error' = 1..1
  BY <1>4, IndicesOf
<1>6. Shown(0)' /\ LastIs(0, 1)'
  BY <1>1, <1>3, <1>4, <1>5 DEF Shown, LastIs
<1>. QED
  BY <1>1, <1>2, <1>4, <1>6 DEF StageHolds, Origins

LEMMA WrapForToolKeeps ==
  ASSUME StageHolds, E!WrapForTool
  PROVE  StageHolds'
<1>1. /\ UNCHANGED <<raised, from, told>> /\ ArisesAsKnown /\ report' = "tool" /\ report = "plugin"
      /\ error' = E!ReasonError({"invoke"}, IF from = "session" THEN error ELSE E!NormalizedFailure(E!HostReason, error))
      /\ error \in Seq(Links) /\ Len(error) > 0
      /\ \/ from = "session" /\ Shown(0) /\ LastIs(0, 1)
         \/ /\ from = "fastgpt" /\ error[1].kind = "error" /\ error[1].reason = E!HostReason
            /\ \E n \in 1..2 : Shown(n) /\ LastIs(n, 4)
  BY DEF E!WrapForTool, E!Moves, StageHolds, Origins
<1>2. ArisesAsKnown' /\ E!HostReason' = E!HostReason
  BY <1>1 DEF ArisesAsKnown, IsPlain, E!HostReason
<1>3. error' = E!ReasonError({"invoke"}, error)
  <2>1. CASE from = "session"
    BY <1>1, <2>1
  <2>2. CASE from = "fastgpt"
    <3>1. E!Reason(error) = E!HostReason
      BY <1>1, <2>2, HostReasonIs DEF E!Reason
    <3>. QED
      BY <1>1, <2>2, <3>1 DEF E!NormalizedFailure
  <2>. QED
    BY <1>1, <2>1, <2>2
<1>4. PICK w \in Links : w = E!Link("error", None, {"invoke"}, {"invoke"})
  BY DEF E!Link, Links, LinkKinds, Codes, Texts
<1>5. error' = <<w>> \o error /\ w.reason = {"invoke"}
  BY <1>3, <1>4 DEF E!ReasonError, E!Link
<1>6. /\ error' \in Seq(Links) /\ Len(error') = Len(error) + 1 /\ error'[1] = w
      /\ \A i \in 1..Len(error) : error'[i + 1] = error[i]
  <2>1. error \in Seq(Links)
    BY <1>1
  <2>. QED
    BY <2>1, <1>5, OnTop
<1>7. Len(error) \in Nat /\ DOMAIN error = 1..Len(error) /\ DOMAIN error' = 1..(Len(error) + 1)
  BY <1>1, <1>6, IndicesOf
<1>8. Len(error') > 1 /\ (from = "fastgpt" => error'[2].reason = E!HostReason)
  <2>1. error'[1 + 1] = error[1]
    BY <1>1, <1>6, <1>7
  <2>. QED
    BY <2>1, <1>1, <1>6, <1>7
<1>9. PICK n \in 0..2 : Shown(n) /\ LastIs(n, 4)
  <2>1. LastIs(0, 1) => LastIs(0, 4)
    BY <1>7 DEF LastIs
  <2>. QED
    BY <2>1, <1>1
<1>10. Len(raised) \in Nat \ {0}
  BY <1>1 DEF ArisesAsKnown
<1>11. Shown(n + 1)'
  <2>1. SUFFICES ASSUME NEW i \in 1..Len(raised), i <= 4, raised[i].text # {}
                 PROVE  i + (n + 1) \in DOMAIN error' /\ error'[i + (n + 1)].text = raised[i].text
    BY <1>1 DEF Shown
  <2>2. i + n \in 1..Len(error) /\ error[i + n].text = raised[i].text
    BY <2>1, <1>7, <1>9 DEF Shown
  <2>3. (i + n) + 1 = i + (n + 1) /\ (i + n) + 1 \in 1..(Len(error) + 1)
    BY <2>2, <1>7, <1>10
  <2>. QED
    BY <2>2, <2>3, <1>6, <1>7
<1>12. LastIs(n + 1, 5)'
  <2>1. SUFFICES ASSUME Len(raised) <= 3
                 PROVE  /\ Len(error') = Len(raised) + (n + 1) /\ Len(error') <= 5
                        /\ error'[Len(error')].reason = {} /\ raised[Len(raised)].text \subseteq error'[Len(error')].text
    BY <1>1 DEF LastIs
  <2>2. /\ Len(error) = Len(raised) + n /\ Len(error) <= 4
        /\ error[Len(error)].reason = {} /\ raised[Len(raised)].text \subseteq error[Len(error)].text
    BY <2>1, <1>9 DEF LastIs
  <2>3. Len(error) \in 1..Len(error)
    BY <1>1, <1>7
  <2>4. error'[Len(error')] = error[Len(error)]
    BY <2>3, <1>6
  <2>. QED
    BY <2>2, <2>4, <1>6, <1>7, <1>10
<1>13. \E m \in 1..3 : Shown(m)' /\ LastIs(m, 5)'
  BY <1>11, <1>12
<1>. QED
  BY <1>1, <1>2, <1>5, <1>6, <1>8, <1>13 DEF StageHolds, Origins

LEMMA EndsWith ==
  ASSUME NEW e, NEW depth, NEW last, last = IF Len(e) > 6 - depth THEN 6 - depth ELSE Len(e), e[last].reason = {}
  PROVE  e[last].text \subseteq E!ErrText(e, depth)
<1> SUFFICES ASSUME NEW x \in e[last].text PROVE x \in E!ErrText(e, depth)
  OBVIOUS
<1>. QED
  BY DEF E!ErrText

LEMMA ToolThrowsKeeps ==
  ASSUME StageHolds, E!ToolThrows
  PROVE  StageHolds'
<1>1. /\ UNCHANGED <<error, raised, from>> /\ ArisesAsKnown /\ report' = "over" /\ from \in {"fastgpt", "session"}
      /\ error \in Seq(Links) /\ Len(error) > 1 /\ error[1].reason = {"invoke"}
      /\ from = "fastgpt" => error[2].reason = E!HostReason
  BY DEF E!ToolThrows, StageHolds
<1>2. PICK n \in 1..3 : Shown(n) /\ LastIs(n, 5)
  BY DEF E!ToolThrows, StageHolds
<1>3. PICK depth \in {0, 1} : told' = E!ErrText(error, depth)
  BY DEF E!ToolThrows
<1>4. ArisesAsKnown' /\ E!HostReason' = E!HostReason
  BY <1>1 DEF ArisesAsKnown, IsPlain, E!HostReason
<1>5. Len(error) \in Nat /\ DOMAIN error = 1..Len(error)
  BY <1>1, IndicesOf
<1>6. PICK last : last = IF Len(error) > 6 - depth THEN 6 - depth ELSE Len(error)
  OBVIOUS
<1>7. told' = (UNION {error[i].reason : i \in DOMAIN error}) \cup IF error[last].reason = {} THEN error[last].text ELSE {}
  BY <1>3, <1>6 DEF E!ErrText
<1>8. \A i \in DOMAIN error : error[i].reason \subseteq told'
  BY <1>7
<1>9. {"invoke"} \subseteq told' /\ (from = "fastgpt" => E!HostReason \subseteq told')
  <2>1. 1 \in DOMAIN error /\ 2 \in DOMAIN error
    BY <1>1, <1>5
  <2>. QED
    BY <2>1, <1>1, <1>8
<1>10. Len(raised) <= 3 => raised[Len(raised)].text \subseteq told'
  <2>1. SUFFICES ASSUME Len(raised) <= 3 PROVE raised[Len(raised)].text \subseteq told'
    OBVIOUS
  <2>2. Len(error) <= 5 /\ error[Len(error)].reason = {} /\ raised[Len(raised)].text \subseteq error[Len(error)].text
    BY <1>2, <2>1 DEF LastIs
  <2>3. last = Len(error)
    <3>1. depth \in {0, 1}
      BY <1>3
    <3>2. PICK length \in 0..5 : length = Len(error)
      BY <2>2, <1>5
    <3>3. ~(length > 6 - depth)
      BY <3>1
    <3>. QED
      BY <3>2, <3>3, <1>6
  <2>4. error[last].reason = {} /\ raised[Len(raised)].text \subseteq error[last].text
    BY <2>2, <2>3
  <2>5. error[last].text \subseteq told'
    BY <1>3, <1>6, <2>4, EndsWith
  <2>. QED
    BY <2>4, <2>5
<1>11. LET kept == {i \in DOMAIN raised' : i <= 4 /\ raised'[i].text # {}}
       IN /\ \A i \in kept : \E k \in DOMAIN error' : error'[k].text = raised'[i].text
          /\ \A i, j \in kept :
               i < j => \E k, l \in DOMAIN error' :
                          k < l /\ error'[k].text = raised'[i].text /\ error'[l].text = raised'[j].text
  BY <1>1, <1>2, ShownIsTold
<1>12. E!FailuresAreTold'
  BY <1>1, <1>4, <1>9, <1>10, <1>11 DEF E!FailuresAreTold
<1>. QED
  BY <1>1, <1>4, <1>12 DEF StageHolds, Origins

LEMMA StutterKeeps ==
  ASSUME StageHolds, UNCHANGED reportVars PROVE StageHolds'
<1>1. UNCHANGED <<report, error, raised, from, told>>
  BY DEF reportVars
<1>2. ArisesAsKnown' = ArisesAsKnown /\ E!HostReason' = E!HostReason /\ E!Due' = E!Due
  BY <1>1 DEF ArisesAsKnown, IsPlain, E!HostReason, E!Due
<1>3. HeadSays' = HeadSays
  BY <1>1, <1>2 DEF HeadSays
<1>4. \A n \in 0..3 : Under(n)' = Under(n) /\ Shown(n)' = Shown(n)
  BY <1>1 DEF Under, Shown
<1>5. \A n \in 0..3, m \in {1, 4, 5} : LastIs(n, m)' = LastIs(n, m)
  BY <1>1 DEF LastIs
<1>6. (\A i \in 1..Len(raised) : IsPlain(raised[i]))' = (\A i \in 1..Len(raised) : IsPlain(raised[i]))
  BY <1>1 DEF IsPlain
<1>7. E!FailuresAreTold' = E!FailuresAreTold
  BY <1>1, <1>2 DEF E!FailuresAreTold
<1>. QED
  BY <1>1, <1>2, <1>3, <1>4, <1>5, <1>6, <1>7 DEF StageHolds

LEMMA StageHoldsKept ==
  ASSUME StageHolds, [E!Next]_reportVars
  PROVE  StageHolds'
<1>1. CASE Arising
  BY <1>1, ArisingKeeps
<1>2. CASE UNCHANGED reportVars
  BY <1>2, StutterKeeps
<1>3. CASE E!Next /\ ~Arising
  BY <1>3, ManagerKeeps, RouteKeeps, FailureKeeps, OnErrorKeeps, RespondKeeps, ClientThrowsKeeps, AnswerKeeps,
     ReplyKeeps, ReplyErrorKeeps, WrapForToolKeeps, ToolThrowsKeeps DEF E!Next, Arising
<1>. QED
  BY <1>1, <1>2, <1>3

LEMMA StageHoldsSuffices ==
  ASSUME StageHolds PROVE E!FailuresAreTold
BY DEF StageHolds, E!FailuresAreTold

(* Who is told of a failure can find the error and its first causes in the *)
(* order they have, whatever the layers between made of it.                *)
THEOREM FailuresAlwaysTold == PartsSpec => []FailuresAreTold
<1>1. PartsInit => StageHolds
  BY StageHoldsAtStart DEF PartsInit
<1>2. StageHolds /\ [PartsNext]_allVars => StageHolds'
  BY StageHoldsKept, PartsStep
<1>3. StageHolds => FailuresAreTold
  BY StageHoldsSuffices DEF FailuresAreTold
<1>. QED
  BY <1>1, <1>2, <1>3, PTL DEF PartsSpec

-----------------------------------------------------------------------------
(* ServerStartup                                                           *)

(* What a node has done by the time it is somewhere.                       *)
PhasesInOrder ==
  \A n \in Nodes :
    /\ serverAt[n] = "off" => ~listening[n] /\ ~connected[n] /\ \A i \in 1..S!MaxAttempts : attempts[n][i] = "none"
    /\ serverAt[n] \in {"off", "init"} => \A k \in StaticKinds : job[n][k] = "none"
    /\ serverAt[n] \in {"static", "register", "ready"} => starting[n] = {}
    /\ serverAt[n] \in {"register", "ready"} => templates[n] /\ \A k \in StaticKinds : job[n][k] = "done"
    /\ serverAt[n] # "off" => release[n] \in Releases /\ ("mongo" \in starting[n] \/ attempts[n][1] = "done")
    /\ listening[n] => serverAt[n] \in {"failed", "ready"}
    /\ serverAt[n] = "failed" => stopping[n] = "flush"
    /\ serverAt[n] = "ready" => connected[n]

Trying == {"connect", "delay"}

(* The attempts to connect follow each other, and end with one that does.  *)
AttemptsInOrder ==
  \A n \in Nodes, i \in 1..S!MaxAttempts : attempts[n][i] \in Trying =>
    /\ ~connected[n]
    /\ \A j \in 1..S!MaxAttempts : j > i => attempts[n][j] = "none"

(* What has been uploaded is there.                                        *)
UploadedIsThere ==
  \A k \in StaticKinds :
    /\ \A n \in Nodes :
         job[n][k] \in {"upload", "done"} =>
           \A l \in Logos[release[n]][k] : logosStored[k][l] # None \/ (job[n][k] = "upload" /\ l \in left[n][k])
    /\ digest[k] # None => \A l \in Logos[digest[k]][k] : logosStored[k][l] # None

(* Those who upload are of one release, and what they have is of it; when  *)
(* they are through the digest tells of it.                                *)
UploadsAgree ==
  \A k \in StaticKinds \ torn :
    /\ \A n \in Nodes :
         /\ job[n][k] # "failed"
         /\ job[n][k] = "upload" =>
              /\ \A l \in Logos[release[n]][k] : logosStored[k][l] = release[n] \/ l \in left[n][k]
              /\ \A m \in Nodes : job[m][k] = "upload" => release[m] = release[n]
    /\ digest[k] # None /\ (\A n \in Nodes : job[n][k] # "upload") =>
         \A l \in Logos[digest[k]][k] : logosStored[k][l] = digest[k]

ServerInv == S!TypeOK /\ PhasesInOrder /\ AttemptsInOrder /\ UploadedIsThere /\ UploadsAgree

Numbers == 1..S!MaxAttempts
Tries == {"none", "connect", "delay", "sync", "done"}
JobStates == {"none", "get", "upload", "failed", "done"}

(* One job, set of logos or logo is set.                          *)
LEMMA JobSet ==
  ASSUME S!TypeOK, NEW n \in Nodes, NEW k \in StaticKinds, NEW to \in JobStates, job' = [job EXCEPT ![n][k] = to]
  PROVE  /\ job' \in [Nodes -> [StaticKinds -> JobStates]]
         /\ \A x \in Nodes, y \in StaticKinds : job'[x][y] = IF x = n /\ y = k THEN to ELSE job[x][y]
<1>1. job \in [Nodes -> [StaticKinds -> JobStates]]
  BY DEF S!TypeOK, JobStates
<1>. QED
  BY <1>1

LEMMA LeftSet ==
  ASSUME S!TypeOK, NEW n \in Nodes, NEW k \in StaticKinds, NEW to \in SUBSET S!AllLogos, left' = [left EXCEPT ![n][k] = to]
  PROVE  /\ left' \in [Nodes -> [StaticKinds -> SUBSET S!AllLogos]]
         /\ \A x \in Nodes, y \in StaticKinds : left'[x][y] = IF x = n /\ y = k THEN to ELSE left[x][y]
<1>1. left \in [Nodes -> [StaticKinds -> SUBSET S!AllLogos]]
  BY DEF S!TypeOK
<1>. QED
  BY <1>1

LEMMA LogoSet ==
  ASSUME S!TypeOK, NEW k \in StaticKinds, NEW l \in S!AllLogos, NEW to \in (Releases \cup {None}), logosStored' = [logosStored EXCEPT ![k][l] = to]
  PROVE  /\ logosStored' \in [StaticKinds -> [S!AllLogos -> Releases \cup {None}]]
         /\ \A x \in StaticKinds, y \in S!AllLogos : logosStored'[x][y] = IF x = k /\ y = l THEN to ELSE logosStored[x][y]
<1>1. logosStored \in [StaticKinds -> [S!AllLogos -> Releases \cup {None}]]
  BY DEF S!TypeOK
<1>. QED
  BY <1>1

LEMMA ServerInvSuffices ==
  ASSUME ServerInv PROVE S!ServesWhenReady
<1>1. ASSUME NEW n \in Nodes, listening[n], serverAt[n] # "failed"
      PROVE  /\ starting[n] = {} /\ templates[n] /\ connected[n] /\ S!Initialized(n)
             /\ \A k \in StaticKinds, l \in S!AllLogos : l \in Logos[release[n]][k] => logosStored[k][l] # None
  <2>1. serverAt[n] = "ready"
    BY <1>1 DEF ServerInv, PhasesInOrder
  <2>2. starting[n] = {} /\ templates[n] /\ connected[n] /\ attempts[n][1] = "done"
        /\ \A k \in StaticKinds : job[n][k] = "done"
    BY <2>1 DEF ServerInv, PhasesInOrder
  <2>3. S!Initialized(n)
    BY <2>2 DEF S!Initialized, S!MaxAttempts
  <2>4. \A k \in StaticKinds, l \in S!AllLogos : l \in Logos[release[n]][k] => logosStored[k][l] # None
    BY <2>2 DEF ServerInv, UploadedIsThere
  <2>. QED
    BY <2>2, <2>3, <2>4
<1>2. \A n \in Nodes : serverAt[n] = "failed" => stopping[n] = "flush"
  BY DEF ServerInv, PhasesInOrder
<1>3. ASSUME NEW k \in StaticKinds, digest[k] # None, NEW l \in Logos[digest[k]][k]
      PROVE  /\ logosStored[k][l] # None
             /\ k \notin torn /\ S!Uploading(k) = {} => logosStored[k][l] = digest[k]
  BY <1>3 DEF ServerInv, UploadedIsThere, UploadsAgree, S!Uploading
<1>. QED
  BY <1>1, <1>2, <1>3 DEF S!ServesWhenReady

LEMMA ServerInvAtStart ==
  ASSUME S!Init PROVE ServerInv
<1>1. S!TypeOK
  BY DEF S!Init, S!TypeOK, S!Tasks, S!NoJobs, S!NoneLeft
<1>2. PhasesInOrder /\ AttemptsInOrder
  BY DEF S!Init, PhasesInOrder, AttemptsInOrder, S!NoJobs, Trying, S!MaxAttempts
<1>3. UploadedIsThere /\ UploadsAgree
  BY DEF S!Init, UploadedIsThere, UploadsAgree, S!NoJobs
<1>. QED
  BY <1>1, <1>2, <1>3 DEF ServerInv

-----------------------------------------------------------------------------
(* The steps of one node                                                   *)

LEMMA ServerSteps ==
  ASSUME S!Next
  PROVE  \E n \in Nodes :
           \/ S!Start(n) \/ (\E task \in S!Tasks : S!Task(n, task))
           \/ \E i \in 1..S!MaxAttempts : S!MongoConnects(n, i) \/ S!MongoRetries(n, i) \/ S!MongoRegisters(n, i)
           \/ S!InitDone(n) \/ \E k \in StaticKinds : S!Get(n, k) \/ S!SetDigest(n, k) \/ \E logo \in S!AllLogos : S!Upload(n, k, logo)
           \/ S!LoadTemplates(n) \/ S!StaticDone(n) \/ S!StaticFails(n) \/ S!Register(n) \/ S!RegisterFails(n)
           \/ S!Request(n) \/ S!Answer(n) \/ S!Signal(n) \/ S!Closed(n)
           \/ ((S!Kill(n) \/ S!Exit(n)) /\ S!Ends(n))
BY DEF S!Next, S!Starting, S!Stopping, S!Kill, S!Exit

(* What is said of the uploads depends on the releases of those who upload.*)
LEMMA ReleasesOfUploads ==
  ASSUME UploadsAgree, UNCHANGED <<job, left, logosStored, digest, torn>>,
         \A m \in Nodes, k \in StaticKinds : job[m][k] = "upload" => release'[m] = release[m]
  PROVE  UploadsAgree'
<1>1. ASSUME NEW k \in StaticKinds \ torn, NEW n \in Nodes
      PROVE  /\ job[n][k] # "failed"
             /\ job[n][k] = "upload" =>
                  /\ \A l \in Logos[release'[n]][k] : logosStored[k][l] = release'[n] \/ l \in left[n][k]
                  /\ \A m \in Nodes : job[m][k] = "upload" => release'[m] = release'[n]
  <2>1. job[n][k] = "upload" => release'[n] = release[n]
    OBVIOUS
  <2>2. \A m \in Nodes : job[m][k] = "upload" => release'[m] = release[m]
    OBVIOUS
  <2>. QED
    BY <2>1, <2>2 DEF UploadsAgree
<1>. QED
  BY <1>1 DEF UploadsAgree

LEMMA ServerStarts ==
  ASSUME ServerInv, NEW n \in Nodes, S!Start(n) PROVE ServerInv'
<1> USE DEF S!mongo, S!static, S!serving, S!shared, S!bounds, S!Set, S!Goes, S!Start
<1>a. S!TypeOK /\ PhasesInOrder /\ AttemptsInOrder /\ UploadedIsThere /\ UploadsAgree
  BY DEF ServerInv
<1>t. attempts \in [Nodes -> [1..S!MaxAttempts -> Tries]]
  BY <1>a DEF S!TypeOK, Tries
<1>1. PICK r \in Releases : release' = [release EXCEPT ![n] = r]
  OBVIOUS
<1>2. serverAt' = [serverAt EXCEPT ![n] = "init"] /\ serverAt[n] = "off" /\ starting' = [starting EXCEPT ![n] = S!Tasks]
      /\ UNCHANGED <<connected, job, left, templates, listening, stopping, request, digest, logosStored, torn>>
  OBVIOUS
<1>3. /\ attempts' \in [Nodes -> [Numbers -> Tries]]
      /\ \A m \in Nodes, i \in 1..S!MaxAttempts :
           attempts'[m][i] = IF m = n /\ i = 1 THEN "connect" ELSE attempts[m][i]
  <2>1. 1 \in 1..S!MaxAttempts
    BY DEF S!MaxAttempts
  <2>2. attempts' = [attempts EXCEPT ![n][1] = "connect"]
    OBVIOUS
  <2>3. "connect" \in Tries
    BY DEF Tries
  <2> HIDE DEF S!mongo, S!static, S!serving, S!shared, S!bounds, S!Set, S!Goes, S!Start
  <2>. QED
    BY <2>1, <2>2, <2>3, <1>t DEF Numbers
<1> USE DEF S!TypeOK
<1>4. S!TypeOK'
  <2>1. S!Tasks \subseteq S!Tasks
    OBVIOUS
  <2>. QED
    BY <1>a, <1>1, <1>2, <1>3 DEF Numbers, Tries
<1>5. PhasesInOrder'
  BY <1>a, <1>1, <1>2, <1>3 DEF PhasesInOrder, S!Tasks, S!MaxAttempts
<1>6. AttemptsInOrder'
  <2>. SUFFICES ASSUME NEW m \in Nodes, NEW i \in 1..S!MaxAttempts, attempts'[m][i] \in Trying
                PROVE  /\ ~connected[m]
                       /\ \A j \in 1..S!MaxAttempts : j > i => attempts'[m][j] = "none"
    BY <1>2 DEF AttemptsInOrder
  <2>1. CASE m # n
    BY <1>a, <1>3, <2>1 DEF AttemptsInOrder
  <2>2. CASE m = n
    <3>1. \A j \in 1..S!MaxAttempts : attempts[n][j] = "none"
      BY <1>a, <1>2 DEF PhasesInOrder
    <3>2. i = 1
      BY <1>3, <2>2, <3>1 DEF Trying
    <3>3. \A j \in 1..S!MaxAttempts : j > i => attempts'[m][j] = "none"
      BY <1>3, <2>2, <3>1, <3>2
    <3>. QED
      BY <1>a, <1>2, <2>2, <3>3 DEF PhasesInOrder
  <2>. QED
    BY <2>1, <2>2
<1>7. UploadedIsThere'
  BY <1>a, <1>1, <1>2 DEF PhasesInOrder, UploadedIsThere
<1>8. UploadsAgree'
  <2>1. \A m \in Nodes, k \in StaticKinds : job[m][k] = "upload" => release'[m] = release[m]
    BY <1>a, <1>1, <1>2 DEF PhasesInOrder
  <2>. QED
    BY <1>a, <1>2, <2>1, ReleasesOfUploads
<1>. QED
  BY <1>4, <1>5, <1>6, <1>7, <1>8 DEF ServerInv

LEMMA ServerTasks ==
  ASSUME ServerInv, NEW n \in Nodes, NEW task \in S!Tasks, S!Task(n, task) PROVE ServerInv'
<1> USE DEF S!mongo, S!static, S!serving, S!shared, S!bounds, S!Set, S!Goes, S!Fault
<1>1. S!TypeOK'
  <2>1. S!TypeOK
    BY DEF ServerInv
  <2>2. UNCHANGED <<release, attempts, connected, job, left, templates, request, digest, logosStored, torn>>
    BY DEF S!Task, S!Fails
  <2>3. CASE serverAt' = serverAt
    <3>1. starting' = [starting EXCEPT ![n] = starting[n] \ {task}] /\ UNCHANGED <<listening, stopping>>
      BY <2>1, <2>3 DEF S!Task, S!Fails, S!TypeOK
    <3>2. starting' \in [Nodes -> SUBSET S!Tasks]
      BY <2>1, <3>1 DEF S!TypeOK
    <3>. QED
      BY <2>1, <2>2, <2>3, <3>1, <3>2 DEF S!TypeOK
  <2>4. CASE serverAt' # serverAt
    <3>1. starting' = starting /\ S!Fails(n)
      BY <2>4 DEF S!Task
    <3>. QED
      BY <2>1, <2>2, <3>1 DEF S!TypeOK, S!Fails
  <2>. QED
    BY <2>3, <2>4
<1>2. PhasesInOrder'
  <2>1. S!TypeOK /\ PhasesInOrder
    BY DEF ServerInv
  <2>2. UNCHANGED <<release, attempts, connected, job, templates>> /\ serverAt[n] = "init"
    BY DEF S!Task
  <2>3. CASE serverAt' = serverAt
    <3>1. starting' = [starting EXCEPT ![n] = starting[n] \ {task}] /\ UNCHANGED <<listening, stopping>> /\ task # "mongo"
      BY <2>1, <2>3, <2>2 DEF S!Task, S!Fails, S!TypeOK
    <3>. QED
      BY <2>1, <2>2, <2>3, <3>1 DEF S!TypeOK, PhasesInOrder
  <2>4. CASE serverAt' # serverAt
    <3>1. starting' = starting /\ S!Fails(n)
      BY <2>4 DEF S!Task
    <3>. QED
      BY <2>1, <2>2, <3>1 DEF S!TypeOK, PhasesInOrder, S!Fails
  <2>. QED
    BY <2>3, <2>4
<1>3. AttemptsInOrder' /\ UploadedIsThere' /\ UploadsAgree'
  BY DEF ServerInv, AttemptsInOrder, UploadedIsThere, UploadsAgree, S!Task
<1>. QED
  BY <1>1, <1>2, <1>3 DEF ServerInv

(* An attempt that connects, fails to, or ends: no other is under way.     *)
LEMMA ServerConnects ==
  ASSUME ServerInv, NEW n \in Nodes, NEW i \in 1..S!MaxAttempts,
         S!MongoConnects(n, i) \/ S!MongoRegisters(n, i)
  PROVE  ServerInv'
<1> USE DEF S!mongo, S!static, S!serving, S!shared, S!bounds, S!Set, S!Goes, S!Fault
<1>a. S!TypeOK /\ PhasesInOrder /\ AttemptsInOrder /\ UploadedIsThere /\ UploadsAgree
  BY DEF ServerInv
<1>t. attempts \in [Nodes -> [1..S!MaxAttempts -> Tries]]
  BY <1>a DEF S!TypeOK, Tries
<1>1. UNCHANGED <<serverAt, release, job, left, templates, listening, stopping, request, digest, logosStored, torn>>
  BY DEF S!MongoConnects, S!MongoRegisters
<1>2. PICK to \in {"sync", "delay", "done"} : attempts' = [attempts EXCEPT ![n][i] = to]
  BY DEF S!MongoConnects, S!MongoRegisters
<1>3. /\ attempts' \in [Nodes -> [Numbers -> Tries]]
      /\ \A m \in Nodes, j \in 1..S!MaxAttempts :
           attempts'[m][j] = IF m = n /\ j = i THEN to ELSE attempts[m][j]
  <2>1. to \in Tries
    BY DEF Tries
  <2>. QED
    BY <1>t, <1>2, <2>1 DEF Numbers
<1>4. \/ /\ attempts[n][i] = "connect" /\ starting' = starting
         /\ (to = "sync" /\ connected' = [connected EXCEPT ![n] = TRUE])
              \/ (to = "delay" /\ connected' = [connected EXCEPT ![n] = FALSE])
      \/ /\ attempts[n][i] = "sync" /\ to = "done" /\ connected' = connected
         /\ (starting' = [starting EXCEPT ![n] = starting[n] \ {"mongo"}] /\ i = 1) \/ starting' = starting
  <2>1. attempts'[n][i] = to
    BY <1>3
  <2>2. ASSUME S!MongoConnects(n, i) PROVE
         /\ attempts[n][i] = "connect" /\ starting' = starting
         /\ (to = "sync" /\ connected' = [connected EXCEPT ![n] = TRUE])
              \/ (to = "delay" /\ connected' = [connected EXCEPT ![n] = FALSE])
    <3>1. CASE attempts' = [attempts EXCEPT ![n][i] = "sync"] /\ connected' = [connected EXCEPT ![n] = TRUE]
      <4>1. attempts'[n][i] = "sync"
        BY <1>t, <3>1 DEF Tries
      <4>. QED
        BY <2>1, <2>2, <3>1, <4>1 DEF S!MongoConnects
    <3>2. CASE attempts' = [attempts EXCEPT ![n][i] = "delay"] /\ connected' = [connected EXCEPT ![n] = FALSE]
      <4>1. attempts'[n][i] = "delay"
        BY <1>t, <3>2 DEF Tries
      <4>. QED
        BY <2>1, <2>2, <3>2, <4>1 DEF S!MongoConnects
    <3>. QED
      BY <2>2, <3>1, <3>2 DEF S!MongoConnects
  <2>3. ASSUME S!MongoRegisters(n, i) PROVE
         /\ attempts[n][i] = "sync" /\ to = "done" /\ connected' = connected
         /\ (starting' = [starting EXCEPT ![n] = starting[n] \ {"mongo"}] /\ i = 1) \/ starting' = starting
    <3>1. attempts' = [attempts EXCEPT ![n][i] = "done"]
      BY <2>3 DEF S!MongoRegisters
    <3>2. attempts'[n][i] = "done"
      BY <1>t, <3>1 DEF Tries
    <3>. QED
      BY <2>1, <2>3, <3>2 DEF S!MongoRegisters
  <2>. QED
    BY <2>2, <2>3
<1> HIDE DEF S!mongo, S!static, S!serving, S!shared, S!bounds, S!Set, S!Goes, S!Fault
<1>5. S!TypeOK'
  <2>1. connected' \in [Nodes -> BOOLEAN]
    BY <1>a, <1>4 DEF S!TypeOK
  <2>2. starting' \in [Nodes -> SUBSET S!Tasks]
    <3>1. starting \in [Nodes -> SUBSET S!Tasks]
      BY <1>a DEF S!TypeOK
    <3>2. starting' = starting \/ starting' = [starting EXCEPT ![n] = starting[n] \ {"mongo"}]
      BY <1>4
    <3>. QED
      BY <3>1, <3>2
  <2>. QED
    BY <1>a, <1>1, <1>3, <2>1, <2>2 DEF S!TypeOK, Numbers, Tries
<1>6. PhasesInOrder'
  <2>. SUFFICES ASSUME NEW m \in Nodes
                PROVE /\ serverAt[m] = "off" => ~connected'[m] /\ \A j \in 1..S!MaxAttempts : attempts'[m][j] = "none"
                      /\ serverAt[m] \in {"static", "register", "ready"} => starting'[m] = {}
                      /\ serverAt[m] # "off" => ("mongo" \in starting'[m] \/ attempts'[m][1] = "done")
                      /\ serverAt[m] = "ready" => connected'[m]
    BY <1>a, <1>1 DEF PhasesInOrder
  <2>1. CASE m # n
    BY <1>a, <1>3, <1>4, <2>1 DEF S!TypeOK, PhasesInOrder, S!MaxAttempts
  <2>2. CASE m = n
    <3>1. serverAt[n] # "off"
      <4>1. attempts[n][i] # "none"
        BY <1>4
      <4>. QED
        BY <1>a, <4>1 DEF PhasesInOrder
    <3>2. serverAt[n] \in {"static", "register", "ready"} => starting'[n] = {}
      BY <1>a, <1>4 DEF PhasesInOrder, S!TypeOK
    <3>3. "mongo" \in starting'[n] \/ attempts'[n][1] = "done"
      <4>1. CASE starting' = starting
        BY <1>a, <1>3, <1>4, <3>1, <4>1 DEF PhasesInOrder, S!MaxAttempts
      <4>2. CASE i = 1 /\ to = "done"
        BY <1>3, <4>2
      <4>. QED
        BY <1>4, <4>1, <4>2
    <3>4. serverAt[n] = "ready" => connected'[n]
      BY <1>a, <1>4 DEF PhasesInOrder, AttemptsInOrder, Trying
    <3>. QED
      BY <2>2, <3>1, <3>2, <3>3, <3>4
  <2>. QED
    BY <2>1, <2>2
<1>7. AttemptsInOrder'
  <2>. SUFFICES ASSUME NEW m \in Nodes, NEW j \in 1..S!MaxAttempts, attempts'[m][j] \in Trying
                PROVE  /\ ~connected'[m]
                       /\ \A h \in 1..S!MaxAttempts : h > j => attempts'[m][h] = "none"
    BY DEF AttemptsInOrder
  <2>1. CASE m # n
    <3>1. connected'[m] = connected[m]
      BY <1>a, <1>4, <2>1 DEF S!TypeOK
    <3>2. \A h \in 1..S!MaxAttempts : attempts'[m][h] = attempts[m][h]
      BY <1>3, <2>1
    <3>. QED
      BY <1>a, <3>1, <3>2 DEF AttemptsInOrder
  <2>2. CASE m = n /\ attempts[n][i] = "sync"
    <3>1. to = "done" /\ connected' = connected
      BY <1>4, <2>2
    <3>2. j # i /\ attempts[n][j] \in Trying
      BY <1>3, <2>2, <3>1 DEF Trying
    <3>3. ~connected[n] /\ \A h \in 1..S!MaxAttempts : h > j => attempts[n][h] = "none"
      BY <1>a, <3>2 DEF AttemptsInOrder
    <3>4. ~(i > j)
      BY <2>2, <3>3
    <3>. QED
      BY <1>3, <2>2, <3>1, <3>3, <3>4
  <2>3. CASE m = n /\ attempts[n][i] = "connect"
    <3>1. \A h \in 1..S!MaxAttempts : h # i => attempts[n][h] \notin Trying
      BY <1>a, <2>3 DEF AttemptsInOrder, Trying, S!MaxAttempts
    <3>2. j = i /\ to = "delay"
      BY <1>3, <1>4, <2>3, <3>1 DEF Trying
    <3>3. ~connected'[n]
      BY <1>a, <1>4, <2>3, <3>2 DEF S!TypeOK
    <3>. QED
      BY <1>a, <1>3, <2>3, <3>2, <3>3 DEF AttemptsInOrder, Trying
  <2>. QED
    BY <1>4, <2>1, <2>2, <2>3
<1>8. UploadedIsThere' /\ UploadsAgree'
  BY <1>a, <1>1 DEF UploadedIsThere, UploadsAgree
<1>. QED
  BY <1>5, <1>6, <1>7, <1>8 DEF ServerInv

LEMMA ServerRetries ==
  ASSUME ServerInv, NEW n \in Nodes, NEW i \in 1..S!MaxAttempts, S!MongoRetries(n, i)
  PROVE  ServerInv'
<1> USE DEF S!mongo, S!static, S!serving, S!shared, S!bounds, S!Set, S!Goes, S!Fault
<1>a. S!TypeOK /\ PhasesInOrder /\ AttemptsInOrder /\ UploadedIsThere /\ UploadsAgree
  BY DEF ServerInv
<1> DEFINE Next1 == [j \in 1..S!MaxAttempts |->
           IF j = i THEN "sync" ELSE IF j = i + 1 /\ ~S!Initialized(n) THEN "connect" ELSE attempts[n][j]]
<1>1. /\ attempts[n][i] = "delay" /\ attempts' = [attempts EXCEPT ![n] = Next1]
      /\ UNCHANGED <<serverAt, release, starting, connected, job, left, templates, listening, stopping, request, digest, logosStored, torn>>
  BY DEF S!MongoRetries, S!NextAttempt
<1>2. Next1 \in [1..S!MaxAttempts -> Tries]
  <2>1. attempts[n] \in [1..S!MaxAttempts -> Tries]
    BY <1>a DEF S!TypeOK, Tries
  <2>2. "sync" \in Tries /\ "connect" \in Tries
    BY DEF Tries
  <2>. QED
    BY <2>1, <2>2
<1>3. \A j \in 1..S!MaxAttempts :
        Next1[j] = IF j = i THEN "sync" ELSE IF j = i + 1 /\ ~S!Initialized(n) THEN "connect" ELSE attempts[n][j]
  OBVIOUS
<1> HIDE DEF Next1, S!mongo, S!static, S!serving, S!shared, S!bounds, S!Set, S!Goes, S!Fault
<1>4. \A m \in Nodes : attempts'[m] = IF m = n THEN Next1 ELSE attempts[m]
  BY <1>a, <1>1 DEF S!TypeOK
<1>5. S!TypeOK'
  <2>1. attempts' \in [Nodes -> [Numbers -> Tries]]
    BY <1>a, <1>1, <1>2 DEF S!TypeOK, Numbers, Tries
  <2>. QED
    BY <1>a, <1>1, <2>1 DEF S!TypeOK, Numbers, Tries
<1>6. \A j \in 1..S!MaxAttempts : j # i => attempts[n][j] \notin Trying
  BY <1>a, <1>1 DEF AttemptsInOrder, Trying, S!MaxAttempts
<1>7. PhasesInOrder'
  <2>1. serverAt[n] # "off"
    BY <1>a, <1>1 DEF PhasesInOrder
  <2>2. attempts[n][1] = "done" => attempts'[n][1] = "done"
    BY <1>1, <1>3, <1>4, <1>a DEF S!MaxAttempts, S!Initialized
  <2>. QED
    BY <1>a, <1>1, <1>4, <2>1, <2>2 DEF PhasesInOrder
<1>8. AttemptsInOrder'
  <2>. SUFFICES ASSUME NEW m \in Nodes, NEW j \in 1..S!MaxAttempts, attempts'[m][j] \in Trying
                PROVE  /\ ~connected[m]
                       /\ \A h \in 1..S!MaxAttempts : h > j => attempts'[m][h] = "none"
    BY <1>1 DEF AttemptsInOrder
  <2>1. CASE m # n
    BY <1>a, <1>4, <2>1 DEF AttemptsInOrder
  <2>2. CASE m = n
    <3>1. ~connected[n] /\ \A h \in 1..S!MaxAttempts : h > i => attempts[n][h] = "none"
      BY <1>a, <1>1 DEF AttemptsInOrder, Trying
    <3>2. j = i + 1
      BY <1>3, <1>4, <1>6, <2>2 DEF Trying
    <3>3. \A h \in 1..S!MaxAttempts : h > j => attempts'[n][h] = "none"
      BY <1>3, <1>4, <3>1, <3>2 DEF S!MaxAttempts
    <3>. QED
      BY <2>2, <3>1, <3>3
  <2>. QED
    BY <2>1, <2>2
<1>9. UploadedIsThere' /\ UploadsAgree'
  BY <1>a, <1>1 DEF UploadedIsThere, UploadsAgree
<1>. QED
  BY <1>5, <1>7, <1>8, <1>9 DEF ServerInv

LEMMA ServerGoesOn ==
  ASSUME ServerInv, NEW n \in Nodes,
         S!LoadTemplates(n) \/ S!StaticDone(n) \/ S!StaticFails(n) \/ S!Register(n) \/ S!RegisterFails(n)
           \/ S!Request(n) \/ S!Answer(n) \/ S!Signal(n) \/ S!Closed(n)
  PROVE  ServerInv'
<1> USE DEF S!mongo, S!static, S!serving, S!shared, S!bounds, S!Set, S!Goes, S!Fault, S!Fails
<1>1. S!TypeOK'
  <2>1. S!TypeOK
    BY DEF ServerInv
  <2>2. UNCHANGED <<release, starting, attempts, connected, job, left, digest, logosStored, torn>>
    BY DEF S!LoadTemplates, S!StaticDone, S!StaticFails, S!Register, S!RegisterFails, S!Request, S!Answer, S!Signal, S!Closed
  <2>3. serverAt' \in [Nodes -> {"off", "init", "static", "register", "ready", "failed"}]
    BY <2>1 DEF S!TypeOK, S!LoadTemplates, S!StaticDone, S!StaticFails, S!Register, S!RegisterFails, S!Request, S!Answer, S!Signal, S!Closed
  <2>4. templates' \in [Nodes -> BOOLEAN] /\ listening' \in [Nodes -> BOOLEAN] /\ request' \in [Nodes -> BOOLEAN]
    BY <2>1 DEF S!TypeOK, S!LoadTemplates, S!StaticDone, S!StaticFails, S!Register, S!RegisterFails, S!Request, S!Answer, S!Signal, S!Closed
  <2>5. stopping' \in [Nodes -> {"no", "close", "flush"}]
    BY <2>1 DEF S!TypeOK, S!LoadTemplates, S!StaticDone, S!StaticFails, S!Register, S!RegisterFails, S!Request, S!Answer, S!Signal, S!Closed
  <2>. QED
    BY <2>1, <2>2, <2>3, <2>4, <2>5 DEF S!TypeOK
<1> USE DEF S!LoadTemplates, S!StaticDone, S!StaticFails, S!Register, S!RegisterFails, S!Request, S!Answer, S!Signal, S!Closed
<1>2. PhasesInOrder'
  BY DEF ServerInv, S!TypeOK, PhasesInOrder
<1>3. AttemptsInOrder' /\ UploadedIsThere' /\ UploadsAgree'
  BY DEF ServerInv, AttemptsInOrder, UploadedIsThere, UploadsAgree
<1>. QED
  BY <1>1, <1>2, <1>3 DEF ServerInv

LEMMA ServerInits ==
  ASSUME ServerInv, NEW n \in Nodes, S!InitDone(n) PROVE ServerInv'
<1> USE DEF S!mongo, S!static, S!serving, S!shared, S!bounds, S!Set, S!Goes
<1>1. S!TypeOK'
  BY DEF ServerInv, S!TypeOK, S!InitDone
<1>2. PhasesInOrder' /\ AttemptsInOrder'
  BY DEF ServerInv, S!TypeOK, PhasesInOrder, AttemptsInOrder, S!InitDone
<1>3. /\ \A m \in Nodes, k \in StaticKinds : job'[m][k] = IF m = n THEN "get" ELSE job[m][k]
      /\ \A k \in StaticKinds : job[n][k] = "none"
  BY DEF ServerInv, S!TypeOK, PhasesInOrder, S!InitDone
<1>4. UNCHANGED <<release, left, logosStored, digest, torn>>
  BY DEF S!InitDone
<1>5. UploadedIsThere'
  BY <1>3, <1>4 DEF ServerInv, UploadedIsThere
<1>6. UploadsAgree'
  BY <1>3, <1>4 DEF ServerInv, UploadsAgree
<1>. QED
  BY <1>1, <1>2, <1>5, <1>6 DEF ServerInv

LEMMA ServerGets ==
  ASSUME ServerInv, NEW n \in Nodes, NEW k \in StaticKinds, S!Get(n, k) PROVE ServerInv'
<1> USE DEF S!mongo, S!static, S!serving, S!shared, S!bounds
<1>a. S!TypeOK /\ PhasesInOrder /\ AttemptsInOrder /\ UploadedIsThere /\ UploadsAgree
  BY DEF ServerInv
<1>1. serverAt[n] \notin {"off", "init", "register", "ready"} /\ release[n] \in Releases /\ release[n] # None
  BY <1>a, ServerAssumption DEF PhasesInOrder, S!TypeOK, S!Get
<1>2. Logos[release[n]][k] \subseteq S!AllLogos
  BY <1>1 DEF S!AllLogos
<1>3. job[n][k] = "get"
      /\ UNCHANGED <<serverAt, release, starting, attempts, connected, templates, listening, stopping, request, digest, logosStored>>
  BY DEF S!Get
<1>4. PICK to \in {"done", "upload"} :
        /\ job' = [job EXCEPT ![n][k] = to]
        /\ \/ to = "done" /\ digest[k] = release[n] /\ UNCHANGED <<left, torn>>
           \/ /\ to = "upload" /\ left' = [left EXCEPT ![n][k] = Logos[release[n]][k]]
              /\ torn' = IF \E m \in S!Uploading(k) : release[m] # release[n] THEN torn \cup {k} ELSE torn
  BY DEF S!Get, S!SetJob
<1> HIDE DEF S!mongo, S!static, S!serving, S!shared, S!bounds
<1>5. /\ job' \in [Nodes -> [StaticKinds -> JobStates]]
      /\ \A m \in Nodes, h \in StaticKinds : job'[m][h] = IF m = n /\ h = k THEN to ELSE job[m][h]
  <2>1. to \in JobStates
    BY DEF JobStates
  <2>2. job' = [job EXCEPT ![n][k] = to]
    BY <1>4
  <2>. QED
    BY <1>a, <2>1, <2>2, JobSet
<1>6. /\ left' \in [Nodes -> [StaticKinds -> SUBSET S!AllLogos]]
      /\ \A m \in Nodes, h \in StaticKinds :
           left'[m][h] = IF m = n /\ h = k /\ to = "upload" THEN Logos[release[n]][k] ELSE left[m][h]
  <2>1. CASE to = "done"
    BY <1>a, <1>4, <2>1 DEF S!TypeOK
  <2>2. CASE to = "upload"
    <3>1. Logos[release[n]][k] \in SUBSET S!AllLogos /\ left' = [left EXCEPT ![n][k] = Logos[release[n]][k]]
      BY <1>2, <1>4, <2>2
    <3>. QED
      BY <1>a, <2>2, <3>1, LeftSet
  <2>. QED
    BY <2>1, <2>2
<1>7. S!TypeOK'
  <2>1. torn' \subseteq StaticKinds
    BY <1>a, <1>4 DEF S!TypeOK
  <2>. QED
    BY <1>a, <1>3, <1>5, <1>6, <2>1 DEF S!TypeOK
<1>8. PhasesInOrder'
  <2>1. \A m \in Nodes : serverAt[m] \in {"off", "init", "register", "ready"} => m # n
    BY <1>1
  <2>. QED
    BY <1>a, <1>3, <1>5, <2>1 DEF PhasesInOrder
<1>9. AttemptsInOrder'
  BY <1>a, <1>3 DEF AttemptsInOrder
<1>10. UploadedIsThere'
  <2>1. ASSUME NEW h \in StaticKinds, NEW m \in Nodes, job'[m][h] \in {"upload", "done"}, NEW l \in Logos[release[m]][h]
        PROVE  logosStored[h][l] # None \/ (job'[m][h] = "upload" /\ l \in left'[m][h])
    <3>1. CASE m = n /\ h = k
      <4>1. CASE to = "done"
        BY <1>a, <1>1, <1>4, <2>1, <3>1, <4>1 DEF UploadedIsThere
      <4>2. CASE to = "upload"
        BY <1>5, <1>6, <2>1, <3>1, <4>2
      <4>. QED
        BY <4>1, <4>2
    <3>2. CASE ~(m = n /\ h = k)
      BY <1>a, <1>5, <1>6, <2>1, <3>2 DEF UploadedIsThere
    <3>. QED
      BY <3>1, <3>2
  <2>. QED
    BY <1>a, <1>3, <2>1 DEF UploadedIsThere
<1>11. UploadsAgree'
  <2>1. torn \subseteq torn'
    BY <1>4
  <2>2. ASSUME NEW h \in StaticKinds \ torn', h # k
        PROVE /\ \A m \in Nodes : job'[m][h] = job[m][h] /\ left'[m][h] = left[m][h]
              /\ h \in StaticKinds \ torn
    BY <1>5, <1>6, <2>1, <2>2
  <2>3. ASSUME k \notin torn'
        PROVE  /\ \A m \in Nodes :
                    /\ job'[m][k] # "failed"
                    /\ job'[m][k] = "upload" =>
                         /\ \A l \in Logos[release[m]][k] : logosStored[k][l] = release[m] \/ l \in left'[m][k]
                         /\ \A o \in Nodes : job'[o][k] = "upload" => release[o] = release[m]
               /\ digest[k] # None /\ (\A m \in Nodes : job'[m][k] # "upload") =>
                    \A l \in Logos[digest[k]][k] : logosStored[k][l] = digest[k]
    <3>1. k \in StaticKinds \ torn
      BY <2>1, <2>3
    <3>2. to = "upload" => \A m \in Nodes : job[m][k] = "upload" => release[m] = release[n]
      BY <1>4, <2>3 DEF S!Uploading
    <3>3. \A m \in Nodes :
            /\ job[m][k] # "failed"
            /\ job[m][k] = "upload" =>
                 /\ \A l \in Logos[release[m]][k] : logosStored[k][l] = release[m] \/ l \in left[m][k]
                 /\ \A o \in Nodes : job[o][k] = "upload" => release[o] = release[m]
      BY <1>a, <3>1 DEF UploadsAgree
    <3>4. ASSUME NEW m \in Nodes
          PROVE  /\ job'[m][k] # "failed"
                 /\ job'[m][k] = "upload" =>
                      /\ \A l \in Logos[release[m]][k] : logosStored[k][l] = release[m] \/ l \in left'[m][k]
                      /\ \A o \in Nodes : job'[o][k] = "upload" => release[o] = release[m]
      <4>1. CASE m # n
        <5>1. job'[m][k] = job[m][k] /\ left'[m][k] = left[m][k]
          BY <1>5, <1>6, <4>1
        <5>2. job[m][k] = "upload" /\ job'[n][k] = "upload" => release[n] = release[m]
          BY <1>3, <1>5, <3>2
        <5>. QED
          BY <1>5, <3>3, <5>1, <5>2
      <4>2. CASE m = n
        <5>1. job'[n][k] = to /\ (to = "upload" => left'[n][k] = Logos[release[n]][k])
          BY <1>5, <1>6
        <5>2. to = "upload" => \A o \in Nodes : job'[o][k] = "upload" => release[o] = release[n]
          BY <1>5, <3>2
        <5>. QED
          BY <4>2, <5>1, <5>2
      <4>. QED
        BY <4>1, <4>2
    <3>5. ASSUME digest[k] # None, \A m \in Nodes : job'[m][k] # "upload"
          PROVE  \A l \in Logos[digest[k]][k] : logosStored[k][l] = digest[k]
      <4>1. \A m \in Nodes : job[m][k] # "upload"
        BY <1>3, <1>5, <3>5
      <4>. QED
        BY <1>a, <3>1, <3>5, <4>1 DEF UploadsAgree
    <3>. QED
      BY <3>4, <3>5
  <2>4. ASSUME NEW h \in StaticKinds \ torn'
        PROVE  /\ \A m \in Nodes :
                    /\ job'[m][h] # "failed"
                    /\ job'[m][h] = "upload" =>
                         /\ \A l \in Logos[release[m]][h] : logosStored[h][l] = release[m] \/ l \in left'[m][h]
                         /\ \A o \in Nodes : job'[o][h] = "upload" => release[o] = release[m]
               /\ digest[h] # None /\ (\A m \in Nodes : job'[m][h] # "upload") =>
                    \A l \in Logos[digest[h]][h] : logosStored[h][l] = digest[h]
    <3>1. CASE h = k
      BY <2>3, <3>1
    <3>2. CASE h # k
      BY <1>a, <2>2, <3>2 DEF UploadsAgree
    <3>. QED
      BY <3>1, <3>2
  <2>. QED
    BY <1>3, <2>4 DEF UploadsAgree
<1>. QED
  BY <1>7, <1>8, <1>9, <1>10, <1>11 DEF ServerInv

LEMMA ServerUploads ==
  ASSUME ServerInv, NEW n \in Nodes, NEW k \in StaticKinds, NEW logo \in S!AllLogos, S!Upload(n, k, logo)
  PROVE  ServerInv'
<1> USE DEF S!mongo, S!static, S!serving, S!shared, S!bounds
<1>a. S!TypeOK /\ PhasesInOrder /\ AttemptsInOrder /\ UploadedIsThere /\ UploadsAgree
  BY DEF ServerInv
<1>1. serverAt[n] \notin {"off", "init", "register", "ready"} /\ release[n] \in Releases /\ release[n] # None
  BY <1>a, ServerAssumption DEF PhasesInOrder, S!TypeOK, S!Upload
<1>2. job[n][k] \in {"upload", "failed"}
      /\ UNCHANGED <<serverAt, release, starting, attempts, connected, templates, listening, stopping, request, digest>>
  BY DEF S!Upload
<1>3. \/ logosStored' = [logosStored EXCEPT ![k][logo] = release[n]] /\ UNCHANGED <<job, torn>>
      \/ /\ job[n][k] = "upload" /\ job' = [job EXCEPT ![n][k] = "failed"]
         /\ torn' = torn \cup {k} /\ UNCHANGED logosStored
  BY DEF S!Upload, S!SetJob
<1>4. left' = [left EXCEPT ![n][k] = left[n][k] \ {logo}]
  BY <1>a DEF S!Upload, S!TypeOK
<1> HIDE DEF S!mongo, S!static, S!serving, S!shared, S!bounds
<1>5. /\ left' \in [Nodes -> [StaticKinds -> SUBSET S!AllLogos]]
      /\ \A m \in Nodes, h \in StaticKinds :
           left'[m][h] = IF m = n /\ h = k THEN left[n][k] \ {logo} ELSE left[m][h]
  <2>1. left[n][k] \ {logo} \in SUBSET S!AllLogos
    BY <1>a DEF S!TypeOK
  <2>. QED
    BY <1>a, <1>4, <2>1, LeftSet
<1>6. CASE logosStored' = [logosStored EXCEPT ![k][logo] = release[n]] /\ UNCHANGED <<job, torn>>
  <2>1. /\ logosStored' \in [StaticKinds -> [S!AllLogos -> Releases \cup {None}]]
        /\ \A h \in StaticKinds, l \in S!AllLogos :
             logosStored'[h][l] = IF h = k /\ l = logo THEN release[n] ELSE logosStored[h][l]
    <3>1. release[n] \in Releases \cup {None}
      BY <1>1
    <3>. QED
      BY <1>a, <1>6, <3>1, LogoSet
  <2>2. S!TypeOK'
    BY <1>a, <1>2, <1>5, <1>6, <2>1 DEF S!TypeOK
  <2>3. PhasesInOrder' /\ AttemptsInOrder'
    BY <1>a, <1>2, <1>6 DEF PhasesInOrder, AttemptsInOrder
  <2>4. \A r \in Releases, h \in StaticKinds : Logos[r][h] \subseteq S!AllLogos
    BY DEF S!AllLogos
  <2>5. \A m \in Nodes, h \in StaticKinds : job[m][h] \in {"upload", "done"} => release[m] \in Releases
    BY <1>a DEF PhasesInOrder
  <2>6. UploadedIsThere'
    <3>1. ASSUME NEW h \in StaticKinds, NEW m \in Nodes, job[m][h] \in {"upload", "done"}, NEW l \in Logos[release[m]][h]
          PROVE  logosStored'[h][l] # None \/ (job[m][h] = "upload" /\ l \in left'[m][h])
      <4>1. l \in S!AllLogos
        BY <2>4, <2>5, <3>1
      <4>2. logosStored[h][l] # None \/ (job[m][h] = "upload" /\ l \in left[m][h])
        BY <1>a, <3>1 DEF UploadedIsThere
      <4>3. CASE h = k /\ l = logo
        BY <1>1, <2>1, <4>1, <4>3
      <4>4. CASE ~(h = k /\ l = logo)
        BY <1>5, <2>1, <4>1, <4>2, <4>4
      <4>. QED
        BY <4>3, <4>4
    <3>2. ASSUME NEW h \in StaticKinds, digest[h] # None, NEW l \in Logos[digest[h]][h]
          PROVE  logosStored'[h][l] # None
      <4>1. digest[h] \in Releases
        BY <1>a, <3>2 DEF S!TypeOK
      <4>2. l \in S!AllLogos
        BY <2>4, <4>1
      <4>. QED
        BY <1>a, <1>1, <2>1, <3>2, <4>2 DEF UploadedIsThere
    <3>. QED
      BY <1>2, <1>6, <3>1, <3>2 DEF UploadedIsThere
  <2>7. UploadsAgree'
    <3>1. ASSUME NEW h \in StaticKinds \ torn, NEW m \in Nodes, job[m][h] = "upload", NEW l \in Logos[release[m]][h]
          PROVE  logosStored'[h][l] = release[m] \/ l \in left'[m][h]
      <4>1. l \in S!AllLogos
        BY <2>4, <2>5, <3>1
      <4>2. logosStored[h][l] = release[m] \/ l \in left[m][h]
        BY <1>a, <3>1 DEF UploadsAgree
      <4>3. CASE h = k /\ l = logo
        <5>1. job[n][k] = "upload"
          BY <1>a, <1>2, <4>3 DEF UploadsAgree
        <5>2. release[n] = release[m]
          BY <1>a, <3>1, <4>3, <5>1 DEF UploadsAgree
        <5>. QED
          BY <2>1, <4>1, <4>3, <5>2
      <4>4. CASE ~(h = k /\ l = logo)
        BY <1>5, <2>1, <4>1, <4>2, <4>4
      <4>. QED
        BY <4>3, <4>4
    <3>2. ASSUME NEW h \in StaticKinds \ torn, digest[h] # None, \A m \in Nodes : job[m][h] # "upload",
                 NEW l \in Logos[digest[h]][h]
          PROVE  logosStored'[h][l] = digest[h]
      <4>1. digest[h] \in Releases
        BY <1>a, <3>2 DEF S!TypeOK
      <4>2. l \in S!AllLogos
        BY <2>4, <4>1
      <4>3. h # k
        BY <1>a, <1>2, <3>2 DEF UploadsAgree
      <4>. QED
        BY <1>a, <2>1, <3>2, <4>2, <4>3 DEF UploadsAgree
    <3>3. \A h \in StaticKinds \ torn : \A m \in Nodes :
            /\ job[m][h] # "failed"
            /\ job[m][h] = "upload" => \A o \in Nodes : job[o][h] = "upload" => release[o] = release[m]
      BY <1>a DEF UploadsAgree
    <3>. QED
      BY <1>2, <1>6, <3>1, <3>2, <3>3 DEF UploadsAgree
  <2>. QED
    BY <2>2, <2>3, <2>6, <2>7 DEF ServerInv
<1>7. CASE job[n][k] = "upload" /\ job' = [job EXCEPT ![n][k] = "failed"] /\ torn' = torn \cup {k} /\ UNCHANGED logosStored
  <2>1. /\ job' \in [Nodes -> [StaticKinds -> JobStates]]
        /\ \A m \in Nodes, h \in StaticKinds : job'[m][h] = IF m = n /\ h = k THEN "failed" ELSE job[m][h]
    <3>1. "failed" \in JobStates
      BY DEF JobStates
    <3>2. S!TypeOK /\ job' = [job EXCEPT ![n][k] = "failed"]
      BY <1>a, <1>7
    <3>. QED
      BY <3>1, <3>2, JobSet
  <2>2. S!TypeOK'
    <3>1. torn' \subseteq StaticKinds
      BY <1>a, <1>7 DEF S!TypeOK
    <3>. QED
      BY <1>a, <1>2, <1>5, <1>7, <2>1, <3>1 DEF S!TypeOK
  <2>3. PhasesInOrder' /\ AttemptsInOrder'
    <3>1. \A m \in Nodes : serverAt[m] \in {"off", "init", "register", "ready"} => m # n
      BY <1>1
    <3>. QED
      BY <1>a, <1>2, <2>1, <3>1 DEF PhasesInOrder, AttemptsInOrder
  <2>4. UploadedIsThere'
    <3>1. ASSUME NEW h \in StaticKinds, NEW m \in Nodes, job'[m][h] \in {"upload", "done"}
          PROVE  job'[m][h] = job[m][h] /\ left'[m][h] = left[m][h]
      BY <1>5, <2>1, <3>1
    <3>. QED
      BY <1>a, <1>2, <1>7, <3>1 DEF UploadedIsThere
  <2>5. UploadsAgree'
    <3>1. ASSUME NEW h \in StaticKinds \ torn'
          PROVE  h \in StaticKinds \ torn /\ \A m \in Nodes : job'[m][h] = job[m][h] /\ left'[m][h] = left[m][h]
      BY <1>5, <1>7, <2>1
    <3>. QED
      BY <1>a, <1>2, <1>7, <3>1 DEF UploadsAgree
  <2>. QED
    BY <2>2, <2>3, <2>4, <2>5 DEF ServerInv
<1>. QED
  BY <1>3, <1>6, <1>7

LEMMA ServerTells ==
  ASSUME ServerInv, NEW n \in Nodes, NEW k \in StaticKinds, S!SetDigest(n, k) PROVE ServerInv'
<1> USE DEF S!mongo, S!static, S!serving, S!shared, S!bounds, S!SetJob
<1>a. S!TypeOK /\ PhasesInOrder /\ AttemptsInOrder /\ UploadedIsThere /\ UploadsAgree
  BY DEF ServerInv
<1>1. serverAt[n] \notin {"off", "init", "register", "ready"} /\ release[n] \in Releases /\ release[n] # None
  BY <1>a, ServerAssumption DEF PhasesInOrder, S!TypeOK, S!SetDigest
<1>2. /\ job[n][k] = "upload" /\ left[n][k] = {}
      /\ job' = [job EXCEPT ![n][k] = "done"] /\ digest' = [digest EXCEPT ![k] = release[n]]
      /\ UNCHANGED <<serverAt, release, starting, attempts, connected, left, templates, listening, stopping, request, logosStored, torn>>
  BY DEF S!SetDigest
<1> HIDE DEF S!mongo, S!static, S!serving, S!shared, S!bounds, S!SetJob
<1>3. /\ job' \in [Nodes -> [StaticKinds -> JobStates]]
      /\ \A m \in Nodes, h \in StaticKinds : job'[m][h] = IF m = n /\ h = k THEN "done" ELSE job[m][h]
  <2>1. "done" \in JobStates
    BY DEF JobStates
  <2>. QED
    BY <1>a, <1>2, <2>1, JobSet
<1>4. /\ digest' \in [StaticKinds -> Releases \cup {None}]
      /\ \A h \in StaticKinds : digest'[h] = IF h = k THEN release[n] ELSE digest[h]
  BY <1>a, <1>1, <1>2 DEF S!TypeOK, Numbers, Tries
<1>5. S!TypeOK'
  BY <1>a, <1>2, <1>3, <1>4 DEF S!TypeOK
<1>6. PhasesInOrder' /\ AttemptsInOrder'
  <2>1. \A m \in Nodes : serverAt[m] \in {"off", "init", "register", "ready"} => m # n
    BY <1>1
  <2>. QED
    BY <1>a, <1>2, <1>3, <2>1 DEF PhasesInOrder, AttemptsInOrder
<1>7. \A l \in Logos[release[n]][k] : logosStored[k][l] # None
  BY <1>a, <1>2 DEF UploadedIsThere
<1>8. UploadedIsThere'
  <2>1. ASSUME NEW h \in StaticKinds, NEW m \in Nodes, job'[m][h] \in {"upload", "done"}, NEW l \in Logos[release[m]][h]
        PROVE  logosStored[h][l] # None \/ (job'[m][h] = "upload" /\ l \in left[m][h])
    BY <1>a, <1>3, <1>7, <2>1 DEF UploadedIsThere
  <2>2. ASSUME NEW h \in StaticKinds, digest'[h] # None, NEW l \in Logos[digest'[h]][h] PROVE logosStored[h][l] # None
    BY <1>a, <1>4, <1>7, <2>2 DEF UploadedIsThere
  <2>. QED
    BY <1>2, <2>1, <2>2 DEF UploadedIsThere
<1>9. UploadsAgree'
  <2>1. ASSUME NEW h \in StaticKinds \ torn, NEW m \in Nodes
        PROVE  /\ job'[m][h] # "failed"
               /\ job'[m][h] = "upload" =>
                    /\ \A l \in Logos[release[m]][h] : logosStored[h][l] = release[m] \/ l \in left[m][h]
                    /\ \A o \in Nodes : job'[o][h] = "upload" => release[o] = release[m]
    <3>1. \A o \in Nodes : job'[o][h] = "upload" => job[o][h] = "upload"
      BY <1>3
    <3>2. job'[m][h] # "failed"
      BY <1>a, <1>3 DEF UploadsAgree
    <3>. QED
      BY <1>a, <3>1, <3>2 DEF UploadsAgree
  <2>2. ASSUME NEW h \in StaticKinds \ torn, digest'[h] # None, \A m \in Nodes : job'[m][h] # "upload",
               NEW l \in Logos[digest'[h]][h]
        PROVE  logosStored[h][l] = digest'[h]
    <3>1. CASE h = k
      <4>1. digest'[k] = release[n]
        BY <1>4
      <4>2. logosStored[k][l] = release[n] \/ l \in left[n][k]
        BY <1>a, <1>2, <2>2, <3>1, <4>1 DEF UploadsAgree
      <4>. QED
        BY <1>2, <3>1, <4>1, <4>2
    <3>2. CASE h # k
      BY <1>a, <1>3, <1>4, <2>2, <3>2 DEF UploadsAgree
    <3>. QED
      BY <3>1, <3>2
  <2>. QED
    BY <1>2, <2>1, <2>2 DEF UploadsAgree
<1>. QED
  BY <1>5, <1>6, <1>8, <1>9 DEF ServerInv

LEMMA ServerEnds ==
  ASSUME ServerInv, NEW n \in Nodes, S!Ends(n) PROVE ServerInv'
<1> USE DEF S!mongo, S!static, S!serving, S!shared, S!bounds, S!Set, S!Ends
<1>1. S!TypeOK'
  BY DEF ServerInv, S!TypeOK, S!NoJobs, S!NoneLeft
<1>2. PhasesInOrder' /\ AttemptsInOrder'
  BY DEF ServerInv, S!TypeOK, PhasesInOrder, AttemptsInOrder, S!NoJobs, S!MaxAttempts, Trying
<1>3. UploadedIsThere' /\ UploadsAgree'
  BY DEF ServerInv, S!TypeOK, UploadedIsThere, UploadsAgree, S!NoJobs
<1>. QED
  BY <1>1, <1>2, <1>3 DEF ServerInv

LEMMA ServerInvKept ==
  ASSUME ServerInv, [S!Next]_serverVars PROVE ServerInv'
<1>1. CASE S!Next
  BY <1>1, ServerSteps, ServerStarts, ServerTasks, ServerConnects, ServerRetries, ServerGoesOn, ServerInits,
     ServerGets, ServerUploads, ServerTells, ServerEnds
<1>2. CASE UNCHANGED serverVars
  BY <1>2 DEF serverVars, S!mongo, S!static, S!serving, S!shared, S!bounds, ServerInv, S!TypeOK, PhasesInOrder, AttemptsInOrder,
     UploadedIsThere, UploadsAgree, Trying
<1>. QED
  BY <1>1, <1>2

(* A node that serves has started all it needs, and the logos of its       *)
(* release are stored.                                                     *)
THEOREM NodesServeWhenReady == PartsSpec => []S!ServesWhenReady
<1>1. PartsInit => ServerInv
  BY ServerInvAtStart DEF PartsInit
<1>2. ServerInv /\ [PartsNext]_allVars => ServerInv'
  BY ServerInvKept, PartsStep
<1>3. ServerInv => S!ServesWhenReady
  BY ServerInvSuffices
<1>. QED
  BY <1>1, <1>2, <1>3, PTL DEF PartsSpec

-----------------------------------------------------------------------------
(* PodProcess                                                              *)

(* Before there is a process nothing has been done, and the pod of a start *)
(* that failed before is never given one.                                  *)
PodUntouched ==
  /\ start \in {"no", "prepare"} => main = "none" /\ status = "pending" /\ channel = "none" /\ ~unclean
  /\ start \in {"no", "prepare", "waiting", "rejected"} => ~inFleet /\ active = 0 /\ status \notin {"idle", "running"}
  /\ main = "none" => killed = {} /\ ~helper /\ ~forceKill
  /\ main = "none" => unclean \/ podDirectory = "none"

(* There is a ChildProcess as long as its exit has not been handled, the   *)
(* runtime directory is then known, and a start that waits has one.        *)
PodForked ==
  /\ process <=> main \in {"unborn", "runs", "ended"}
  /\ process => podDirectory = "known"
  /\ main = "unborn" => unclean
  /\ start = "waiting" => process
  /\ start = "waiting" /\ channel = "open" => killed = {}

(* Once a signal was sent, whoever is left in the group will be killed; a  *)
(* pod whose process is gone keeps the directory for that, and only then.  *)
PodEscalates ==
  /\ forceKill => killed # {}
  /\ helper \/ main = "runs" => (killed # {} => forceKill)
  /\ main = "gone" => podDirectory = (IF forceKill THEN "known" ELSE "none")

PodInv == P!TypeOK /\ PodUntouched /\ PodForked /\ PodEscalates /\ P!OffersOnlyItself

-----------------------------------------------------------------------------
(* Both promises follow from the invariant.                                *)
LEMMA PodInvSuffices ==
  ASSUME PodInv PROVE P!PodsLeaveNothing
BY DEF PodInv, P!TypeOK, PodUntouched, PodForked, PodEscalates, P!PodsLeaveNothing, P!OffersOnlyItself, P!LeavesNothing

LEMMA PodInvAtStart ==
  ASSUME P!Init PROVE PodInv
<1>1. P!TypeOK
  <2>1. active \in 0..MaxActive
    BY PodAssumption DEF P!Init
  <2>2. stubborn \subseteq {"main", "helper"} /\ killed \subseteq {"SIGTERM", "SIGKILL"}
    BY DEF P!Init
  <2>3. {process, helper, forceKill, inFleet, unclean} \subseteq BOOLEAN
    BY DEF P!Init
  <2>. QED
    BY <2>1, <2>2, <2>3 DEF P!Init, P!TypeOK
<1>2. PodUntouched
  BY DEF P!Init, PodUntouched
<1>3. PodForked /\ PodEscalates /\ P!OffersOnlyItself
  BY DEF P!Init, PodForked, PodEscalates, P!OffersOnlyItself
<1>. QED
  BY <1>1, <1>2, <1>3 DEF PodInv

(* What a signal does to the group.                                        *)
LEMMA PodSignals ==
  ASSUME PodInv, process, NEW signal \in {"SIGTERM", "SIGKILL"}, NEW otherwise, P!Kill(signal, otherwise)
  PROVE  /\ status' = "terminating" /\ killed' = killed \cup {signal}
         /\ forceKill' \in BOOLEAN /\ helper' \in BOOLEAN
         /\ main' \in {main, "ended"} /\ (main' = main \/ main = "runs")
         /\ helper' \/ main' = "runs" => forceKill'
BY DEF PodInv, P!TypeOK, PodForked, P!Kill, P!Receive

LEMMA PodInvKept ==
  ASSUME PodInv, [P!Next]_podVars PROVE PodInv'
<1> USE PodAssumption DEF PodInv, P!TypeOK, PodUntouched, PodForked, PodEscalates, P!OffersOnlyItself, P!podState, P!system, podVars
<1>1. CASE P!Start
  BY <1>1 DEF P!Start
<1>2. CASE P!PrepareFails
  BY <1>2 DEF P!PrepareFails
<1>3. CASE P!ForkThrows
  BY <1>3 DEF P!ForkThrows
<1>4. CASE P!Fork
  BY <1>4 DEF P!Fork
<1>5. CASE P!Ready
  BY <1>5 DEF P!Ready
<1>6. CASE P!ReadyTimeout
  BY <1>6, PodSignals DEF P!ReadyTimeout
<1>7. CASE P!MainEnds
  BY <1>7 DEF P!MainEnds
<1>8. CASE P!Spawn
  BY <1>8 DEF P!Spawn
<1>9. CASE P!HelperEnds
  BY <1>9 DEF P!HelperEnds
<1>10. CASE P!HandleError
  BY <1>10, PodSignals DEF P!HandleError
<1>11. CASE P!HandleExit
  BY <1>11 DEF P!HandleExit, P!GroupIsWaitedFor
<1>12. CASE P!ForceKill
  <2>1. ~helper' /\ main' # "runs" /\ main' \in {main, "ended"} /\ (main' = main \/ main = "runs")
    BY <1>12 DEF P!ForceKill, P!Receive
  <2>2. killed # {} /\ ~forceKill' /\ killed' = killed \cup {"SIGKILL"}
    BY <1>12 DEF P!ForceKill
  <2>3. podDirectory' = IF process THEN podDirectory ELSE "none"
    BY <1>12 DEF P!ForceKill
  <2>4. killed' \subseteq {"SIGTERM", "SIGKILL"} /\ helper' = FALSE /\ forceKill' = FALSE
    BY <1>12, <2>2 DEF P!ForceKill, P!Receive
  <2>11. P!TypeOK'
    BY <1>12, <2>1, <2>3, <2>4 DEF P!ForceKill
  <2>12. PodUntouched'
    BY <1>12, <2>1, <2>2, <2>3 DEF P!ForceKill
  <2>13. PodForked'
    BY <1>12, <2>1, <2>2, <2>3 DEF P!ForceKill
  <2>14. PodEscalates'
    BY <1>12, <2>1, <2>2, <2>3 DEF P!ForceKill
  <2>15. P!OffersOnlyItself'
    BY <1>12, <2>1, <2>2, <2>3 DEF P!ForceKill
  <2>. QED
    BY <2>11, <2>12, <2>13, <2>14, <2>15
<1>13. CASE P!Invoke
  BY <1>13 DEF P!Invoke, P!IsAvailable
<1>14. CASE P!CompleteRequest
  BY <1>14 DEF P!CompleteRequest
<1>15. CASE P!InvokeFails
  <2>1. CASE process
    <3>1. active \in 1..MaxActive /\ active - 1 \in 0..MaxActive /\ start = "resolved"
      BY <1>15 DEF P!InvokeFails
    <3>11. P!TypeOK'
      BY <1>15, <2>1, <3>1, PodSignals DEF P!InvokeFails
    <3>12. PodUntouched'
      BY <1>15, <2>1, <3>1, PodSignals DEF P!InvokeFails
    <3>13. PodForked'
      BY <1>15, <2>1, <3>1, PodSignals DEF P!InvokeFails
    <3>14. PodEscalates'
      BY <1>15, <2>1, <3>1, PodSignals DEF P!InvokeFails
    <3>15. P!OffersOnlyItself'
      BY <1>15, <2>1, <3>1, PodSignals DEF P!InvokeFails
    <3>. QED
      BY <3>11, <3>12, <3>13, <3>14, <3>15
  <2>2. CASE ~process
    <3>1. active \in 1..MaxActive /\ active - 1 \in 0..MaxActive /\ start = "resolved"
      BY <1>15 DEF P!InvokeFails
    <3>2. status' = "failed" /\ UNCHANGED <<forceKill, main, helper, killed>>
      BY <1>15, <2>2 DEF P!InvokeFails, P!Kill
    <3>11. P!TypeOK'
      BY <1>15, <2>2, <3>1, <3>2 DEF P!InvokeFails
    <3>12. PodUntouched'
      BY <1>15, <2>2, <3>1, <3>2 DEF P!InvokeFails
    <3>13. PodForked'
      BY <1>15, <2>2, <3>1, <3>2 DEF P!InvokeFails
    <3>14. PodEscalates'
      BY <1>15, <2>2, <3>1, <3>2 DEF P!InvokeFails
    <3>15. P!OffersOnlyItself'
      BY <1>15, <2>2, <3>1, <3>2 DEF P!InvokeFails
    <3>. QED
      BY <3>11, <3>12, <3>13, <3>14, <3>15
  <2>. QED
    BY <2>1, <2>2
<1>16. CASE P!DestroyPod
  BY ZenonT(60), <1>16, PodSignals DEF P!DestroyPod, P!Kill
<1>17. CASE UNCHANGED podVars
  BY <1>17
<1>. QED
  BY <1>1, <1>2, <1>3, <1>4, <1>5, <1>6, <1>7, <1>8, <1>9, <1>10, <1>11, <1>12, <1>13, <1>14,
     <1>15, <1>16, <1>17 DEF P!Next

(* A pod takes requests only while nothing is done to end it, and once it  *)
(* has ended neither its processes nor its directory are left.             *)
THEOREM PodsAlwaysLeaveNothing == PartsSpec => []PodsLeaveNothing
<1>1. PartsInit => PodInv
  BY PodInvAtStart DEF PartsInit
<1>2. PodInv /\ [PartsNext]_allVars => PodInv'
  BY PodInvKept, PartsStep
<1>3. PodInv => PodsLeaveNothing
  BY PodInvSuffices DEF PodsLeaveNothing
<1>. QED
  BY <1>1, <1>2, <1>3, PTL DEF PartsSpec

(* Every variable of the nodes has its type.                               *)
THEOREM NodeTypes == PartsSpec => []S!TypeOK
<1>1. PartsInit => ServerInv
  BY ServerInvAtStart DEF PartsInit
<1>2. ServerInv /\ [PartsNext]_allVars => ServerInv'
  BY ServerInvKept, PartsStep
<1>3. ServerInv => S!TypeOK
  BY DEF ServerInv
<1>. QED
  BY <1>1, <1>2, <1>3, PTL DEF PartsSpec

(* Every variable of a pod has its type.                                   *)
THEOREM PodTypes == PartsSpec => []P!TypeOK
<1>1. PartsInit => PodInv
  BY PodInvAtStart DEF PartsInit
<1>2. PodInv /\ [PartsNext]_allVars => PodInv'
  BY PodInvKept, PartsStep
<1>3. PodInv => P!TypeOK
  BY DEF PodInv
<1>. QED
  BY <1>1, <1>2, <1>3, PTL DEF PartsSpec
=============================================================================

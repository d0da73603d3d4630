--------------------------- MODULE MCServerParts ---------------------------
(***************************************************************************)
(* Small instances of the parts of the server, for one run of TLC.         *)
(***************************************************************************)
EXTENDS ServerParts, TLC

CONSTANTS plain, dotted, p, q, team, u1, u2, n1, n2

(* The repository's etags are interchangeable.                             *)
Symmetry == Permutations(Etags)

(* The catalog: one plugin, versions 1 and 2, in the default source, that  *)
(* of a team and one in debugging.                                         *)
SmallCatalog ==
  {{[source |-> System, plugin |-> x, version |-> v, etag |-> e] : x \in Plugins, v \in Versions} :
     e \in Tagged}

(* Source directories: a tool or a set of two, one with a dot in its id;   *)
(* with and without logos, README and assets; two that do not build.       *)
LogoFile(of, image) == [dir |-> <<>>, name |-> "logo", of |-> of, image |-> image]
AssetFiles ==
  {[dir |-> dir, name |-> "picture", of |-> Root, image |-> image] :
     dir \in {<<"assets">>, <<"assets", "sub">>}, image \in BOOLEAN}
Directory(children, builds, roots, own, statics) ==
  [children |-> children, compiles |-> builds # "no", valid |-> builds = "yes",
   logos |-> {LogoFile(Root, i) : i \in roots} \cup {LogoFile(plain, i) : i \in own} \cup {LogoFile(dotted, TRUE)},
   readme |-> statics, assets |-> IF statics THEN AssetFiles ELSE {}]
SmallDirectories ==
  {Directory(children, "yes", roots, own, statics) :
     children \in {{}, Children}, roots \in {{}, {TRUE}, BOOLEAN}, own \in {{}, {TRUE}}, statics \in BOOLEAN}
  \cup {Directory({}, builds, {TRUE}, {}, FALSE) : builds \in {"no", "invalid"}}

(* Two uploads or installations: a zip of two plugins; and one plugin      *)
(* twice, once in a zip.                                                   *)
SmallBatches ==
  {<<[zip |-> TRUE, plugins |-> <<p, q>>]>>,
   <<[zip |-> FALSE, plugins |-> <<p>>], [zip |-> TRUE, plugins |-> <<p>>]>>}

(* An error with up to five causes.                                        *)
SmallMessages == <<"a", "b", "c", "d", "e", "f">>

(* Two releases of the server: the second brings a logo more.              *)
SmallLogos == [r \in Releases |-> [k \in StaticKinds |-> 1..r]]

(* A part of which the behaviour is not starts in one state.               *)
SmallInit ==
  /\ part \in Parts
  /\ Init
  /\ part # "repository" => \A x \in Places : inst[x] = "none" /\ record[x[2]] = "none"
  /\ P!Init
  /\ part # "pod" => stubborn = {}
  /\ C!Init
  /\ part # "catalog" => enabled
  /\ K!Init
  /\ part # "package" => source = Directory({}, "no", {TRUE}, {}, FALSE)
  /\ U!Init
  /\ <<pending, installed>> \in
       {<<{}, {}>>} \cup IF part = "upload" THEN {<<{<<System, p>>, <<System, q>>}, {<<team, p>>}>>} ELSE {}
  /\ F!Init /\ E!Init /\ S!Init

(* The second upload begins after the first, and only if nothing expires   *)
(* or is deleted.  n1 starts first, as the nodes are alike.                *)
SmallNext ==
  /\ PartsNext
  /\ uploadAt[u1] = "idle" \/ others' > 0 => uploadAt'[u2] = "idle"
  /\ release[n1] = None => serverAt'[n2] = "off"

SmallSpec == SmallInit /\ [][SmallNext]_allVars
=============================================================================

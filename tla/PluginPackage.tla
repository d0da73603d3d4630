--------------------------- MODULE PluginPackage ---------------------------
(***************************************************************************)
(* The way of a plugin from its source directory to the files the server   *)
(* stores: build, check and pack of the command line tool (build/index.ts, *)
(* check/index.ts, commands/pack.ts), which are separate programs over one *)
(* directory and may be interrupted, and the server's reading of the       *)
(* package (pkg-parser.ts, tool-loader.ts, createPlugin of plugin.repo.ts).*)
(*                                                                         *)
(* Abstracted: code and manifest (what matters is whether they are valid,  *)
(* and the children they declare), file content (an image or not), the     *)
(* extension of a name.  A directory without index.ts is refused before    *)
(* anything happens.  How an upload is stored, step by step, is module     *)
(* PluginRepo; the upload of several packages, PackageUpload.              *)
(***************************************************************************)
EXTENDS Integers, Sequences

CONSTANTS
  Children,  \* the ids of child tools
  Dotted,    \* those with a dot in them
  Root,      \* the tool itself
  Sources,   \* the source directories considered
  MaxEdits,  \* bound: changes of the directory
  None

VARIABLES
  source,    \* the source directory
  code,      \* the code that was bundled, while a build runs
  plan,      \* the logos to copy, while a build runs
  at,        \* what the build or pack that runs does next
  packing,   \* it is a pack
  dist,      \* the output directory: files, and the manifest among them
  pkg,       \* the .pkg file
  stored,    \* what the server has of it: icons, URL of the README, files
  edits,
  edited     \* history: the directory has changed since the build began

local == <<source, edits>>
building == <<code, plan, at, packing>>
vars == <<local, building, dist, pkg, stored, edited>>

Owners == Children \cup {Root}
File(dir, name, of, image) == [dir |-> dir, name |-> name, of |-> of, image |-> image]
Logo(of, image) == File(<<>>, "logo", of, image)
IndexJs == File(<<>>, "index.js", Root, FALSE)
Manifest == File(<<>>, "manifest.json", Root, FALSE)
Readme == File(<<>>, "README.md", Root, FALSE)

(* What a source directory holds: the children its code declares, whether  *)
(* the code can be built and loaded with a handler for each of them and a  *)
(* valid manifest, the logo files (at most one image and one other file    *)
(* for each name), README.md, and files under assets/.                     *)
Assets == {File(dir, "picture", Root, image) : dir \in {<<"assets">>, <<"assets", "sub">>}, image \in BOOLEAN}
Directories ==
  [children : SUBSET Children, compiles : BOOLEAN, valid : BOOLEAN,
   logos : SUBSET {Logo(o, image) : o \in Owners, image \in BOOLEAN},
   readme : BOOLEAN, assets : SUBSET Assets]

Empty == [files |-> {}, manifest |-> None]

Init ==
  /\ source \in Sources /\ edits = 0 /\ edited = FALSE
  /\ code = None /\ plan = {} /\ at = "idle" /\ packing = FALSE
  /\ dist = Empty /\ pkg = None /\ stored = None

-----------------------------------------------------------------------------
(* build: buildToolPackage                                                 *)

Stops == at' = "idle" /\ code' = None /\ plan' = {} /\ packing' = FALSE

Begin(isPack) ==
  /\ at = "idle"
  /\ at' = "bundle" /\ packing' = isPack /\ edited' = FALSE
  /\ UNCHANGED <<local, code, plan, dist, pkg, stored>>

BundleOver == \* mutant: the output directory is not emptied
  /\ at = "bundle"
  /\ IF source.compiles
     THEN /\ dist' = [files |-> dist.files \cup {IndexJs}, manifest |-> dist.manifest]
          /\ code' = [children |-> source.children, valid |-> source.valid]
          /\ at' = "plan"
          /\ UNCHANGED <<plan, packing>>
     ELSE UNCHANGED dist /\ Stops
  /\ UNCHANGED <<local, pkg, stored, edited>>

(* The source is copied aside, the output directory emptied, and index.js  *)
(* bundled into it.                                                        *)
Bundle ==
  /\ at = "bundle"
  /\ IF source.compiles
     THEN /\ dist' = [files |-> {IndexJs}, manifest |-> None]
          /\ code' = [children |-> source.children, valid |-> source.valid]
          /\ at' = "plan"
          /\ UNCHANGED <<plan, packing>>
     ELSE dist' = Empty /\ Stops
  /\ UNCHANGED <<local, pkg, stored, edited>>

(* findRootLogoFile, findChildLogoFile: any file of that name, of those    *)
(* there are now; a child without one has that of the tool.                *)
LogosOf(o) == {f \in source.logos : f.of = o}

(* createBuildPlan: the code is loaded, and the manifest written.          *)
MakePlan ==
  /\ at = "plan"
  /\ \/ /\ code.valid
        /\ \E icon \in LogosOf(Root), icons \in [code.children -> source.logos] :
             /\ \A c \in code.children :
                  icons[c] \in IF LogosOf(c) = {} THEN {icon} ELSE LogosOf(c)
             /\ dist' = [files |-> dist.files \cup {Manifest},
                         manifest |-> [icon |-> icon, children |-> icons]]
             /\ plan' = {icon} \cup {icons[c] : c \in code.children}
        /\ at' = "logos"
        /\ UNCHANGED <<code, packing>>
     \/ (~code.valid \/ LogosOf(Root) = {}) /\ UNCHANGED dist /\ Stops
  /\ UNCHANGED <<local, pkg, stored, edited>>

(* copyLogoFiles, all at once: one that is gone fails the build, and some  *)
(* of the others may be there.                                             *)
CopyLogos ==
  /\ at = "logos"
  /\ IF plan \subseteq source.logos
     THEN /\ dist' = [dist EXCEPT !.files = @ \cup plan]
          /\ at' = "statics"
          /\ UNCHANGED <<code, plan, packing>>
     ELSE /\ \E some \in SUBSET (plan \cap source.logos) : dist' = [dist EXCEPT !.files = @ \cup some]
          /\ Stops
  /\ UNCHANGED <<local, pkg, stored, edited>>

(* copyOptionalStaticFiles: README.md, and all of assets/.                 *)
CopyStatics ==
  /\ at = "statics"
  /\ dist' = [dist EXCEPT !.files = @ \cup source.assets \cup (IF source.readme THEN {Readme} ELSE {})]
  /\ IF packing THEN at' = "zip" /\ UNCHANGED <<code, plan, packing>> ELSE Stops
  /\ UNCHANGED <<local, pkg, stored, edited>>

-----------------------------------------------------------------------------
(* pack: a build, and zipDirectory of all files                            *)

Zip ==
  /\ at = "zip"
  /\ pkg' = [whole |-> TRUE, files |-> dist.files, manifest |-> dist.manifest]
  /\ Stops
  /\ UNCHANGED <<local, dist, stored, edited>>

(* The program is killed, and the file it writes is half written.          *)
Interrupt ==
  /\ at # "idle"
  /\ pkg' \in {pkg} \cup IF at = "zip" THEN {[whole |-> FALSE, files |-> {}, manifest |-> None]} ELSE {}
  /\ Stops
  /\ UNCHANGED <<local, dist, stored, edited>>

-----------------------------------------------------------------------------
(* The server: parsePkg, loadTool, createPlugin                            *)

(* Pictures right under assets/, and pictures of the root directory whose  *)
(* name is logo or some name without a dot and logo.  The rest is dropped. *)
IsAsset(f) == f.dir = <<"assets">> /\ f.image
IsLogoOfTool(f) == f.dir = <<>> /\ f.name = "logo" /\ f.of = Root /\ f.image \* mutant: no logos of children
IsLogo(f) == f.dir = <<>> /\ f.name = "logo" /\ f.of \notin Dotted /\ f.image

Accepts(output) == IndexJs \in output.files /\ Manifest \in output.files

IconsOf(manifest) == {manifest.icon} \cup {manifest.children[c] : c \in DOMAIN manifest.children}

(* An icon or README that is in the package becomes a URL, any other icon  *)
(* remains a name.                                                         *)
Icons(output) == IconsOf(output.manifest) \cap output.files

(* The file name of a parsed file is its path in the package, and that of  *)
(* an asset is put under assets/.                                          *)
StoredFile(f) == IF IsAsset(f) THEN [f EXCEPT !.dir = <<"assets">> \o f.dir] ELSE f

Upload ==
  /\ at = "idle" /\ pkg # None
  /\ stored' =
       IF pkg.whole /\ Accepts(pkg)
       THEN [icons |-> Icons(pkg), readme |-> Readme \in pkg.files,
             files |-> {StoredFile(f) : f \in {f \in pkg.files : IsAsset(f) \/ IsLogo(f) \/ f \in {IndexJs, Readme}}}]
       ELSE None
  /\ UNCHANGED <<local, building, dist, pkg, edited>>

-----------------------------------------------------------------------------
(* The author works on the directory, at any time.                         *)
Edit(s) ==
  /\ edits < MaxEdits /\ edits' = edits + 1
  /\ source' = s /\ edited' = TRUE
  /\ UNCHANGED <<building, dist, pkg, stored>>

Next ==
  \/ \E isPack \in BOOLEAN : Begin(isPack)
  \/ Bundle \/ MakePlan \/ CopyLogos \/ CopyStatics \/ Zip \/ Interrupt
  \/ Upload
  \/ \E s \in Sources : Edit(s)

Spec == Init /\ [][Next]_vars

-----------------------------------------------------------------------------
(* Properties                                                              *)

(* Every icon the server shows for a plugin has a file behind it, and its  *)
(* README too.  Excused: logos that are not images and those of a child    *)
(* whose id has a dot, which are dropped although check wants them.        *)
IconsResolve ==
  stored # None =>
    /\ {f \in stored.icons : f.image /\ f.of \notin Dotted} \subseteq stored.files
    /\ stored.readme => Readme \in stored.files

(* A package holds what the directory held, and nothing of former builds,  *)
(* unless the directory has changed while it was built.                    *)
PacksAreFresh ==
  [][pkg' # pkg /\ pkg'.whole /\ ~edited =>
       /\ pkg'.files \ source.logos = {IndexJs, Manifest} \cup source.assets \cup (IF source.readme THEN {Readme} ELSE {})
       /\ pkg'.files \cap source.logos = IconsOf(pkg'.manifest)
       /\ DOMAIN pkg'.manifest.children = source.children]_vars

(* An asset is stored under its path in the package.                       *)
AssetsKeepTheirPath ==
  stored # None => \A f \in stored.files : f.dir # <<>> => f \in Assets
=============================================================================

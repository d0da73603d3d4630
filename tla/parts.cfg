SPECIFICATION SmallSpec
SYMMETRY Symmetry
CONSTANTS
  Sources = {System, team}
  team = team
  Etags = {g1, g2}
  MaxCalls = 2
  None = None
  FileCalls = {c1, c2, c3}
  MaxFileFaults = 2
  MaxPrunes = 1
  System = System
  Installed = {team}
  Debugged = {dev}
  Plugins = {p1}
  Versions = {1, 2}
  PluginEtags = {e1, e2}
  Tools = {e1, e2}
  Tagged = {e1}
  Initially <- SmallCatalog
  MaxWrites = 2
  plain = plain
  dotted = dotted
  Children = {plain, dotted}
  Dotted = {dotted}
  Root = Root
  SourceDirectories <- SmallDirectories
  MaxEdits = 1
  u1 = u1
  u2 = u2
  p = p
  q = q
  UploadCalls = {u1, u2}
  UploadPlugins = {p, q}
  Batches <- SmallBatches
  MaxUploadFaults = 1
  MaxOthers = 1
  Messages <- SmallMessages
  n1 = n1
  n2 = n2
  Nodes = {n1, n2}
  Releases = {1, 2}
  StaticKinds = {models}
  Logos <- SmallLogos
  MaxStarts = 3
  MaxServerFaults = 1
  MaxActive = 2
CHECK_DEADLOCK FALSE
INVARIANTS
  LeavesConsistent
  OthersUndisturbed
  FailedConfirmRestores
  InstallationsAreBacked
  FilesStand
  AnswersAreCurrent
  FailuresAreTold
  ServesWhenReady
  PodsLeaveNothing
  IconsResolve
  Accounted
  UploadsStand
PROPERTIES
  PacksAreFresh

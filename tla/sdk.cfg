CONSTANTS
  Services = {s1, s2, s3}
  CanLink = TRUE
  Sdk = Sdk
  zod = zod
  lib = lib
  more = more
  Packages <- MCPackages
  Declared <- MCDeclared
  Installed <- MCInstalled
SPECIFICATION Spec
CHECK_DEADLOCK FALSE
INVARIANT ResolvableOnceEnsured

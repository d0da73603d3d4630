-------------------------- MODULE MCSdkDependency --------------------------
(* An instance of SdkDependency for TLC: the SDK declares zod, zod declares *)
(* lib, which can be resolved and declares zod, and more, which cannot.     *)
EXTENDS SdkDependency, TLC

CONSTANTS zod, lib, more

MCInstalled == {zod, lib}
MCPackages == {Sdk, zod, lib, more}
MCDeclared == Sdk :> {zod} @@ zod :> {lib, more} @@ lib :> {zod} @@ more :> {}
=============================================================================

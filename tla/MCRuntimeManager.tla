-------------------------- MODULE MCRuntimeManager --------------------------
(* Instances of RuntimeManager for TLC: nodes, versions of the plugin and  *)
(* calls are interchangeable.                                              *)
EXTENDS RuntimeManager, TLC

Symmetry == Permutations(Nodes) \cup Permutations(Runtimes) \cup Permutations(Calls)
=============================================================================

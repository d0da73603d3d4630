------------------------- MODULE MCDebugInvocation -------------------------
(* Instances of DebugInvocation for TLC: requests are interchangeable.     *)
EXTENDS DebugInvocation, TLC

Symmetry == Permutations(Requests)
=============================================================================

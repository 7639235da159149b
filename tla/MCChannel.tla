------------------------------ MODULE MCChannel ------------------------------
(* Channel for TLC: symmetry among calls that no constant tells apart.      *)
EXTENDS Channel, TLC

Plain == Rpcs \ (Confirms \cup Malformed)
Symmetry ==
  Permutations(Plain \cap Refusable) \cup Permutations(Plain \ Refusable)
==============================================================================

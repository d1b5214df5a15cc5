-------------------------------- MODULE MC_OAuth --------------------------------
(***************************************************************************)
(* Instance of OAuth for TLC.                                              *)
(***************************************************************************)
EXTENDS OAuth, TLC

Symmetry == Permutations(Codes) \cup Permutations(Pairs)
              \cup Permutations(Handlers) \cup Permutations(Variants)
================================================================================

---------------------------- MODULE MC_McpSessions ----------------------------
(***************************************************************************)
(* Instance of McpSessions for TLC.                                        *)
(***************************************************************************)
EXTENDS McpSessions, TLC

Symmetry == Permutations(Sessions) \cup Permutations(Requests)
              \cup Permutations(Users) \cup Permutations(Clients)
================================================================================

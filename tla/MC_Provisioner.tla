---------------------------- MODULE MC_Provisioner ----------------------------
(***************************************************************************)
(* Instance of Provisioner for TLC.                                        *)
(***************************************************************************)
EXTENDS Provisioner

\* Bound: once all requests are made, at most one command failed, crash or change of
\* the account in the behaviour; before the last one, as many as the constants allow.
FewDisturbances == NextRev > MaxRev => fails + crashes + toggles <= 1
=============================================================================

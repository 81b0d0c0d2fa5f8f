----------------------------- MODULE MCStateFile -----------------------------
(***************************************************************************)
(* Small instances of StateFile: two phases, two generated values, one or   *)
(* two sessions (the .cfg says which).                                      *)
(***************************************************************************)
EXTENDS StateFile
=============================================================================

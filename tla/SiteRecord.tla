----------------------------- MODULE SiteRecord -----------------------------
(***************************************************************************)
(* What akropolis promises of a site's record (state.py, module docstring): *)
(* every change is made whole or not at all, and a generated value is       *)
(* pinned once per cluster lifetime.  A lifetime ends when `akro clean`     *)
(* archives the record.  StateFile, with its temporary file, its cached     *)
(* copies and its crashes, is shown to implement this module.               *)
(***************************************************************************)
EXTENDS RecordData

VARIABLE rec  \* the record a command started now would work from

Init == rec = Fresh

Change == rec' \in Data /\ OneChange(rec, rec')

EndLifetime == rec' = Fresh

Next == Change \/ EndLifetime

Spec == Init /\ [][Next]_rec
=============================================================================

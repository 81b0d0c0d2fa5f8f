--------------------------- MODULE RestoredDatabase ---------------------------
(***************************************************************************)
(* What a restore promises (phases/restore_phase.py, module docstring, and  *)
(* phases/restore_single_phase.py): the database is swapped while nobody    *)
(* uses it, nothing else ever takes away what it holds, and the phase is    *)
(* recorded done only over the whole dump, migrated.  Between two swaps     *)
(* containers come and go, and whichever comes first migrates what it       *)
(* finds.  AuthentikService, with the nodes of a fleet, and SingleSite,     *)
(* with the containers of one node, are both shown to implement this module.*)
(***************************************************************************)

VARIABLES
  data,       \* "none", "gone" after a DROP, "void", "part" of the dump, the
              \* "loaded" dump, a blank "app", or the "restored" site
  swapping,   \* a restore has stopped the service and not begun to bring it back
  users,      \* somebody who was brought up or left up uses the database
  done        \* the restore phase is recorded done

Init ==
  /\ data \in {"none", "app"}
  /\ swapping = FALSE /\ users \in BOOLEAN /\ done = FALSE

\* The first start of PostgreSQL makes an empty database.
Created == data = "none" /\ ~swapping /\ data' = "void"

\* The service stops, starts, fails; a swap begins over a stopped one, or is over.
Serve ==
  /\ data' = data \/ Created
  /\ swapping' \in BOOLEAN /\ users' \in BOOLEAN /\ done' \in BOOLEAN
  /\ swapping' => ~users' /\ ~done'
  /\ done' => done

\* The swap goes on, or is cut short there and then, by a reboot that brings the
\* service up, say.
GoesOn ==
  /\ swapping' \in BOOLEAN /\ users' \in BOOLEAN
  /\ swapping' => ~users'
  /\ UNCHANGED done

\* DROP, and CREATE if it comes to that.
Drop ==
  /\ swapping /\ ~users /\ ~done
  /\ data' \in {"gone", "void"}
  /\ GoesOn

\* The dump goes into an empty database, or stops on the way.
Load ==
  /\ swapping /\ ~users /\ ~done
  /\ \/ data = "void" /\ data' = "loaded"
     \/ data' = "part"
  /\ GoesOn

Migrate ==
  /\ \/ data = "void" /\ data' = "app"
     \/ data = "loaded" /\ data' = "restored"
  /\ ~done
  /\ UNCHANGED <<swapping, users, done>>

Finish ==
  /\ data = "restored" /\ ~swapping
  /\ done' = TRUE
  /\ UNCHANGED <<data, swapping, users>>

Next == Serve \/ Drop \/ Load \/ Migrate \/ Finish

Spec == Init /\ [][Next]_<<data, swapping, users, done>>
=============================================================================

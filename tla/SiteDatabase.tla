----------------------------- MODULE SiteDatabase -----------------------------
(***************************************************************************)
(* What the patroni phase promises whoever comes after it                   *)
(* (phases/patroni_phase.py, module docstring and verify): however many     *)
(* nodes keep copies and wherever the primary is, the site has one          *)
(* database.  It is made once, on the bootstrap leader; it only gains; and  *)
(* the phase is recorded done only over one that has the application's role *)
(* and database.  A promotion of a node that had not replayed everything is *)
(* the one thing that takes anything away.  ClusterBootstrap, with its      *)
(* nodes, gates, clones and failovers, is shown to implement this module.   *)
(***************************************************************************)

CONSTANT Leader  \* the bootstrap leader

VARIABLES
  maker,      \* who initialised it; 0: nobody yet
  content,    \* what it holds, on one node or another
  lost,       \* a promotion has left something behind
  ready       \* the patroni phase is recorded done

Init == maker = 0 /\ content = {} /\ lost = FALSE /\ ready = FALSE

\* initdb, with nothing there before.
Make ==
  /\ maker = 0 /\ maker' = Leader
  /\ content = {} /\ content' = {"system"}
  /\ UNCHANGED <<lost, ready>>

\* CREATE ROLE, and CREATE DATABASE for an owner that is there.
Create(x) ==
  /\ maker = Leader /\ content # {}
  /\ x = "db" => "role" \in content
  /\ content' = content \cup {x}
  /\ UNCHANGED <<maker, lost, ready>>

Lose ==
  /\ maker = Leader
  /\ lost' = TRUE
  /\ UNCHANGED <<maker, content, ready>>

\* What is left takes the place of what was there.
Shrink ==
  /\ lost
  /\ content' \subseteq content /\ content' # {}
  /\ UNCHANGED <<maker, lost, ready>>

HandOver ==
  /\ {"role", "db"} \subseteq content
  /\ ready' = TRUE
  /\ UNCHANGED <<maker, content, lost>>

\* A replay, or an apply that failed over it.
TakeBack ==
  /\ ready' = FALSE
  /\ UNCHANGED <<maker, content, lost>>

Next == Make \/ (\E x \in {"role", "db"} : Create(x)) \/ Lose \/ Shrink \/ HandOver \/ TakeBack

Spec == Init /\ [][Next]_<<maker, content, lost, ready>>
=============================================================================

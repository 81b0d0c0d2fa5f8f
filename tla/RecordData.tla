----------------------------- MODULE RecordData ------------------------------
(***************************************************************************)
(* The content of a site's state file (state.py): a table of phase statuses *)
(* and a table of values generated once, with the two changes State makes.  *)
(***************************************************************************)
CONSTANTS
  Phases,     \* names a phase status is kept for
  Keys,       \* names of the generated-once values
  Values,     \* what a generator may return
  Unset       \* a key that has no value yet

ASSUME UnsetAssumption == Unset \notin Values

Statuses == {"pending", "applying", "done", "failed", "declined", "skipped", "started"}

Data == [phases: [Phases -> Statuses], generated: [Keys -> Values \union {Unset}]]

\* The record of a site that has no file: phase_status() answers "pending".
Fresh == [phases |-> [p \in Phases |-> "pending"], generated |-> [k \in Keys |-> Unset]]

\* mark_phase: a phase gets a status ...
Marked(d, p, s) == [d EXCEPT !.phases = [d.phases EXCEPT ![p] = s]]

\* ... get_or_generate: a key that had no value gets one.
Pinned(d, k, v) == [d EXCEPT !.generated = [d.generated EXCEPT ![k] = v]]

OneChange(d, e) ==
  \/ \E p \in Phases, s \in Statuses : e = Marked(d, p, s)
  \/ \E k \in Keys, v \in Values : d.generated[k] = Unset /\ e = Pinned(d, k, v)
=============================================================================

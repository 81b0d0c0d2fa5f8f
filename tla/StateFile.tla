------------------------------ MODULE StateFile ------------------------------
(***************************************************************************)
(* The state file of one site (state.py) and the akro sessions that use it. *)
(* A session reads the file once, when it starts, and from then on works on *)
(* its own copy; every change rewrites the whole copy to <site>.tmp and     *)
(* renames that over the file.  A session can die between any two of these  *)
(* steps.  Nothing locks the file, so two sessions of the operator may be   *)
(* open at once; they then share the one temporary name as well.            *)
(***************************************************************************)
EXTENDS RecordData

CONSTANTS
  Sessions,   \* akro processes that may be open on this site
  Missing,    \* the file does not exist
  Torn        \* the file holds a truncated or interleaved JSON text

VARIABLES
  disk,       \* content of <site>.json
  tmp,        \* content of <site>.tmp
  mem,        \* mem[s]: State.data of session s
  pc,         \* pc[s]: where session s is in State's methods
  handle,     \* handle[s]: the file that s's open handle now names
  handed      \* <<k, v>>: value v of key k was returned to a caller, which
              \* then writes it to the nodes (kept for one cluster lifetime)

vars == <<disk, tmp, mem, pc, handle, handed>>

File == Data \union {Missing, Torn}

ASSUME FileAssumption == Missing \notin Data /\ Torn \notin Data /\ Missing # Torn

\* closed: no process; ready: between two calls; opened: the temporary file
\* is truncated and being written; dumped: it is complete, not yet renamed
Steps == {"closed", "ready", "opened", "dumped"}

TypeOK ==
  /\ disk \in File
  /\ tmp \in File
  /\ mem \in [Sessions -> Data]
  /\ pc \in [Sessions -> Steps]
  /\ handle \in [Sessions -> {"none", "tmp", "disk", "gone"}]
  /\ handed \subseteq Keys \X Values

\* What State.__init__ reads: an absent file stands for an empty record.
DiskView == IF disk = Missing THEN Fresh ELSE disk

Init ==
  /\ disk = Missing
  /\ tmp = Missing
  /\ mem = [s \in Sessions |-> Fresh]
  /\ pc = [s \in Sessions |-> "closed"]
  /\ handle = [s \in Sessions |-> "none"]
  /\ handed = {}

-----------------------------------------------------------------------------

\* Mutant: what the file holds is not read.
Open_Afresh(s) ==
  /\ pc[s] = "closed" /\ disk # Torn
  /\ mem' = [mem EXCEPT ![s] = Fresh]
  /\ pc' = [pc EXCEPT ![s] = "ready"]
  /\ UNCHANGED <<disk, tmp, handle, handed>>

\* A torn file makes json.load raise: the command ends before it has a State.
Open(s) ==
  /\ pc[s] = "closed"
  /\ disk # Torn
  /\ mem' = [mem EXCEPT ![s] = DiskView]
  /\ pc' = [pc EXCEPT ![s] = "ready"]
  /\ UNCHANGED <<disk, tmp, handle, handed>>

\* save(), first part: open(tmp, "w") creates or truncates the one temporary
\* file.  d is the copy the caller has just changed.
BeginSave(s, d) ==
  /\ mem' = [mem EXCEPT ![s] = d]
  /\ tmp' = Torn
  /\ handle' = [handle EXCEPT ![s] = "tmp"]
  /\ pc' = [pc EXCEPT ![s] = "opened"]
  /\ UNCHANGED <<disk, handed>>

MarkPhase(s) ==
  /\ pc[s] = "ready"
  /\ \E p \in Phases, st \in Statuses : BeginSave(s, Marked(mem[s], p, st))

\* Mutant: the value is handed out without a save.
Generate_Unsaved(s) ==
  /\ pc[s] = "ready"
  /\ \E k \in Keys, v \in Values :
       /\ mem[s].generated[k] = Unset
       /\ mem' = [mem EXCEPT ![s] = Pinned(mem[s], k, v)]
  /\ UNCHANGED <<disk, tmp, pc, handle, handed>>

\* get_or_generate on a key that is not in the copy: generate, pin, save.
\* The caller gets the value once save() has returned (Return).
Generate(s) ==
  /\ pc[s] = "ready"
  /\ \E k \in Keys, v \in Values :
       /\ mem[s].generated[k] = Unset
       /\ BeginSave(s, Pinned(mem[s], k, v))

\* get_or_generate on a key that is in the copy returns it.
Return(s) ==
  /\ pc[s] = "ready"
  /\ \E k \in Keys :
       /\ mem[s].generated[k] # Unset
       /\ handed' = handed \union {<<k, mem[s].generated[k]>>}
  /\ UNCHANGED <<disk, tmp, mem, pc, handle>>

\* What s's open handle names; Torn when only s has truncated it so far.
Named(s) == IF handle[s] = "tmp" THEN tmp ELSE IF handle[s] = "disk" THEN disk ELSE Torn

\* save(), second part: json.dump and close.  A file that another session has
\* written to since s opened it may end up with a mixture of the two texts.
Dump(s) ==
  /\ pc[s] = "opened"
  /\ \E text \in {mem[s]} \union (IF Named(s) = Torn THEN {} ELSE {Torn}) :
       /\ tmp'  = IF handle[s] = "tmp" THEN text ELSE tmp
       /\ disk' = IF handle[s] = "disk" THEN text ELSE disk
  /\ pc' = [pc EXCEPT ![s] = "dumped"]
  /\ handle' = [handle EXCEPT ![s] = "none"]
  /\ UNCHANGED <<mem, handed>>

\* A rename of the temporary file over the state file, as open handles see it.
Moved(h) == [t \in Sessions |-> CASE h[t] = "tmp" -> "disk" [] h[t] = "disk" -> "gone"
                                   [] OTHER -> h[t]]

\* save(), third part: tmp.replace(path).  When another session has already
\* renamed the temporary file away, it raises and the process ends.
Rename(s) ==
  /\ pc[s] = "dumped"
  /\ handle' = IF tmp = Missing THEN handle ELSE Moved(handle)
  /\ disk' = IF tmp = Missing THEN disk ELSE tmp
  /\ tmp' = Missing
  /\ pc' = [pc EXCEPT ![s] = IF tmp = Missing THEN "closed" ELSE "ready"]
  /\ UNCHANGED <<mem, handed>>

\* `akro clean`: the file is renamed to its archive name, the copy starts over.
Archive(s) ==
  /\ pc[s] = "ready"
  /\ disk # Missing
  /\ disk' = Missing
  /\ mem' = [mem EXCEPT ![s] = Fresh]
  /\ handed' = {}
  /\ handle' = [t \in Sessions |-> IF handle[t] = "disk" THEN "gone" ELSE handle[t]]
  /\ UNCHANGED <<tmp, pc>>

\* The command ends, or is killed in the middle of a save.
Die(s) ==
  /\ pc[s] # "closed"
  /\ pc' = [pc EXCEPT ![s] = "closed"]
  /\ handle' = [handle EXCEPT ![s] = "none"]
  /\ UNCHANGED <<disk, tmp, mem, handed>>

Next == \E s \in Sessions :
  Open(s) \/ MarkPhase(s) \/ Generate(s) \/ Return(s) \/ Dump(s) \/ Rename(s)
    \/ Archive(s) \/ Die(s)

Spec == Init /\ [][Next]_vars

-----------------------------------------------------------------------------

OneSession == \A s, t \in Sessions : s = t

\* "pins values that must be generated exactly once per cluster lifetime"
\* (state.py:4): no caller is ever given a second value for a key.
PinnedOnce == \A a, b \in handed : a[1] = b[1] => a[2] = b[2]

\* The file is never half written, because save() writes beside it and renames;
\* and a value that a phase has put on the nodes survives whatever happens to
\* the session: the file holds that very value, after a crash at any point.
HandedIsDurable ==
  /\ disk # Torn
  /\ \A h \in handed : DiskView.generated[h[1]] = h[2]

\* Seen from the next command, the file changes as the abstract record does.
Record == INSTANCE SiteRecord WITH rec <- DiskView
ImplementsRecord == Record!Spec
=============================================================================

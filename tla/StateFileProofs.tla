--------------------------- MODULE StateFileProofs ---------------------------
(***************************************************************************)
(* With one session at a time the state file is a durable record: what a    *)
(* phase was given is on disk for good, and the file changes exactly as     *)
(* SiteRecord says.  The argument is one inductive invariant: a session's   *)
(* copy is the file, or one legal change ahead of it while it is saving.    *)
(***************************************************************************)
EXTENDS StateFile, TLAPS

\* The relation between one session's copy, the temporary file and the file.
InStep(s) ==
  /\ pc[s] = "ready" => mem[s] = DiskView
  /\ pc[s] \in {"opened", "dumped"} => OneChange(DiskView, mem[s])
  /\ pc[s] = "opened" => tmp = Torn
  /\ pc[s] = "dumped" => tmp = mem[s]
  /\ handle[s] = IF pc[s] = "opened" THEN "tmp" ELSE "none"

IInv ==
  /\ TypeOK
  /\ HandedIsDurable
  /\ \A s \in Sessions : InStep(s)

-----------------------------------------------------------------------------

\* mark_phase and get_or_generate keep a record a record.
LEMMA ChangeIsData ==
  ASSUME NEW d \in Data, NEW e, OneChange(d, e)
  PROVE  /\ e \in Data
         /\ \A k \in Keys : d.generated[k] # Unset => e.generated[k] = d.generated[k]
<1>1. CASE \E p \in Phases, s \in Statuses : e = Marked(d, p, s)
  BY <1>1 DEF Data, Marked
<1>2. CASE \E k \in Keys, v \in Values : d.generated[k] = Unset /\ e = Pinned(d, k, v)
  BY <1>2 DEF Data, Pinned
<1>3. QED
  BY <1>1, <1>2 DEF OneChange

LEMMA FreshIsData == Fresh \in Data
  BY DEF Fresh, Data, Statuses

\* What a new command would load is a record whenever the file is not torn.
LEMMA ViewIsData ==
  ASSUME disk \in File, disk # Torn
  PROVE  DiskView \in Data
  BY FreshIsData DEF File, DiskView

LEMMA InitInv == Init => IInv
<1> SUFFICES ASSUME Init PROVE IInv
  OBVIOUS
<1>1. TypeOK
  BY FreshIsData DEF Init, TypeOK, File, Steps
<1>2. HandedIsDurable
  BY FileAssumption DEF Init, HandedIsDurable
<1>3. \A s \in Sessions : InStep(s)
  BY DEF Init, InStep
<1>4. QED
  BY <1>1, <1>2, <1>3 DEF IInv

-----------------------------------------------------------------------------

\* Starting a save: the copy is one change ahead, the file is as it was.
LEMMA BeginSaveInv ==
  ASSUME OneSession, IInv, NEW s \in Sessions, NEW d,
         pc[s] = "ready", OneChange(mem[s], d), BeginSave(s, d)
  PROVE  IInv' /\ DiskView' = DiskView
<1>1. mem[s] \in Data /\ mem[s] = DiskView
  BY DEF IInv, TypeOK, InStep
<1>2. d \in Data
  BY <1>1, ChangeIsData
<1>3. DiskView' = DiskView
  BY DEF BeginSave, DiskView
<1>4. TypeOK'
  BY <1>2 DEF IInv, TypeOK, BeginSave, File, Steps
<1>5. HandedIsDurable'
  BY <1>3 DEF IInv, HandedIsDurable, BeginSave
<1>6. ASSUME NEW t \in Sessions PROVE InStep(t)'
  <2>1. t = s
    BY DEF OneSession
  <2>2. mem'[s] = d /\ pc'[s] = "opened" /\ handle'[s] = "tmp" /\ tmp' = Torn
    BY DEF IInv, TypeOK, BeginSave
  <2>3. QED
    BY <1>1, <1>3, <2>1, <2>2 DEF InStep
<1>7. QED
  BY <1>3, <1>4, <1>5, <1>6 DEF IInv

LEMMA StepInv == ASSUME OneSession, IInv, [Next]_vars PROVE IInv'
<1> USE DEF IInv
<1>1. ASSUME NEW s \in Sessions, Open(s) PROVE IInv'
  <2>1. DiskView \in Data /\ DiskView' = DiskView
    BY <1>1, ViewIsData DEF Open, TypeOK, DiskView
  <2>2. TypeOK'
    BY <1>1, <2>1 DEF Open, TypeOK, Steps
  <2>3. HandedIsDurable'
    BY <1>1, <2>1 DEF Open, HandedIsDurable
  <2>4. ASSUME NEW t \in Sessions PROVE InStep(t)'
    <3>1. mem'[t] = DiskView /\ pc'[t] = "ready" /\ handle'[t] = "none"
      BY <1>1 DEF Open, TypeOK, OneSession, InStep
    <3>2. QED
      BY <2>1, <3>1 DEF InStep
  <2>5. QED
    BY <2>2, <2>3, <2>4
<1>2. ASSUME NEW s \in Sessions, MarkPhase(s) PROVE IInv'
  <2>1. PICK p \in Phases, st \in Statuses : BeginSave(s, Marked(mem[s], p, st))
    BY <1>2 DEF MarkPhase
  <2>2. OneChange(mem[s], Marked(mem[s], p, st))
    BY DEF OneChange
  <2>3. QED
    BY <1>2, <2>1, <2>2, BeginSaveInv DEF MarkPhase
<1>3. ASSUME NEW s \in Sessions, Generate(s) PROVE IInv'
  <2>1. PICK k \in Keys, v \in Values :
          mem[s].generated[k] = Unset /\ BeginSave(s, Pinned(mem[s], k, v))
    BY <1>3 DEF Generate
  <2>2. OneChange(mem[s], Pinned(mem[s], k, v))
    BY <2>1 DEF OneChange
  <2>3. QED
    BY <1>3, <2>1, <2>2, BeginSaveInv DEF Generate
<1>4. ASSUME NEW s \in Sessions, Return(s) PROVE IInv'
  <2>1. mem[s] \in Data /\ mem[s] = DiskView
    BY <1>4 DEF Return, TypeOK, InStep
  <2>2. PICK k \in Keys : /\ DiskView.generated[k] \in Values
                          /\ handed' = handed \union {<<k, DiskView.generated[k]>>}
    BY <1>4, <2>1 DEF Return, Data
  <2>3. DiskView' = DiskView
    BY <1>4 DEF Return, DiskView
  <2>4. TypeOK'
    BY <1>4, <2>2 DEF Return, TypeOK
  <2>5. HandedIsDurable'
    BY <1>4, <2>2, <2>3 DEF Return, HandedIsDurable
  <2>6. \A t \in Sessions : InStep(t)'
    BY <1>4, <2>3 DEF Return, InStep
  <2>7. QED
    BY <2>4, <2>5, <2>6
<1>5. ASSUME NEW s \in Sessions, Dump(s) PROVE IInv'
  <2>1. mem[s] \in Data /\ handle[s] = "tmp" /\ tmp = Torn /\ OneChange(DiskView, mem[s])
    BY <1>5 DEF Dump, TypeOK, InStep
  <2>2. disk' = disk /\ tmp' = mem[s]
    BY <1>5, <2>1 DEF Dump, Named
  <2>3. DiskView' = DiskView
    BY <2>2 DEF DiskView
  <2>4. TypeOK'
    BY <1>5, <2>1, <2>2 DEF Dump, TypeOK, File, Steps
  <2>5. HandedIsDurable'
    BY <1>5, <2>2, <2>3 DEF Dump, HandedIsDurable
  <2>6. ASSUME NEW t \in Sessions PROVE InStep(t)'
    <3>1. mem'[t] = mem[s] /\ pc'[t] = "dumped" /\ handle'[t] = "none"
      BY <1>5 DEF Dump, TypeOK, OneSession
    <3>2. QED
      BY <2>1, <2>2, <2>3, <3>1 DEF InStep
  <2>7. QED
    BY <2>4, <2>5, <2>6
<1>6. ASSUME NEW s \in Sessions, Rename(s) PROVE IInv'
  <2>1. OneChange(DiskView, mem[s]) /\ tmp = mem[s] /\ DiskView \in Data /\ mem[s] \in Data
    BY <1>6, ViewIsData DEF Rename, InStep, TypeOK, HandedIsDurable
  <2>2. disk' = mem[s] /\ DiskView' = mem[s] /\ disk' # Torn
    BY <1>6, <2>1, FileAssumption DEF Rename, DiskView
  <2>3. /\ handle' = Moved(handle) /\ pc' = [pc EXCEPT ![s] = "ready"]
        /\ tmp' = Missing /\ mem' = mem /\ handed' = handed
    BY <1>6, <2>1, FileAssumption DEF Rename
  <2>4. handle[s] = "none" /\ handle'[s] = "none"
    BY <1>6, <2>3 DEF Rename, InStep, Moved
  <2>5. TypeOK'
    BY <2>1, <2>2, <2>3 DEF TypeOK, File, Steps, Moved
  <2>6. HandedIsDurable'
    <3>1. SUFFICES ASSUME NEW h \in handed
                   PROVE  mem[s].generated[h[1]] = h[2]
      BY <2>2, <2>3 DEF HandedIsDurable
    <3>2. h[1] \in Keys /\ h[2] \in Values /\ DiskView.generated[h[1]] = h[2]
      BY DEF TypeOK, HandedIsDurable
    <3>3. QED
      BY <2>1, <3>2, ChangeIsData, UnsetAssumption
  <2>7. ASSUME NEW t \in Sessions PROVE InStep(t)'
    <3>1. mem'[t] = mem[s] /\ pc'[t] = "ready" /\ handle'[t] = "none"
      BY <2>3, <2>4 DEF TypeOK, OneSession
    <3>2. QED
      BY <2>2, <3>1 DEF InStep
  <2>8. QED
    BY <2>5, <2>6, <2>7
<1>7. ASSUME NEW s \in Sessions, Archive(s) PROVE IInv'
  <2>1. DiskView' = Fresh /\ disk' = Missing
    BY <1>7 DEF Archive, DiskView
  <2>2. TypeOK'
    BY <1>7, FreshIsData DEF Archive, TypeOK, File
  <2>3. HandedIsDurable'
    BY <1>7, <2>1, FileAssumption DEF Archive, HandedIsDurable
  <2>4. ASSUME NEW t \in Sessions PROVE InStep(t)'
    <3>1. mem'[t] = Fresh /\ pc'[t] = "ready" /\ handle'[t] = "none"
      BY <1>7 DEF Archive, TypeOK, OneSession, InStep
    <3>2. QED
      BY <2>1, <3>1 DEF InStep
  <2>5. QED
    BY <2>2, <2>3, <2>4
<1>8. ASSUME NEW s \in Sessions, Die(s) PROVE IInv'
  <2>1. DiskView' = DiskView
    BY <1>8 DEF Die, DiskView
  <2>2. TypeOK'
    BY <1>8 DEF Die, TypeOK, Steps
  <2>3. HandedIsDurable'
    BY <1>8, <2>1 DEF Die, HandedIsDurable
  <2>4. ASSUME NEW t \in Sessions PROVE InStep(t)'
    <3>1. pc'[t] = "closed" /\ handle'[t] = "none"
      BY <1>8 DEF Die, TypeOK, OneSession
    <3>2. QED
      BY <3>1 DEF InStep
  <2>5. QED
    BY <2>2, <2>3, <2>4
<1>9. CASE UNCHANGED vars
  BY <1>9 DEF vars, TypeOK, HandedIsDurable, InStep, DiskView
<1>10. QED
  BY <1>1, <1>2, <1>3, <1>4, <1>5, <1>6, <1>7, <1>8, <1>9 DEF Next

-----------------------------------------------------------------------------

\* The invariant of the argument, for any sets of phases, keys and values.
THEOREM Invariance == OneSession => (Spec => []IInv)
<1> SUFFICES ASSUME OneSession PROVE Spec => []IInv
  OBVIOUS
<1>1. Init => IInv
  BY InitInv
<1>2. IInv /\ [Next]_vars => IInv'
  BY StepInv
<1>3. QED
  BY <1>1, <1>2, PTL DEF Spec

\* The variables keep their types (state.py: what State.data and its file hold).
THEOREM TypeCorrect == OneSession => (Spec => []TypeOK)
<1>1. IInv => TypeOK
  BY DEF IInv
<1>2. QED
  BY <1>1, Invariance, PTL

\* State.save and get_or_generate: whatever a phase was given is on disk, and
\* the file is whole, after any number of sessions killed at any step.
THEOREM Durable == OneSession => (Spec => []HandedIsDurable)
<1>1. IInv => HandedIsDurable
  BY DEF IInv
<1>2. QED
  BY <1>1, Invariance, PTL

\* The abstract module's records and changes are those of the state file.
LEMMA SameRecords ==
  /\ Record!Fresh = Fresh
  /\ Record!Data = Data
  /\ \A d, e : Record!OneChange(d, e) <=> OneChange(d, e)
  BY DEF Record!Fresh, Fresh, Record!Data, Data, Record!Statuses, Statuses,
         Record!OneChange, OneChange, Record!Marked, Marked, Record!Pinned, Pinned

\* Every step of the file is a step of the abstract record or leaves it alone.
LEMMA StepSimulates ==
  ASSUME OneSession, IInv, IInv', [Next]_vars
  PROVE  [Record!Next]_DiskView
<1>1. ASSUME NEW s \in Sessions,
             Open(s) \/ MarkPhase(s) \/ Generate(s) \/ Return(s) \/ Die(s)
      PROVE  DiskView' = DiskView
  BY <1>1 DEF Open, MarkPhase, Generate, BeginSave, Return, Die, DiskView
<1>2. ASSUME NEW s \in Sessions, Dump(s) PROVE DiskView' = DiskView
  BY <1>2 DEF Dump, IInv, InStep, DiskView
<1>3. ASSUME NEW s \in Sessions, Rename(s) PROVE Record!Change
  <2>1. OneChange(DiskView, mem[s]) /\ tmp = mem[s] /\ mem[s] \in Data
    BY <1>3 DEF Rename, IInv, InStep, TypeOK
  <2>2. DiskView' = mem[s]
    BY <1>3, <2>1, FileAssumption DEF Rename, DiskView
  <2>3. QED
    BY <2>1, <2>2, SameRecords DEF Record!Change
<1>4. ASSUME NEW s \in Sessions, Archive(s) PROVE Record!EndLifetime
  BY <1>4, SameRecords DEF Archive, DiskView, Record!EndLifetime
<1>5. CASE UNCHANGED vars
  BY <1>5 DEF vars, DiskView
<1>6. QED
  BY <1>1, <1>2, <1>3, <1>4, <1>5 DEF Next, Record!Next

\* With one session at a time, the state file implements the site's record:
\* each change of it is whole, and a pinned value is never pinned again.
THEOREM Implements == OneSession => (Spec => ImplementsRecord)
<1> SUFFICES ASSUME OneSession PROVE Spec => ImplementsRecord
  OBVIOUS
<1>1. Init => Record!Init
  BY SameRecords DEF Init, DiskView, Record!Init
<1>2. IInv /\ IInv' /\ [Next]_vars => [Record!Next]_DiskView
  BY StepSimulates
<1>3. QED
  BY <1>1, <1>2, Invariance, PTL DEF Spec, ImplementsRecord, Record!Spec
=============================================================================

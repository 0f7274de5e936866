------------------------ MODULE StagedReviewProofs ------------------------
(***************************************************************************)
(* Theorems about StagedReview for every vault, every set of contents and  *)
(* any number of sessions, flows, proposals, edits and restarts.           *)
(***************************************************************************)
EXTENDS StagedReview, TLAPS

-----------------------------------------------------------------------------
(* Lemmas about the functions on records *)

(* What buildStagedChange returns is a well-formed record.                  *)
LEMMA BuildIsWellFormed ==
  ASSUME NEW command \in Commands, NEW op \in OperationKinds, NEW target \in Paths,
         NEW dest \in Paths \cup {NoPath}, NEW proposed \in Contents,
         NEW notes \in Vaults, NEW records, NEW now \in Nat,
         op = "move-note" <=> dest # NoPath
  PROVE  LET r == Build(command, op, target, dest, proposed, notes, records, now)
         IN  r \in StagedChanges /\ WellFormed(r)
<1> DEFINE blocked == BlockedAtBuild(op, target, dest, notes, records)
           after == After(op, notes[target], proposed)
           r == Build(command, op, target, dest, proposed, notes, records, now)
<1>1. blocked \in BOOLEAN
  BY DEF BlockedAtBuild, HasActiveDuplicate
<1>2. notes[target] \in MaybeContents
  BY DEF Vaults
<1>3. after \in MaybeContents
  BY <1>2 DEF After, MaybeContents
<1>4. Stamp(after, now) \in Nat
  BY DEF Stamp
<1> HIDE DEF blocked, after
<1>5. r = [command |-> command, op |-> op, target |-> target, dest |-> dest,
           before |-> notes[target], after |-> after, stamp |-> Stamp(after, now),
           status |-> IF blocked THEN "conflicted" ELSE "review-ready",
           blocked |-> blocked]
  BY DEF Build, blocked, after
<1>6. r \in StagedChanges
  BY <1>1, <1>2, <1>3, <1>4, <1>5 DEF StagedChanges, Statuses, ActiveStatuses
<1>7. WellFormed(r)
  BY <1>1, <1>5 DEF WellFormed
<1> QED
  BY <1>6, <1>7

(* Ids of typed records are typed.                                          *)
LEMMA ChangeIdType ==
  ASSUME NEW r \in StagedChanges
  PROVE  ChangeId(r) \in ChangeIdValues
<1>1. /\ r.op \in OperationKinds /\ r.target \in Paths /\ r.dest \in Paths \cup {NoPath}
      /\ r.command \in Commands /\ r.after \in MaybeContents /\ r.stamp \in Nat
  BY DEF StagedChanges
<1>2. PathSegment[r.target] \in Segments
  BY <1>1, SegmentsOfPaths
<1>3. DestSegment(r.dest) \in ShortSegments \cup {NoPath}
  BY <1>1, SegmentsOfPaths DEF DestSegment
<1> QED
  BY <1>1, <1>2, <1>3 DEF ChangeId, ChangeIdValues

(* Every transition keeps a record's type.                                  *)
LEMMA TransitionsType ==
  ASSUME NEW r \in StagedChanges
  PROVE  /\ MarkConflicted(r) \in StagedChanges
         /\ Approved(r) \in StagedChanges
         /\ Rejected(r) \in StagedChanges
         /\ Dismissed(r) \in StagedChanges
         /\ Retried(r) \in StagedChanges
         /\ Applied(r) \in StagedChanges
         /\ Failed(r) \in StagedChanges
BY DEF StagedChanges, Statuses, ActiveStatuses, MarkConflicted, Approved, Rejected,
       Dismissed, Retried, Applied, Failed, WithStatus

(* Review keeps a record well formed.                                       *)
LEMMA ReviewKeepsWellFormed ==
  ASSUME NEW r \in StagedChanges, WellFormed(r)
  PROVE  /\ WellFormed(MarkConflicted(r))
         /\ WellFormed(Approved(r))
         /\ WellFormed(Rejected(r))
         /\ WellFormed(Dismissed(r))
         /\ WellFormed(Retried(r))
         /\ WellFormed(Failed(r))
BY DEF StagedChanges, WellFormed, MarkConflicted, Approved, Rejected, Dismissed,
       Retried, Failed, WithStatus

(* Only a record that may be applied has to stay well formed when it is.    *)
LEMMA AppliedIsWellFormed ==
  ASSUME NEW r \in StagedChanges, WellFormed(r), r.status \in ApplyableStatuses
  PROVE  WellFormed(Applied(r))
BY DEF StagedChanges, WellFormed, Applied, WithStatus, ApplyableStatuses

(* Updating a list by id only brings in the records given.                  *)
LEMMA ReplaceByIdFrom ==
  ASSUME NEW records, NEW changed
  PROVE  ReplaceById(records, changed) \subseteq records \cup changed
BY DEF ReplaceById

(* The checks look at the record's own paths and at nothing else.           *)
LEMMA PreflightIsLocal ==
  ASSUME NEW r \in StagedChanges, WellFormed(r), NEW v, NEW w,
         \A p \in PathsOf(r) : v[p] = w[p]
  PROVE  PreflightOk(r, v) <=> PreflightOk(r, w)
<1>1. v[r.target] = w[r.target]
  BY DEF PathsOf
<1>2. CASE r.op = "move-note"
  <2>1. r.dest \in PathsOf(r)
    BY <1>2 DEF WellFormed, StagedChanges, PathsOf
  <2> QED
    BY <1>1, <2>1 DEF PreflightOk
<1>3. CASE r.op # "move-note"
  BY <1>1, <1>3 DEF PreflightOk
<1> QED
  BY <1>2, <1>3

(* A write changes the record's own paths and no other.                     *)
LEMMA EffectIsLocal ==
  ASSUME NEW r \in StagedChanges, NEW v \in Vaults
  PROVE  /\ Effect(r, v) \in Vaults
         /\ \A p \in Paths : p \notin PathsOf(r) => Effect(r, v)[p] = v[p]
<1>1. r.target \in Paths /\ r.after \in MaybeContents
  BY DEF StagedChanges
<1>2. \A p \in Paths : v[p] \in MaybeContents
  BY DEF Vaults
<1>3. Absent \in MaybeContents
  BY DEF MaybeContents
<1>4. \A p \in Paths : Effect(r, v)[p] \in MaybeContents
  BY <1>1, <1>2, <1>3 DEF Effect
<1>5. \A p \in Paths : p \notin PathsOf(r) => Effect(r, v)[p] = v[p]
  BY DEF Effect, PathsOf
<1> QED
  BY <1>4, <1>5 DEF Effect, Vaults

-----------------------------------------------------------------------------
(* Type correctness *)

USE DEF Busy

(* A session that is not running has a typed plan.                         *)
LEMMA NoPlanType == NoPlan \in Plans
BY DEF NoPlan, Plans

(* A flow that is not running is typed and has built nothing.              *)
LEMMA NoFlowType == NoFlow \in FlowStates /\ NoFlow.artifacts = {}
BY DEF NoFlow, NoNotes, FlowStates, Vaults, MaybeContents

(* A list updated with typed records is typed.                              *)
LEMMA UpdateListType ==
  ASSUME TypeOK, NEW m \in Sessions, NEW changed \in SUBSET StagedChanges,
         UpdateList(m, changed)
  PROVE  staged' \subseteq StagedChanges
BY ReplaceByIdFrom DEF UpdateList, TypeOK

(* What a step may do to a plan keeps its type, if what it adds is typed.   *)
LEMMA PlanUpdateType ==
  ASSUME NEW pl \in Plans, NEW todo \in SUBSET StagedChanges,
         NEW conflicted \in SUBSET StagedChanges, NEW pending \in SUBSET Entries,
         NEW open \in SUBSET Entries, NEW done \in SUBSET Entries,
         NEW failed \in SUBSET Entries
  PROVE  /\ [pl EXCEPT !.todo = todo, !.pending = pending] \in Plans
         /\ [pl EXCEPT !.todo = todo, !.conflicted = conflicted] \in Plans
         /\ [pl EXCEPT !.pending = pending, !.open = open] \in Plans
         /\ [pl EXCEPT !.pending = pending, !.open = open, !.done = done] \in Plans
         /\ [pl EXCEPT !.pending = pending, !.open = open, !.failed = failed] \in Plans
         /\ [pl EXCEPT !.pc = "executing"] \in Plans
         /\ [pl EXCEPT !.orphan = TRUE] \in Plans
BY DEF Plans

(* The initial state is typed.                                              *)
LEMMA TypeInit == Init => TypeOK
BY InitialVaultsAreVaults, NoPlanType, NoFlowType DEF Init, TypeOK

(* A review action that writes back typed records keeps the type.           *)
LEMMA ReviewType ==
  ASSUME TypeOK, NEW selected \in SUBSET staged, NEW changed \in SUBSET StagedChanges,
         Review(selected, changed)
  PROVE  TypeOK'
<1>1. staged' \subseteq StagedChanges
  BY ReplaceByIdFrom DEF Review, TypeOK
<1> QED
  BY <1>1 DEF Review, TypeOK

(* A user edit keeps the type.                                              *)
LEMMA UserEditType ==
  ASSUME TypeOK, NEW p \in Paths, NEW content \in MaybeContents, UserEdit(p, content)
  PROVE  TypeOK'
<1>1. vault' \in Vaults
  BY DEF UserEdit, TypeOK, Vaults
<1>2. touched' \in [Sessions -> SUBSET (Paths \cup ChangeIdValues)]
  BY DEF UserEdit, MarkTouched, TypeOK
<1>3. edits' \in Nat
  BY DEF UserEdit, TypeOK
<1> QED
  BY <1>1, <1>2, <1>3 DEF UserEdit, TypeOK

(* A staging flow holds notes and the artifacts built so far, both typed.   *)
LEMMA FlowUpdateType ==
  ASSUME NEW fl \in FlowStates, NEW notes \in Vaults,
         NEW artifacts \in SUBSET StagedChanges
  PROVE  /\ [fl EXCEPT !.artifacts = artifacts] \in FlowStates
         /\ [fl EXCEPT !.pc = "staging", !.notes = notes] \in FlowStates
BY DEF FlowStates

(* What a flow proposes from are notes, with or without their contents.     *)
LEMMA NotesType ==
  ASSUME NEW notes \in Vaults, NEW op
  PROVE  Placeholders(notes) \in Vaults /\ NotesFor(op, notes) \in Vaults
BY EmptyIsContent DEF Vaults, Placeholders, NotesFor, MaybeContents

(* What a flow builds is typed and well formed.                             *)
LEMMA StagedIsGood ==
  ASSUME TypeOK, NEW f \in Flows, NEW command \in Commands, NEW op \in Operations,
         NEW target \in Paths, NEW dest \in Paths \cup {NoPath},
         NEW proposed \in Contents, NEW records, NEW now \in Nat,
         op = "move-note" <=> dest # NoPath
  PROVE  LET r == Build(command, op, target, dest, proposed,
                        NotesFor(op, flow[f].notes), records, now)
         IN  r \in StagedChanges /\ WellFormed(r)
<1>1. flow[f].notes \in Vaults
  BY DEF TypeOK, FlowStates
<1>2. NotesFor(op, flow[f].notes) \in Vaults
  BY <1>1, NotesType
<1> QED
  BY <1>2, BuildIsWellFormed, OperationsAreKinds DEF TypeOK

(* So is a note that source ingestion proposes.                             *)
LEMMA ArtifactIsGood ==
  ASSUME TypeOK, NEW f \in Flows, NEW command \in Commands, NEW target \in Paths,
         NEW proposed \in Contents, NEW records
  PROVE  LET r == Build(command, "create-note", target, NoPath, proposed,
                        Placeholders(flow[f].notes), records, minute)
         IN  r \in StagedChanges /\ WellFormed(r)
<1>1. Placeholders(flow[f].notes) \in Vaults
  BY NotesType DEF TypeOK, FlowStates
<1>2. "create-note" \in OperationKinds
  BY DEF OperationKinds
<1> QED
  BY <1>1, <1>2, BuildIsWellFormed DEF TypeOK

(* Every step of a flow keeps the type.                                     *)
LEMMA FlowStepType ==
  ASSUME TypeOK, NEW f \in Flows, FlowStep(f)
  PROVE  TypeOK'
<1> USE NoFlowType
<1>1. CASE ReadNotes(f)
  <2>1. flow' \in [Flows -> FlowStates]
    BY <1>1, FlowUpdateType DEF ReadNotes, TypeOK
  <2> QED
    BY <1>1, <2>1 DEF ReadNotes, TypeOK
<1>2. ASSUME NEW command \in Commands, NEW op \in Operations, NEW target \in Paths,
             NEW dest \in Paths \cup {NoPath}, NEW proposed \in Proposals(op),
             StageChange(f, command, op, target, dest, proposed)
      PROVE  TypeOK'
  <2>1. proposed \in Contents
    BY EmptyIsContent DEF Proposals
  <2>0. minute' \in Nat
    BY <1>2 DEF StageChange, Minutes, TypeOK
  <2>2. staged' \subseteq StagedChanges
    <3> DEFINE r == Build(command, op, target, dest, proposed,
                          NotesFor(op, flow[f].notes), staged, minute')
    <3>1. op = "move-note" <=> dest # NoPath
      BY <1>2 DEF StageChange
    <3>2. r \in StagedChanges
      BY <2>0, <2>1, <3>1, StagedIsGood
    <3>3. staged' = staged \cup {r}
      BY <1>2 DEF StageChange
    <3> HIDE DEF r
    <3> QED
      BY <3>2, <3>3 DEF TypeOK
  <2>3. flow' \in [Flows -> FlowStates] /\ clock' \in Nat
    BY <1>2 DEF StageChange, TypeOK
  <2> QED
    BY <1>2, <2>0, <2>2, <2>3 DEF StageChange, TypeOK
<1>3. ASSUME NEW command \in Commands, NEW target \in Paths, NEW proposed \in Contents,
             BuildArtifact(f, command, target, proposed)
      PROVE  TypeOK'
  <2> DEFINE r == Build(command, "create-note", target, NoPath, proposed,
                        Placeholders(flow[f].notes), staged \cup flow[f].artifacts, minute)
             fl == [flow[f] EXCEPT !.artifacts = @ \cup {r}]
  <2>1. r \in StagedChanges
    BY ArtifactIsGood
  <2> HIDE DEF r
  <2>2. flow[f] \in FlowStates /\ flow[f].artifacts \subseteq StagedChanges
    BY DEF TypeOK, FlowStates
  <2>3. fl \in FlowStates
    BY <2>1, <2>2, FlowUpdateType DEF FlowStates
  <2>4. flow' = [flow EXCEPT ![f] = fl]
    BY <1>3 DEF BuildArtifact, r, TypeOK
  <2> HIDE DEF fl
  <2>5. flow' \in [Flows -> FlowStates]
    BY <2>3, <2>4 DEF TypeOK
  <2>6. clock' \in Nat
    BY <1>3 DEF BuildArtifact, TypeOK
  <2> QED
    BY <1>3, <2>5, <2>6 DEF BuildArtifact, TypeOK
<1>4. CASE PushArtifacts(f)
  <2>1. flow[f].artifacts \subseteq StagedChanges
    BY DEF TypeOK, FlowStates
  <2> QED
    BY <1>4, <2>1 DEF PushArtifacts, TypeOK
<1>5. CASE AbandonFlow(f)
  BY <1>5 DEF AbandonFlow, TypeOK
<1> QED
  BY <1>1, <1>2, <1>3, <1>4, <1>5 DEF FlowStep

(* The parts of a session's plan have their types.                          *)
LEMMA PlanFields ==
  ASSUME TypeOK, NEW m \in Sessions
  PROVE  /\ plan[m] \in Plans
         /\ plan[m].todo \subseteq StagedChanges
         /\ plan[m].conflicted \subseteq StagedChanges
         /\ plan[m].pending \subseteq Entries
         /\ plan[m].open \subseteq Entries
         /\ plan[m].done \subseteq Entries
         /\ plan[m].failed \subseteq Entries
BY DEF TypeOK, Plans

(* A plan function with one typed entry replaced is typed.                  *)
LEMMA PlanType ==
  ASSUME TypeOK, NEW m \in Sessions, NEW pl \in Plans, plan' = [plan EXCEPT ![m] = pl]
  PROVE  plan' \in [Sessions -> Plans]
BY DEF TypeOK

(* Every step of a session that checks keeps the type.                      *)
LEMMA CheckStepType ==
  ASSUME TypeOK, NEW m \in Sessions, CheckStep(m)
  PROVE  TypeOK'
<1> USE PlanFields
<1>1. ASSUME NEW r \in plan[m].todo, ChangePassesPreflight(m, r)
      PROVE  TypeOK'
  <2> DEFINE e == [change |-> r, current |-> vault[r.target]]
             pl == [plan[m] EXCEPT !.todo = @ \ {r}, !.pending = @ \cup {e}]
  <2>1. e \in Entries
    BY DEF Entries, TypeOK, Vaults, StagedChanges
  <2>2. plan' = [plan EXCEPT ![m] = pl]
    BY <1>1 DEF ChangePassesPreflight, PlanEntry
  <2> HIDE DEF e
  <2>3. pl \in Plans
    BY <2>1, PlanUpdateType
  <2> HIDE DEF pl
  <2>4. plan' \in [Sessions -> Plans]
    BY <2>2, <2>3, PlanType
  <2>5. touched' \in [Sessions -> SUBSET (Paths \cup ChangeIdValues)]
    BY <1>1 DEF ChangePassesPreflight, PlanEntry, TypeOK
  <2> QED
    BY <1>1, <2>4, <2>5 DEF ChangePassesPreflight, PlanEntry, TypeOK
<1>2. ASSUME NEW r \in plan[m].todo, ChangeFailsPreflight(m, r) \/ PreflightFault(m, r)
      PROVE  TypeOK'
  <2> DEFINE pl == [plan[m] EXCEPT !.todo = @ \ {r},
                                   !.conflicted = @ \cup {MarkConflicted(r)}]
  <2>1. MarkConflicted(r) \in StagedChanges
    BY TransitionsType
  <2>2. plan' = [plan EXCEPT ![m] = pl]
    BY <1>2 DEF ChangeFailsPreflight, PreflightFault, RefuseChange
  <2>3. pl \in Plans
    BY <2>1, PlanUpdateType
  <2> HIDE DEF pl
  <2>4. plan' \in [Sessions -> Plans]
    BY <2>2, <2>3, PlanType
  <2> QED
    BY <1>2, <2>4 DEF ChangeFailsPreflight, PreflightFault, TypeOK
<1>3. CASE AcceptPlan(m)
  <2> DEFINE pl == [plan[m] EXCEPT !.pc = "executing"]
  <2>1. plan' = [plan EXCEPT ![m] = pl]
    BY <1>3 DEF AcceptPlan
  <2>2. pl \in Plans
    BY PlanUpdateType
  <2> HIDE DEF pl
  <2>3. plan' \in [Sessions -> Plans]
    BY <2>1, <2>2, PlanType
  <2> QED
    BY <1>3, <2>3 DEF AcceptPlan, TypeOK
<1>4. CASE RefusePlan(m)
  <2>1. staged' \subseteq StagedChanges
    BY <1>4, UpdateListType DEF RefusePlan, EndSession
  <2>2. plan' \in [Sessions -> Plans] /\ touched' \in [Sessions -> SUBSET (Paths \cup ChangeIdValues)]
    BY <1>4, NoPlanType DEF RefusePlan, EndSession, TypeOK
  <2> QED
    BY <1>4, <2>1, <2>2 DEF RefusePlan, EndSession, TypeOK
<1> QED
  BY <1>1, <1>2, <1>3, <1>4 DEF CheckStep

(* The entries a session works on are its own.                              *)
LEMMA OutcomeType ==
  ASSUME TypeOK, NEW m \in Sessions, NEW e \in Entries, Succeed(m, e) \/ Fail(m, e)
  PROVE  plan' \in [Sessions -> Plans]
<1> USE PlanFields
<1>1. CASE Succeed(m, e)
  <2> DEFINE pl == [plan[m] EXCEPT !.pending = @ \ {e}, !.open = {}, !.done = @ \cup {e}]
  <2>1. plan' = [plan EXCEPT ![m] = pl]
    BY <1>1 DEF Succeed
  <2>2. pl \in Plans
    <3>1. /\ plan[m].pending \ {e} \in SUBSET Entries
          /\ plan[m].done \cup {e} \in SUBSET Entries
          /\ {} \in SUBSET Entries
          /\ {} \in SUBSET StagedChanges
      OBVIOUS
    <3> QED
      BY <3>1, PlanUpdateType
  <2> HIDE DEF pl
  <2> QED
    BY <2>1, <2>2, PlanType
<1>2. CASE Fail(m, e)
  <2> DEFINE pl == [plan[m] EXCEPT !.pending = @ \ {e}, !.open = {}, !.failed = @ \cup {e}]
  <2>1. plan' = [plan EXCEPT ![m] = pl]
    BY <1>2 DEF Fail
  <2>2. pl \in Plans
    <3>1. /\ plan[m].pending \ {e} \in SUBSET Entries
          /\ plan[m].failed \cup {e} \in SUBSET Entries
          /\ {} \in SUBSET Entries
          /\ {} \in SUBSET StagedChanges
      OBVIOUS
    <3> QED
      BY <3>1, PlanUpdateType
  <2> HIDE DEF pl
  <2> QED
    BY <2>1, <2>2, PlanType
<1> QED
  BY <1>1, <1>2

(* Every step of a session that writes keeps the type.                      *)
LEMMA WriteStepType ==
  ASSUME TypeOK, NEW m \in Sessions, WriteStep(m)
  PROVE  TypeOK'
<1> USE PlanFields
<1>1. ASSUME NEW e \in plan[m].pending, WriteBackup(m, e)
      PROVE  TypeOK'
  <2> DEFINE pl == [plan[m] EXCEPT !.pending = @ \ {e}, !.open = {e}]
  <2>1. plan' = [plan EXCEPT ![m] = pl]
    BY <1>1 DEF WriteBackup
  <2>2. pl \in Plans
    BY PlanUpdateType
  <2> HIDE DEF pl
  <2>3. plan' \in [Sessions -> Plans]
    BY <2>1, <2>2, PlanType
  <2>4. \A b \in backups' : b.content \in MaybeContents
    BY <1>1 DEF WriteBackup, BackupsWith, BackupFor, Entries, TypeOK
  <2>5. Displaced(e) \subseteq ChangeIdValues
    <3>1. e.change \in StagedChanges
      BY DEF Entries
    <3>2. ChangeId(e.change) \in ChangeIdValues
      BY <3>1, ChangeIdType
    <3> QED
      BY <3>2 DEF Displaced
  <2>6. touched' \in [Sessions -> SUBSET (Paths \cup ChangeIdValues)]
    BY <1>1, <2>5 DEF WriteBackup, TypeOK
  <2> QED
    BY <1>1, <2>3, <2>4, <2>6 DEF WriteBackup, TypeOK
<1>2. ASSUME NEW e \in plan[m].pending, BackupFault(m, e)
      PROVE  TypeOK'
  <2>1. plan' \in [Sessions -> Plans]
    BY <1>2, OutcomeType DEF BackupFault
  <2> QED
    BY <1>2, <2>1 DEF BackupFault, TypeOK
<1>3. ASSUME NEW e \in plan[m].pending \cup plan[m].open, ApplyEntry(m, e)
      PROVE  TypeOK'
  <2>1. e \in Entries /\ e.change \in StagedChanges
    BY DEF Entries
  <2>2. plan' \in [Sessions -> Plans]
    BY <1>3, <2>1, OutcomeType DEF ApplyEntry
  <2>3. vault' \in Vaults
    BY <1>3, <2>1, EffectIsLocal DEF ApplyEntry, TypeOK
  <2>4. touched' \in [Sessions -> SUBSET (Paths \cup ChangeIdValues)]
    <3>1. PathsOf(e.change) \subseteq Paths
      BY <2>1 DEF PathsOf, StagedChanges
    <3> QED
      BY <1>3, <3>1 DEF ApplyEntry, MarkTouched, TypeOK
  <2> QED
    BY <1>3, <2>2, <2>3, <2>4 DEF ApplyEntry, TypeOK
<1>4. ASSUME NEW e \in plan[m].pending \cup plan[m].open, EntryFails(m, e)
      PROVE  TypeOK'
  <2>1. plan' \in [Sessions -> Plans]
    BY <1>4, OutcomeType DEF EntryFails
  <2> QED
    BY <1>4, <2>1 DEF EntryFails, TypeOK
<1>5. CASE Finalize(m)
  <2> DEFINE applied == {Applied(e.change) : e \in plan[m].done}
             failed == {Failed(e.change) : e \in plan[m].failed}
  <2>1. applied \cup failed \in SUBSET StagedChanges
    BY TransitionsType DEF Entries
  <2> HIDE DEF applied, failed
  <2>2. staged' \subseteq StagedChanges
    BY <1>5, <2>1, UpdateListType DEF Finalize, EndSession, applied, failed
  <2>3. plan' \in [Sessions -> Plans] /\ touched' \in [Sessions -> SUBSET (Paths \cup ChangeIdValues)]
    BY <1>5, NoPlanType DEF Finalize, EndSession, TypeOK
  <2> QED
    BY <1>5, <2>2, <2>3 DEF Finalize, EndSession, TypeOK
<1> QED
  BY <1>1, <1>2, <1>3, <1>4, <1>5 DEF WriteStep

(* An unload and a crash keep the type.                                     *)
LEMMA RestartType ==
  ASSUME TypeOK, Unload \/ Crash
  PROVE  TypeOK'
<1>1. plan' \in [Sessions -> Plans]
  BY NoPlanType, PlanFields, PlanUpdateType DEF Unload, Crash, TypeOK
<1>2. flow' \in [Flows -> FlowStates] /\ restarts' \in Nat
  BY NoFlowType DEF Unload, Crash, Restart, TypeOK
<1>3. touched' \in [Sessions -> SUBSET (Paths \cup ChangeIdValues)]
  BY DEF Unload, Crash, TypeOK
<1> QED
  BY <1>1, <1>2, <1>3 DEF Unload, Crash, Restart, TypeOK

(* The start of an apply, and its refusal, keep the type.                   *)
LEMMA ApplyStartType ==
  ASSUME TypeOK, NEW m \in Sessions, NEW selected \in SUBSET staged,
         StartApply(m, selected) \/ RefuseDuplicatePaths(m, selected)
  PROVE  TypeOK'
<1>1. CASE StartApply(m, selected)
  <2>1. [NoPlan EXCEPT !.pc = "planning", !.todo = selected] \in Plans
    BY DEF NoPlan, Plans, TypeOK
  <2>2. plan' \in [Sessions -> Plans]
    BY <1>1, <2>1 DEF StartApply, TypeOK
  <2> QED
    BY <1>1, <2>2 DEF StartApply, TypeOK
<1>2. CASE RefuseDuplicatePaths(m, selected)
  <2>1. {MarkConflicted(r) : r \in selected} \in SUBSET StagedChanges
    BY TransitionsType DEF TypeOK
  <2>2. staged' \subseteq StagedChanges
    BY <1>2, <2>1, ReplaceByIdFrom DEF RefuseDuplicatePaths, TypeOK
  <2> QED
    BY <1>2, <2>2 DEF RefuseDuplicatePaths, TypeOK
<1> QED
  BY <1>1, <1>2

(* The records a review action writes back, with the facts about them that  *)
(* the invariants need.                                                     *)
LEMMA ReviewedRecords ==
  ASSUME NEW records \in SUBSET StagedChanges, \A r \in records : WellFormed(r)
  PROVE  LET good == {r \in StagedChanges : WellFormed(r)}
         IN  /\ {Approved(r) : r \in records} \subseteq good
             /\ {Rejected(r) : r \in records} \subseteq good
             /\ {Dismissed(r) : r \in records} \subseteq good
             /\ {Retried(r) : r \in records} \subseteq good
             /\ {MarkConflicted(r) : r \in records} \subseteq good
BY TransitionsType, ReviewKeepsWellFormed

(* Every step of the user in the review modal keeps the type.               *)
LEMMA ReviewStepType ==
  ASSUME TypeOK, ReviewStep
  PROVE  TypeOK'
<1>1. ASSUME NEW selected \in SUBSET staged,
             Approve(selected) \/ Reject(selected) \/ Dismiss(selected) \/ Retry(selected)
      PROVE  TypeOK'
  <2>1. /\ {Approved(r) : r \in selected} \in SUBSET StagedChanges
        /\ {Rejected(r) : r \in selected} \in SUBSET StagedChanges
        /\ {Dismissed(r) : r \in selected} \in SUBSET StagedChanges
        /\ {Retried(r) : r \in selected} \in SUBSET StagedChanges
    BY TransitionsType DEF TypeOK
  <2> QED
    BY <1>1, <2>1, ReviewType DEF Approve, Reject, Dismiss, Retry
<1> QED
  BY <1>1, ApplyStartType DEF ReviewStep

(* Every step keeps the type.                                               *)
LEMMA TypeNext == TypeOK /\ [Next]_vars => TypeOK'
<1> SUFFICES ASSUME TypeOK, [Next]_vars
             PROVE  TypeOK'
  OBVIOUS
<1>1. CASE Next
  BY <1>1, UserEditType, FlowStepType, ReviewStepType, CheckStepType, WriteStepType,
     RestartType DEF Next, SessionStep
<1>2. CASE UNCHANGED vars
  BY <1>2 DEF vars, TypeOK
<1> QED
  BY <1>1, <1>2

(* Every variable keeps its type.                                           *)
THEOREM TypeCorrect == Spec => []TypeOK
<1>1. Init => TypeOK
  BY TypeInit
<1>2. TypeOK /\ [Next]_vars => TypeOK'
  BY TypeNext
<1> QED
  BY <1>1, <1>2, PTL DEF Spec

-----------------------------------------------------------------------------
(* The inductive invariant *)

(* A selection that has no path twice has no part with a path twice.        *)
LEMMA DuplicatesMonotone ==
  ASSUME NEW large, NEW small, small \subseteq large, DuplicateApplyPaths(small)
  PROVE  DuplicateApplyPaths(large)
BY DEF DuplicateApplyPaths

(* Nothing is wrong with a session that is not running.                     *)
LEMMA IdleSessionOk ==
  ASSUME NEW m \in Sessions, plan'[m] = NoPlan
  PROVE  PhaseInOrder(m)' /\ BatchDisjoint(m)' /\ PlanWellFormed(m)'
BY DEF NoPlan, PhaseInOrder, BatchDisjoint, PlanWellFormed, Selected, Unfinished,
       DuplicateApplyPaths

(* A session that keeps its plan, up to its owner, stays as it should be.   *)
LEMMA SamePlanOk ==
  ASSUME SessionsOk, NEW m \in Sessions, plan'[m] = plan[m]
  PROVE  PhaseInOrder(m)' /\ BatchDisjoint(m)' /\ PlanWellFormed(m)'
BY DEF SessionsOk, PhaseInOrder, BatchDisjoint, PlanWellFormed, Selected, Unfinished,
       DuplicateApplyPaths

(* So only the session that moves has to be looked at.                      *)
LEMMA OtherSessionsOk ==
  ASSUME SessionsOk, NEW m \in Sessions,
         \A n \in Sessions \ {m} : plan'[n] = plan[n],
         PhaseInOrder(m)', BatchDisjoint(m)', PlanWellFormed(m)'
  PROVE  SessionsOk'
<1>1. \A n \in Sessions \ {m} : PhaseInOrder(n)' /\ BatchDisjoint(n)' /\ PlanWellFormed(n)'
  BY SamePlanOk
<1> QED
  BY <1>1 DEF SessionsOk

(* The checks hold on in a step that writes nothing, starts no entry and    *)
(* forgets no writer.                                                       *)
LEMMA QuietStep ==
  ASSUME ChecksStillHold, vault' = vault,
         \A m \in Sessions : /\ Unfinished(m)' \subseteq Unfinished(m)
                             /\ Unfinished(m)' # {} => touched[m] \subseteq touched'[m]
  PROVE  ChecksStillHold'
<1> SUFFICES ASSUME NEW m \in Sessions, NEW e \in Unfinished(m)',
                    PathsOf(e.change) \cap touched'[m] = {}
             PROVE  PreflightOk(e.change, vault')
  BY DEF ChecksStillHold
<1>1. e \in Unfinished(m)
  OBVIOUS
<1>2. PathsOf(e.change) \cap touched[m] = {}
  OBVIOUS
<1> QED
  BY <1>1, <1>2 DEF ChecksStillHold

(* They also hold on when someone writes, if every session that the writer  *)
(* is not has the written paths on record.                                  *)
LEMMA WriteByOthers ==
  ASSUME IInv, vault' \in Vaults, NEW ps, NEW n \in Sessions,
         \A p \in Paths : p \notin ps => vault'[p] = vault[p],
         Unfinished(n)' \subseteq Unfinished(n),
         Busy(n) => touched'[n] = touched[n] \cup ps
  PROVE  \A e \in Unfinished(n)' :
            PathsOf(e.change) \cap touched'[n] = {} => PreflightOk(e.change, vault')
<1> SUFFICES ASSUME NEW e \in Unfinished(n)', PathsOf(e.change) \cap touched'[n] = {}
             PROVE  PreflightOk(e.change, vault')
  OBVIOUS
<1>1. e \in Unfinished(n)
  OBVIOUS
<1>2. Busy(n)
  BY <1>1 DEF IInv, SessionsOk, PhaseInOrder, NoPlan, Unfinished
<1>3. e.change \in StagedChanges /\ WellFormed(e.change)
  BY <1>1, PlanFields DEF IInv, SessionsOk, PlanWellFormed, Unfinished, Entries
<1>4. PathsOf(e.change) \cap touched[n] = {} /\ PathsOf(e.change) \cap ps = {}
  BY <1>2
<1>5. PathsOf(e.change) \subseteq Paths
  BY <1>3 DEF PathsOf, StagedChanges
<1>6. PreflightOk(e.change, vault)
  BY <1>1, <1>4 DEF IInv, ChecksStillHold
<1>7. \A p \in PathsOf(e.change) : vault[p] = vault'[p]
  BY <1>4, <1>5
<1> QED
  BY <1>3, <1>6, <1>7, PreflightIsLocal

(* The initial state satisfies the inductive invariant.                     *)
LEMMA InvInit == Init => IInv
<1> SUFFICES ASSUME Init
             PROVE  IInv
  OBVIOUS
<1>1. TypeOK
  BY TypeInit
<1>2. SessionsOk
  BY DEF Init, SessionsOk, NoPlan, PhaseInOrder, BatchDisjoint, PlanWellFormed, Selected,
         Unfinished, DuplicateApplyPaths
<1>3. WellFormedRecords /\ ArtifactsWellFormed
  BY DEF Init, WellFormedRecords, ArtifactsWellFormed, NoFlow
<1>4. ChecksStillHold
  BY DEF Init, ChecksStillHold, Unfinished, NoPlan
<1> QED
  BY <1>1, <1>2, <1>3, <1>4 DEF IInv

(* A user edit puts its path on record with every running session.          *)
LEMMA InvUserEdit ==
  ASSUME IInv, NEW p \in Paths, NEW content \in MaybeContents, UserEdit(p, content)
  PROVE  IInv'
<1>1. TypeOK'
  BY UserEditType DEF IInv
<1>2. SessionsOk'
  BY SamePlanOk DEF IInv, UserEdit, SessionsOk
<1>3. WellFormedRecords' /\ ArtifactsWellFormed'
  BY DEF IInv, UserEdit, WellFormedRecords, ArtifactsWellFormed
<1>4. ChecksStillHold'
  <2> SUFFICES ASSUME NEW n \in Sessions
               PROVE  \A e \in Unfinished(n)' :
                         PathsOf(e.change) \cap touched'[n] = {} =>
                             PreflightOk(e.change, vault')
    BY DEF ChecksStillHold
  <2>1. \A q \in Paths : q \notin {p} => vault'[q] = vault[q]
    BY DEF UserEdit, IInv, TypeOK, Vaults
  <2>2. Unfinished(n)' \subseteq Unfinished(n)
    BY DEF UserEdit, Unfinished
  <2>3. Busy(n) => touched'[n] = touched[n] \cup {p}
    BY DEF UserEdit, MarkTouched
  <2>4. vault' \in Vaults
    BY <1>1 DEF TypeOK
  <2> HIDE DEF Busy
  <2> QED
    BY <2>1, <2>2, <2>3, <2>4, WriteByOthers
<1> QED
  BY <1>1, <1>2, <1>3, <1>4 DEF IInv

(* A flow changes neither the plans nor the vault, and builds well-formed   *)
(* records.                                                                 *)
LEMMA InvFlowStep ==
  ASSUME IInv, NEW f \in Flows, FlowStep(f)
  PROVE  IInv'
<1> USE DEF IInv
<1>1. UNCHANGED <<vault, plan, touched>>
  BY DEF FlowStep, ReadNotes, StageChange, BuildArtifact, PushArtifacts, AbandonFlow
<1>2. TypeOK'
  BY FlowStepType
<1>3. SessionsOk'
  BY <1>1, SamePlanOk DEF SessionsOk
<1>4. WellFormedRecords' /\ ArtifactsWellFormed'
  <2> USE NoFlowType DEF WellFormedRecords, ArtifactsWellFormed
  <2>1. CASE ReadNotes(f)
    BY <2>1 DEF ReadNotes, TypeOK
  <2>2. ASSUME NEW command \in Commands, NEW op \in Operations, NEW target \in Paths,
               NEW dest \in Paths \cup {NoPath}, NEW proposed \in Proposals(op),
               StageChange(f, command, op, target, dest, proposed)
        PROVE  WellFormedRecords' /\ ArtifactsWellFormed'
    <3>1. proposed \in Contents
      BY EmptyIsContent DEF Proposals
    <3>0. minute' \in Nat
      BY <2>2 DEF StageChange, Minutes, TypeOK
    <3>2. \A r \in staged' : WellFormed(r)
      BY <2>2, <3>0, <3>1, StagedIsGood DEF StageChange
    <3>3. \A g \in Flows : \A r \in flow'[g].artifacts : WellFormed(r)
      BY <2>2 DEF StageChange, TypeOK
    <3> QED
      BY <3>2, <3>3
  <2>3. ASSUME NEW command \in Commands, NEW target \in Paths, NEW proposed \in Contents,
               BuildArtifact(f, command, target, proposed)
        PROVE  WellFormedRecords' /\ ArtifactsWellFormed'
    <3> DEFINE r == Build(command, "create-note", target, NoPath, proposed,
                          Placeholders(flow[f].notes), staged \cup flow[f].artifacts, minute)
    <3>1. WellFormed(r)
      BY ArtifactIsGood
    <3>2. flow' = [flow EXCEPT ![f].artifacts = @ \cup {r}] /\ staged' = staged
      BY <2>3 DEF BuildArtifact
    <3> HIDE DEF r
    <3>3. \A g \in Flows : g # f => flow'[g] = flow[g]
      BY <3>2 DEF TypeOK
    <3>4. flow'[f].artifacts = flow[f].artifacts \cup {r}
      BY <3>2 DEF TypeOK, FlowStates
    <3> QED
      BY <3>1, <3>2, <3>3, <3>4
  <2>4. CASE PushArtifacts(f)
    BY <2>4 DEF PushArtifacts, TypeOK
  <2>5. CASE AbandonFlow(f)
    BY <2>5 DEF AbandonFlow, TypeOK
  <2> QED
    BY <2>1, <2>2, <2>3, <2>4, <2>5 DEF FlowStep
<1>5. ChecksStillHold'
  BY <1>1, QuietStep DEF Unfinished
<1> QED
  BY <1>2, <1>3, <1>4, <1>5

(* An update of the list by well-formed records keeps it well formed.       *)
LEMMA UpdateWellFormed ==
  ASSUME WellFormedRecords, NEW changed, \A r \in changed : WellFormed(r),
         staged' = staged \/ staged' = ReplaceById(staged, changed)
  PROVE  WellFormedRecords'
BY ReplaceByIdFrom DEF WellFormedRecords

(* Review changes the list; an apply starts with a selection that has no    *)
(* path twice.                                                              *)
LEMMA InvReviewStep ==
  ASSUME IInv, ReviewStep
  PROVE  IInv'
<1> USE DEF IInv
<1>1. TypeOK'
  BY ReviewStepType
<1>2. ASSUME NEW selected \in SUBSET staged,
             Approve(selected) \/ Reject(selected) \/ Dismiss(selected) \/ Retry(selected)
      PROVE  IInv'
  <2>1. selected \in SUBSET StagedChanges /\ \A r \in selected : WellFormed(r)
    BY DEF TypeOK, WellFormedRecords
  <2>2. UNCHANGED <<vault, plan, touched, flow>>
    BY <1>2 DEF Approve, Reject, Dismiss, Retry, Review
  <2>3. WellFormedRecords'
    <3>1. PICK changed : /\ \A r \in changed : WellFormed(r)
                         /\ staged' = ReplaceById(staged, changed)
      BY <1>2, <2>1, ReviewedRecords DEF Approve, Reject, Dismiss, Retry, Review
    <3> QED
      BY <3>1, UpdateWellFormed
  <2>4. ChecksStillHold'
    BY <2>2, QuietStep DEF Unfinished
  <2>5. SessionsOk' /\ ArtifactsWellFormed'
    BY <2>2, SamePlanOk DEF SessionsOk, ArtifactsWellFormed
  <2> QED
    BY <1>1, <2>3, <2>4, <2>5
<1>3. ASSUME NEW m \in Sessions, NEW selected \in SUBSET staged, StartApply(m, selected)
      PROVE  IInv'
  <2> DEFINE pl == [NoPlan EXCEPT !.pc = "planning", !.todo = selected]
  <2>1. plan'[m] = pl /\ \A n \in Sessions \ {m} : plan'[n] = plan[n]
    BY <1>3 DEF StartApply, TypeOK
  <2>2. /\ pl.pc = "planning"
        /\ pl.todo = selected
        /\ pl.conflicted = {} /\ pl.pending = {} /\ pl.open = {}
        /\ pl.done = {} /\ pl.failed = {}
    BY DEF NoPlan
  <2> HIDE DEF pl
  <2>3. PhaseInOrder(m)'
    BY <2>1, <2>2 DEF PhaseInOrder
  <2>4. Unfinished(m)' = {}
    BY <2>1, <2>2 DEF Unfinished
  <2>5. Selected(m)' = selected
    BY <2>1, <2>2, <2>4 DEF Selected
  <2>6. BatchDisjoint(m)'
    BY <1>3, <2>4, <2>5 DEF BatchDisjoint, StartApply
  <2>7. PlanWellFormed(m)'
    BY <2>1, <2>2, <2>4 DEF PlanWellFormed, WellFormedRecords
  <2>8. SessionsOk'
    BY <2>1, <2>3, <2>6, <2>7, OtherSessionsOk
  <2>9. WellFormedRecords' /\ ArtifactsWellFormed'
    BY <1>3 DEF StartApply, WellFormedRecords, ArtifactsWellFormed
  <2>10. ChecksStillHold'
    <3>1. \A n \in Sessions : Unfinished(n)' \subseteq Unfinished(n)
      BY <2>1, <2>4 DEF Unfinished
    <3> QED
      BY <1>3, <3>1, QuietStep DEF StartApply
  <2> QED
    BY <1>1, <2>8, <2>9, <2>10
<1>4. ASSUME NEW m \in Sessions, NEW selected \in SUBSET staged,
             RefuseDuplicatePaths(m, selected)
      PROVE  IInv'
  <2>1. UNCHANGED <<vault, plan, touched, flow>>
    BY <1>4 DEF RefuseDuplicatePaths
  <2>2. WellFormedRecords'
    <3>1. \A r \in {MarkConflicted(c) : c \in selected} : WellFormed(r)
      BY ReviewKeepsWellFormed DEF WellFormedRecords, TypeOK
    <3> QED
      BY <1>4, <3>1, UpdateWellFormed DEF RefuseDuplicatePaths
  <2>3. ChecksStillHold'
    BY <2>1, QuietStep DEF Unfinished
  <2>4. SessionsOk' /\ ArtifactsWellFormed'
    BY <2>1, SamePlanOk DEF SessionsOk, ArtifactsWellFormed
  <2> QED
    BY <1>1, <2>2, <2>3, <2>4
<1> QED
  BY <1>2, <1>3, <1>4 DEF ReviewStep

(* A session is idle again, and nothing else changes but the list.          *)
LEMMA SessionEnds ==
  ASSUME IInv, NEW m \in Sessions, TypeOK', WellFormedRecords',
         plan' = [plan EXCEPT ![m] = NoPlan], touched' = [touched EXCEPT ![m] = {}],
         UNCHANGED <<vault, flow>>
  PROVE  IInv'
<1> USE DEF IInv
<1>1. plan'[m] = NoPlan /\ \A n \in Sessions \ {m} : plan'[n] = plan[n]
  BY DEF TypeOK
<1>2. SessionsOk'
  BY <1>1, IdleSessionOk, OtherSessionsOk
<1>3. ArtifactsWellFormed'
  BY DEF ArtifactsWellFormed
<1>4. ChecksStillHold'
  <2>1. Unfinished(m)' = {}
    BY <1>1 DEF Unfinished, NoPlan
  <2>2. \A n \in Sessions \ {m} : Unfinished(n)' = Unfinished(n) /\ touched'[n] = touched[n]
    BY <1>1 DEF Unfinished, TypeOK
  <2> QED
    BY <2>1, <2>2, QuietStep
<1> QED
  BY <1>2, <1>3, <1>4

(* A passing record adds an entry whose checks hold; its paths, which the   *)
(* session forgets others wrote to, are no other entry's.                   *)
LEMMA InvCheckStep ==
  ASSUME IInv, NEW m \in Sessions, CheckStep(m)
  PROVE  IInv'
<1> USE PlanFields DEF IInv
<1>1. TypeOK'
  BY CheckStepType
<1>2. ASSUME NEW r \in plan[m].todo, ChangePassesPreflight(m, r)
      PROVE  IInv'
  <2> DEFINE e == [change |-> r, current |-> vault[r.target]]
  <2>1. /\ \A n \in Sessions \ {m} : plan'[n] = plan[n]
        /\ plan'[m].pc = plan[m].pc
        /\ plan'[m].todo = plan[m].todo \ {r}
        /\ plan'[m].conflicted = plan[m].conflicted
        /\ plan'[m].pending = plan[m].pending \cup {e}
        /\ plan'[m].open = plan[m].open
        /\ plan'[m].done = plan[m].done
        /\ plan'[m].failed = plan[m].failed
    BY <1>2 DEF ChangePassesPreflight, PlanEntry, TypeOK, Plans
  <2>2. e.change = r
    OBVIOUS
  <2> HIDE DEF e
  <2>3. plan[m].pc = "planning"
    BY <1>2 DEF ChangePassesPreflight, PlanEntry, Checkable
  <2>4. PhaseInOrder(m) /\ BatchDisjoint(m) /\ PlanWellFormed(m)
    BY DEF SessionsOk
  <2>5. Unfinished(m)' = Unfinished(m) \cup {e}
    BY <2>1 DEF Unfinished
  <2>6. PhaseInOrder(m)'
    BY <2>1, <2>3, <2>4 DEF PhaseInOrder
  <2>7. BatchDisjoint(m)'
    <3>1. Selected(m)' = Selected(m)
      BY <2>1, <2>2, <2>5 DEF Selected
    <3>2. \A d \in Unfinished(m) : d.change # r
      BY <2>4 DEF BatchDisjoint
    <3> QED
      BY <2>1, <2>2, <2>4, <2>5, <3>1, <3>2 DEF BatchDisjoint
  <2>8. PlanWellFormed(m)'
    <3>1. WellFormed(r) /\ r.status \in ApplyableStatuses
      BY <1>2, <2>4 DEF PlanWellFormed, ChangePassesPreflight, PlanEntry
    <3> QED
      BY <2>1, <2>2, <2>4, <2>5, <3>1 DEF PlanWellFormed
  <2>9. SessionsOk'
    BY <2>1, <2>6, <2>7, <2>8, OtherSessionsOk
  <2>10. WellFormedRecords' /\ ArtifactsWellFormed'
    BY <1>2 DEF ChangePassesPreflight, PlanEntry, WellFormedRecords, ArtifactsWellFormed
  <2>11. ChecksStillHold'
    <3>1. vault' = vault /\ touched'[m] = touched[m] \ PathsOf(r)
      BY <1>2 DEF ChangePassesPreflight, PlanEntry, TypeOK
    <3>2. \A n \in Sessions \ {m} : Unfinished(n)' = Unfinished(n) /\ touched'[n] = touched[n]
      BY <1>2, <2>1 DEF ChangePassesPreflight, PlanEntry, Unfinished, TypeOK
    <3>3. PreflightOk(e.change, vault')
      BY <1>2, <2>2, <3>1 DEF ChangePassesPreflight, PlanEntry
    <3>4. ASSUME NEW d \in Unfinished(m), PathsOf(d.change) \cap touched'[m] = {}
          PROVE  PreflightOk(d.change, vault')
      <4>1. d.change \in Selected(m) /\ r \in Selected(m) /\ d.change # r
        BY <2>4 DEF BatchDisjoint, Selected
      <4>2. PathsOf(d.change) \cap PathsOf(r) = {}
        BY <2>4, <4>1 DEF BatchDisjoint, DuplicateApplyPaths
      <4>3. PathsOf(d.change) \cap touched[m] = {}
        BY <3>1, <3>4, <4>2
      <4> QED
        BY <3>1, <4>3 DEF ChecksStillHold
    <3>5. \A n \in Sessions \ {m} : \A d \in Unfinished(n)' :
             PathsOf(d.change) \cap touched'[n] = {} => PreflightOk(d.change, vault')
      BY <3>1, <3>2 DEF ChecksStillHold
    <3>6. \A d \in Unfinished(m)' :
             PathsOf(d.change) \cap touched'[m] = {} => PreflightOk(d.change, vault')
      BY <2>5, <3>3, <3>4
    <3> QED
      BY <3>5, <3>6 DEF ChecksStillHold
  <2> QED
    BY <1>1, <2>9, <2>10, <2>11
<1>3. ASSUME NEW r \in plan[m].todo, ChangeFailsPreflight(m, r) \/ PreflightFault(m, r)
      PROVE  IInv'
  <2>1. UNCHANGED <<vault, staged, flow, touched>>
    BY <1>3 DEF ChangeFailsPreflight, PreflightFault
  <2>2. /\ \A n \in Sessions \ {m} : plan'[n] = plan[n]
        /\ plan'[m].pc = plan[m].pc
        /\ plan'[m].todo = plan[m].todo \ {r}
        /\ plan'[m].conflicted = plan[m].conflicted \cup {MarkConflicted(r)}
        /\ plan'[m].pending = plan[m].pending
        /\ plan'[m].open = plan[m].open
        /\ plan'[m].done = plan[m].done
        /\ plan'[m].failed = plan[m].failed
    BY <1>3 DEF ChangeFailsPreflight, PreflightFault, RefuseChange, TypeOK, Plans
  <2>3. plan[m].pc = "planning"
    BY <1>3 DEF ChangeFailsPreflight, PreflightFault, Checkable
  <2>4. PhaseInOrder(m) /\ BatchDisjoint(m) /\ PlanWellFormed(m)
    BY DEF SessionsOk
  <2>5. Unfinished(m)' = Unfinished(m) /\ Selected(m)' \subseteq Selected(m)
    BY <2>2 DEF Unfinished, Selected
  <2>6. PhaseInOrder(m)'
    BY <2>2, <2>3, <2>4 DEF PhaseInOrder
  <2>7. BatchDisjoint(m)'
    BY <2>2, <2>4, <2>5, DuplicatesMonotone DEF BatchDisjoint
  <2>8. PlanWellFormed(m)'
    <3>1. WellFormed(MarkConflicted(r))
      BY <2>4, ReviewKeepsWellFormed DEF PlanWellFormed
    <3> QED
      BY <2>2, <2>4, <2>5, <3>1 DEF PlanWellFormed
  <2>9. SessionsOk'
    BY <2>2, <2>6, <2>7, <2>8, OtherSessionsOk
  <2>10. WellFormedRecords' /\ ArtifactsWellFormed'
    BY <2>1 DEF WellFormedRecords, ArtifactsWellFormed
  <2>11. ChecksStillHold'
    <3>1. \A n \in Sessions : Unfinished(n)' = Unfinished(n)
      BY <2>2, <2>5 DEF Unfinished
    <3> QED
      BY <2>1, <3>1, QuietStep
  <2> QED
    BY <1>1, <2>9, <2>10, <2>11
<1>4. CASE AcceptPlan(m)
  <2>1. /\ \A n \in Sessions \ {m} : plan'[n] = plan[n]
        /\ plan'[m].pc = "executing"
        /\ plan'[m].todo = {} /\ plan[m].todo = {}
        /\ plan'[m].conflicted = {} /\ plan[m].conflicted = {}
        /\ plan'[m].pending = plan[m].pending
        /\ plan'[m].open = plan[m].open
        /\ plan'[m].done = plan[m].done
        /\ plan'[m].failed = plan[m].failed
    BY <1>4 DEF AcceptPlan, Checked, TypeOK, Plans
  <2>2. BatchDisjoint(m) /\ PlanWellFormed(m)
    BY DEF SessionsOk
  <2>3. \A n \in Sessions : Unfinished(n)' = Unfinished(n)
    BY <2>1 DEF Unfinished
  <2>4. Selected(m)' = Selected(m)
    BY <2>1, <2>3 DEF Selected
  <2>5. PhaseInOrder(m)' /\ BatchDisjoint(m)' /\ PlanWellFormed(m)'
    BY <2>1, <2>2, <2>3, <2>4 DEF PhaseInOrder, BatchDisjoint, PlanWellFormed
  <2>6. SessionsOk'
    BY <2>1, <2>5, OtherSessionsOk
  <2>7. UNCHANGED <<vault, staged, flow, touched>>
    BY <1>4 DEF AcceptPlan
  <2>8. WellFormedRecords' /\ ArtifactsWellFormed' /\ ChecksStillHold'
    BY <2>3, <2>7, QuietStep DEF WellFormedRecords, ArtifactsWellFormed
  <2> QED
    BY <1>1, <2>6, <2>8
<1>5. CASE RefusePlan(m)
  <2>1. \A r \in plan[m].conflicted : WellFormed(r)
    BY DEF SessionsOk, PlanWellFormed
  <2>2. WellFormedRecords'
    BY <1>5, <2>1, UpdateWellFormed DEF RefusePlan, EndSession, UpdateList
  <2> QED
    BY <1>1, <1>5, <2>2, SessionEnds DEF RefusePlan, EndSession
<1> QED
  BY <1>2, <1>3, <1>4, <1>5 DEF CheckStep

(* What writing, or failing to write, an entry makes of a session's plan.   *)
LEMMA OutcomeOk ==
  ASSUME IInv, NEW m \in Sessions, NEW e \in Unfinished(m), Executing(m),
         Succeed(m, e) \/ Fail(m, e)
  PROVE  /\ SessionsOk'
         /\ \A n \in Sessions : Unfinished(n)' \subseteq Unfinished(n)
<1> USE PlanFields DEF IInv
<1>1. /\ \A n \in Sessions \ {m} : plan'[n] = plan[n]
      /\ plan'[m].pc = plan[m].pc
      /\ plan'[m].todo = plan[m].todo
      /\ plan'[m].conflicted = plan[m].conflicted
      /\ plan'[m].pending = plan[m].pending \ {e}
      /\ plan'[m].open = {}
      /\ plan'[m].done \subseteq plan[m].done \cup {e}
      /\ plan'[m].failed \subseteq plan[m].failed \cup {e}
  BY DEF Succeed, Fail, TypeOK, Plans
<1>2. PhaseInOrder(m) /\ BatchDisjoint(m) /\ PlanWellFormed(m)
  BY DEF SessionsOk
<1>3. \A n \in Sessions : Unfinished(n)' \subseteq Unfinished(n)
  BY <1>1 DEF Unfinished
<1>4. PhaseInOrder(m)'
  BY <1>1, <1>2 DEF PhaseInOrder, Executing
<1>5. BatchDisjoint(m)'
  <2>1. Selected(m)' \subseteq Selected(m)
    BY <1>1, <1>3 DEF Selected
  <2> QED
    BY <1>1, <1>2, <1>3, <2>1, DuplicatesMonotone DEF BatchDisjoint
<1>6. PlanWellFormed(m)'
  BY <1>1, <1>2, <1>3 DEF PlanWellFormed
<1>7. SessionsOk'
  BY <1>1, <1>4, <1>5, <1>6, OtherSessionsOk
<1> QED
  BY <1>3, <1>7

(* An entry that could not be written leaves everything but the plan.       *)
LEMMA FailedEntryOk ==
  ASSUME IInv, NEW m \in Sessions, NEW e \in Unfinished(m), Executing(m), Fail(m, e),
         UNCHANGED <<vault, staged, flow, touched>>
  PROVE  /\ SessionsOk'
         /\ WellFormedRecords'
         /\ ArtifactsWellFormed'
         /\ ChecksStillHold'
<1>1. SessionsOk' /\ \A n \in Sessions : Unfinished(n)' \subseteq Unfinished(n)
  BY OutcomeOk
<1>2. ChecksStillHold'
  BY <1>1, QuietStep DEF IInv
<1> QED
  BY <1>1, <1>2 DEF IInv, WellFormedRecords, ArtifactsWellFormed

(* A write changes the paths of its own entry, which no other entry of the  *)
(* session has and every other session takes note of.                       *)
LEMMA InvWriteStep ==
  ASSUME IInv, NEW m \in Sessions, WriteStep(m)
  PROVE  IInv'
<1> USE PlanFields DEF IInv
<1>1. TypeOK'
  BY WriteStepType
<1>2. PhaseInOrder(m) /\ BatchDisjoint(m) /\ PlanWellFormed(m)
  BY DEF SessionsOk
<1>3. ASSUME NEW e \in plan[m].pending, WriteBackup(m, e)
      PROVE  IInv'
  <2>1. UNCHANGED <<vault, staged, flow>>
    BY <1>3 DEF WriteBackup
  <2>2. /\ \A n \in Sessions \ {m} : plan'[n] = plan[n]
        /\ plan'[m].pc = "executing" /\ plan[m].pc = "executing"
        /\ plan'[m].todo = plan[m].todo
        /\ plan'[m].conflicted = plan[m].conflicted
        /\ plan'[m].pending = plan[m].pending \ {e}
        /\ plan'[m].open = {e} /\ plan[m].open = {}
        /\ plan'[m].done = plan[m].done
        /\ plan'[m].failed = plan[m].failed
    BY <1>3 DEF WriteBackup, Executing, TypeOK, Plans
  <2>3. \A n \in Sessions : Unfinished(n)' = Unfinished(n)
    BY <2>2 DEF Unfinished
  <2>4. Selected(m)' = Selected(m)
    BY <2>2, <2>3 DEF Selected
  <2>5. PhaseInOrder(m)' /\ BatchDisjoint(m)' /\ PlanWellFormed(m)'
    BY <1>2, <2>2, <2>3, <2>4 DEF PhaseInOrder, BatchDisjoint, PlanWellFormed
  <2>6. SessionsOk'
    BY <2>2, <2>5, OtherSessionsOk
  <2>7. ASSUME NEW n \in Sessions, NEW d \in Unfinished(n)',
               PathsOf(d.change) \cap touched'[n] = {}
        PROVE  PreflightOk(d.change, vault')
    <3>1. d \in Unfinished(n) /\ e.change \in StagedChanges /\ d.change \in StagedChanges
      BY <2>3 DEF Unfinished, Entries
    <3>2. PathsOf(d.change) \subseteq Paths
      BY <3>1 DEF PathsOf, StagedChanges
    <3>3. ChangeId(e.change) \notin Paths
      BY <3>1, ChangeIdType, BackupsAreNoNotes
    <3>4. touched[n] \ {ChangeId(e.change)} \subseteq touched'[n]
      BY <1>3 DEF WriteBackup
    <3>5. PathsOf(d.change) \cap touched[n] = {}
      BY <2>7, <3>2, <3>3, <3>4
    <3> QED
      BY <2>1, <3>1, <3>5 DEF ChecksStillHold
  <2>8. WellFormedRecords' /\ ArtifactsWellFormed' /\ ChecksStillHold'
    BY <2>1, <2>7 DEF WellFormedRecords, ArtifactsWellFormed, ChecksStillHold
  <2> QED
    BY <1>1, <2>6, <2>8
<1>4. ASSUME NEW e \in plan[m].pending, BackupFault(m, e)
      PROVE  IInv'
  <2>1. e \in Unfinished(m)
    BY DEF Unfinished
  <2> QED
    BY <1>1, <1>4, <2>1, FailedEntryOk DEF BackupFault
<1>5. ASSUME NEW e \in plan[m].pending \cup plan[m].open, EntryFails(m, e)
      PROVE  IInv'
  <2>1. e \in Unfinished(m)
    BY DEF Unfinished
  <2> QED
    BY <1>1, <1>5, <2>1, FailedEntryOk DEF EntryFails
<1>6. ASSUME NEW e \in plan[m].pending \cup plan[m].open, ApplyEntry(m, e)
      PROVE  IInv'
  <2>1. e \in Unfinished(m) /\ e.change \in StagedChanges /\ WellFormed(e.change)
    BY <1>2 DEF Unfinished, Entries, PlanWellFormed
  <2>2. /\ vault' = Effect(e.change, vault)
        /\ UNCHANGED <<staged, flow>>
        /\ MarkTouched({m}, PathsOf(e.change))
    BY <1>6 DEF ApplyEntry
  <2>3. SessionsOk' /\ \A n \in Sessions : Unfinished(n)' \subseteq Unfinished(n)
    BY <1>6, <2>1, OutcomeOk DEF ApplyEntry
  <2>4. \A p \in Paths : p \notin PathsOf(e.change) => vault'[p] = vault[p]
    BY <2>1, <2>2, EffectIsLocal DEF TypeOK
  <2>5. WellFormedRecords' /\ ArtifactsWellFormed'
    BY <2>2 DEF WellFormedRecords, ArtifactsWellFormed
  <2>6. ASSUME NEW n \in Sessions \ {m}
        PROVE  \A d \in Unfinished(n)' :
                  PathsOf(d.change) \cap touched'[n] = {} => PreflightOk(d.change, vault')
    <3>1. Busy(n) => touched'[n] = touched[n] \cup PathsOf(e.change)
      BY <2>2 DEF MarkTouched
    <3>2. vault' \in Vaults
      BY <1>1 DEF TypeOK
    <3> HIDE DEF Busy, IInv
    <3> QED
      BY <2>3, <2>4, <3>1, <3>2, WriteByOthers
  <2>7. ASSUME NEW d \in Unfinished(m)', PathsOf(d.change) \cap touched'[m] = {}
        PROVE  PreflightOk(d.change, vault')
    <3>1. d \in Unfinished(m) /\ d # e
      <4>1. plan'[m].pending = plan[m].pending \ {e} /\ plan'[m].open = {}
        BY <1>6 DEF ApplyEntry, Succeed, TypeOK, Plans
      <4> QED
        BY <4>1 DEF Unfinished
    <3>2. d.change # e.change
      BY <1>2, <2>1, <3>1 DEF BatchDisjoint
    <3>3. PathsOf(d.change) \cap PathsOf(e.change) = {}
      BY <1>2, <2>1, <3>1, <3>2 DEF BatchDisjoint, DuplicateApplyPaths, Selected
    <3>4. d.change \in StagedChanges /\ WellFormed(d.change)
      BY <1>2, <3>1 DEF PlanWellFormed, Unfinished, Entries
    <3>5. PathsOf(d.change) \subseteq Paths
      BY <3>4 DEF PathsOf, StagedChanges
    <3>6. \A p \in PathsOf(d.change) : vault[p] = vault'[p]
      BY <2>4, <3>3, <3>5
    <3>7. PreflightOk(d.change, vault)
      <4>1. touched'[m] = touched[m]
        BY <2>2 DEF MarkTouched
      <4> QED
        BY <2>7, <3>1, <4>1 DEF ChecksStillHold
    <3> QED
      BY <3>4, <3>6, <3>7, PreflightIsLocal
  <2>8. ChecksStillHold'
    BY <2>6, <2>7 DEF ChecksStillHold
  <2> QED
    BY <1>1, <2>3, <2>5, <2>8
<1>7. CASE Finalize(m)
  <2> DEFINE applied == {Applied(e.change) : e \in plan[m].done}
             failed == {Failed(e.change) : e \in plan[m].failed}
  <2>1. \A r \in applied \cup failed : WellFormed(r)
    <3>1. \A e \in plan[m].done \cup plan[m].failed :
             /\ e.change \in StagedChanges
             /\ WellFormed(e.change)
             /\ e.change.status \in ApplyableStatuses
      BY <1>2 DEF PlanWellFormed, Entries
    <3> QED
      BY <3>1, AppliedIsWellFormed, ReviewKeepsWellFormed
  <2> HIDE DEF applied, failed
  <2>2. staged' = staged \/ staged' = ReplaceById(staged, applied \cup failed)
    BY <1>7 DEF Finalize, EndSession, UpdateList, applied, failed
  <2>3. WellFormedRecords'
    BY <2>1, <2>2, UpdateWellFormed
  <2> QED
    BY <1>1, <1>7, <2>3, SessionEnds DEF Finalize, EndSession
<1> QED
  BY <1>3, <1>4, <1>5, <1>6, <1>7 DEF WriteStep

(* A crash leaves no session; an unload leaves each where it was.           *)
LEMMA InvRestart ==
  ASSUME IInv, Unload \/ Crash
  PROVE  IInv'
<1> USE DEF IInv
<1>1. TypeOK'
  BY RestartType
<1>2. WellFormedRecords' /\ ArtifactsWellFormed'
  BY NoFlowType DEF Unload, Crash, Restart, WellFormedRecords, ArtifactsWellFormed
<1>3. CASE Crash
  <2>1. \A m \in Sessions : plan'[m] = NoPlan
    BY <1>3 DEF Crash
  <2>2. SessionsOk'
    BY <2>1, IdleSessionOk DEF SessionsOk
  <2>3. ChecksStillHold'
    BY <2>1 DEF ChecksStillHold, Unfinished, NoPlan
  <2> QED
    BY <1>1, <1>2, <2>2, <2>3
<1>4. CASE Unload
  <2>1. \A m \in Sessions :
           /\ plan'[m].pc = plan[m].pc
           /\ plan[m].pc = "idle" => plan'[m] = plan[m]
           /\ plan'[m].todo = plan[m].todo
           /\ plan'[m].conflicted = plan[m].conflicted
           /\ plan'[m].pending = plan[m].pending
           /\ plan'[m].open = plan[m].open
           /\ plan'[m].done = plan[m].done
           /\ plan'[m].failed = plan[m].failed
    BY <1>4, PlanFields DEF Unload, Plans
  <2>2. \A m \in Sessions : /\ Unfinished(m)' = Unfinished(m)
                            /\ Selected(m)' = Selected(m)
    BY <2>1 DEF Unfinished, Selected
  <2>3. \A m \in Sessions : PhaseInOrder(m)'
    BY <2>1 DEF SessionsOk, PhaseInOrder
  <2>4. \A m \in Sessions : BatchDisjoint(m)'
    BY <2>1, <2>2 DEF SessionsOk, BatchDisjoint
  <2>5. \A m \in Sessions : PlanWellFormed(m)'
    BY <2>1, <2>2 DEF SessionsOk, PlanWellFormed
  <2>6. SessionsOk'
    BY <2>3, <2>4, <2>5 DEF SessionsOk
  <2>7. ChecksStillHold'
    BY <1>4, <2>2, QuietStep DEF Unload, Restart
  <2> QED
    BY <1>1, <1>2, <2>6, <2>7
<1> QED
  BY <1>3, <1>4

(* Every step keeps the inductive invariant.                                *)
LEMMA InvNext == IInv /\ [Next]_vars => IInv'
<1> SUFFICES ASSUME IInv, [Next]_vars
             PROVE  IInv'
  OBVIOUS
<1>1. CASE Next
  BY <1>1, InvUserEdit, InvFlowStep, InvReviewStep, InvCheckStep, InvWriteStep,
     InvRestart DEF Next, SessionStep
<1>2. CASE UNCHANGED vars
  BY <1>2, SamePlanOk, QuietStep DEF vars, IInv, TypeOK, SessionsOk, WellFormedRecords,
     ArtifactsWellFormed, Unfinished
<1> QED
  BY <1>1, <1>2

-----------------------------------------------------------------------------
(* The theorems *)

(* The invariants and the type hold in every reachable state.               *)
LEMMA InvIsInvariant == Spec => []IInv
<1>1. Init => IInv
  BY InvInit
<1>2. IInv /\ [Next]_vars => IInv'
  BY InvNext
<1> QED
  BY <1>1, <1>2, PTL DEF Spec

(* No record on the list ever makes assertValidRecord throw.                *)
THEOREM RecordsWellFormed == Spec => []WellFormedRecords
<1>1. IInv => WellFormedRecords
  BY DEF IInv
<1> QED
  BY <1>1, InvIsInvariant, PTL

(* A session's checks hold until it writes, unless someone else writes to   *)
(* the same note: the writes of its own batch never invalidate them.        *)
THEOREM ChecksHoldAtWrite == Spec => []ChecksStillHold
<1>1. IInv => ChecksStillHold
  BY DEF IInv
<1> QED
  BY <1>1, InvIsInvariant, PTL

(* Only ApplyEntry adds to what a session has written.                      *)
LEMMA OnlyApplyEntryPerforms ==
  ASSUME IInv, Next, NEW m \in Sessions, NEW e, Performs(m, e)
  PROVE  Executing(m) /\ \E d \in Unfinished(m) : ApplyEntry(m, d)
<1> USE PlanFields DEF IInv, Performs
<1>1. plan'[m] # plan[m] /\ plan'[m].done # {}
  OBVIOUS
<1>2. ASSUME NEW n \in Sessions \ {m}, SessionStep(n)
      PROVE  FALSE
  <2>1. plan'[m] = plan[m]
    BY <1>2 DEF SessionStep, CheckStep, WriteStep, ChangePassesPreflight, PlanEntry,
       ChangeFailsPreflight, PreflightFault, RefuseChange, AcceptPlan, RefusePlan,
       WriteBackup, BackupFault, ApplyEntry, EntryFails, Finalize, EndSession, Succeed, Fail, TypeOK
  <2> QED
    BY <1>1, <2>1
<1>3. CASE SessionStep(m)
  <2>1. ASSUME CheckStep(m)
        PROVE  FALSE
    <3>1. ASSUME NEW r \in plan[m].todo, ChangePassesPreflight(m, r)
          PROVE  plan'[m].done = plan[m].done
      BY <3>1 DEF ChangePassesPreflight, PlanEntry, TypeOK, Plans
    <3>2. ASSUME NEW r \in plan[m].todo, ChangeFailsPreflight(m, r) \/ PreflightFault(m, r)
          PROVE  plan'[m].done = plan[m].done
      BY <3>2 DEF ChangeFailsPreflight, PreflightFault, RefuseChange, TypeOK, Plans
    <3>3. CASE AcceptPlan(m)
      BY <1>1, <3>3 DEF AcceptPlan, TypeOK, Plans
    <3>4. CASE RefusePlan(m)
      BY <1>1, <3>4 DEF RefusePlan, EndSession, NoPlan, TypeOK
    <3> QED
      BY <2>1, <3>1, <3>2, <3>3, <3>4 DEF CheckStep
  <2>2. CASE WriteStep(m)
    <3>1. ASSUME NEW d \in plan[m].pending, WriteBackup(m, d) \/ BackupFault(m, d)
          PROVE  plan'[m].done = plan[m].done
      BY <3>1 DEF WriteBackup, BackupFault, Fail, TypeOK, Plans
    <3>2. ASSUME NEW d \in plan[m].pending \cup plan[m].open, EntryFails(m, d)
          PROVE  plan'[m].done = plan[m].done
      BY <3>2 DEF EntryFails, Fail, TypeOK, Plans
    <3>3. CASE Finalize(m)
      BY <1>1, <3>3 DEF Finalize, EndSession, NoPlan, TypeOK
    <3>4. \E d \in Unfinished(m) : ApplyEntry(m, d)
      BY <2>2, <3>1, <3>2, <3>3 DEF WriteStep, Unfinished
    <3> QED
      BY <3>4 DEF ApplyEntry
  <2> QED
    BY <1>3, <2>1, <2>2 DEF SessionStep
<1>4. CASE \E p \in Paths, content \in MaybeContents : UserEdit(p, content)
  BY <1>1, <1>4 DEF UserEdit
<1>5. CASE \E f \in Flows : FlowStep(f)
  BY <1>1, <1>5 DEF FlowStep, ReadNotes, StageChange, BuildArtifact, PushArtifacts,
     AbandonFlow
<1>6. CASE ReviewStep
  <2>1. plan'[m] = plan[m] \/ plan'[m].done = {}
    BY <1>6 DEF ReviewStep, Approve, Reject, Dismiss, Retry, Review, StartApply,
       RefuseDuplicatePaths, NoPlan, TypeOK
  <2> QED
    BY <1>1, <2>1
<1>7. CASE Unload \/ Crash
  <2>1. plan'[m].done = plan[m].done \/ plan'[m].done = {}
    BY <1>7 DEF Unload, Crash, NoPlan, TypeOK, Plans
  <2> QED
    BY <1>1, <2>1
<1> QED
  BY <1>2, <1>3, <1>4, <1>5, <1>6, <1>7 DEF Next

(* Nothing of a selection is written before all of it is checked, nor when  *)
(* one record of it was refused.                                            *)
THEOREM PlansAreAllOrNothing == Spec => AllOrNothing
<1>1. ASSUME IInv, [Next]_vars, NEW m \in Sessions, NEW e \in Unfinished(m), Performs(m, e)
      PROVE  plan[m].todo \cup plan[m].conflicted = {}
  <2>1. CASE Next
    <3>1. Executing(m)
      BY <1>1, <2>1, OnlyApplyEntryPerforms
    <3> QED
      BY <1>1, <3>1 DEF IInv, SessionsOk, PhaseInOrder, Executing
  <2>2. CASE UNCHANGED vars
    BY <1>1, <2>2 DEF Performs, vars
  <2> QED
    BY <1>1, <2>1, <2>2
<1>2. IInv /\ [Next]_vars =>
        [\A m \in Sessions : \A e \in Unfinished(m) :
           Performs(m, e) => plan[m].todo \cup plan[m].conflicted = {}]_vars
  BY <1>1
<1> QED
  BY <1>2, InvIsInvariant, PTL DEF Spec, AllOrNothing

(* Updating a list by id keeps every id.                                    *)
LEMMA ReplaceByIdKeepsIds ==
  ASSUME NEW records, NEW changed
  PROVE  ChangeIds(records) \subseteq ChangeIds(ReplaceById(records, changed))
BY DEF ChangeIds, ReplaceById

(* A change leaves the list only with the plugin, however staging, review   *)
(* and apply interleave.                                                    *)
THEOREM StagedChangesAreKept == Spec => NoStagedChangeLost
<1>1. ASSUME TypeOK, [Next]_vars, restarts' = restarts
      PROVE  ChangeIds(staged) \subseteq ChangeIds(staged')
  <2> USE DEF ChangeIds
  <2>1. CASE UNCHANGED vars
    BY <2>1 DEF vars
  <2>2. CASE \E p \in Paths, content \in MaybeContents : UserEdit(p, content)
    BY <2>2 DEF UserEdit
  <2>3. CASE \E f \in Flows : FlowStep(f)
    BY <2>3 DEF FlowStep, ReadNotes, StageChange, BuildArtifact, PushArtifacts, AbandonFlow
  <2>4. CASE ReviewStep
    <3>1. staged' = staged \/ \E changed : staged' = ReplaceById(staged, changed)
      BY <2>4 DEF ReviewStep, Approve, Reject, Dismiss, Retry, Review, StartApply,
         RefuseDuplicatePaths
    <3> QED
      BY <3>1, ReplaceByIdKeepsIds
  <2>5. CASE \E m \in Sessions : SessionStep(m)
    <3>1. staged' = staged \/ \E changed : staged' = ReplaceById(staged, changed)
      BY <2>5 DEF SessionStep, CheckStep, WriteStep, ChangePassesPreflight, PlanEntry,
         ChangeFailsPreflight, PreflightFault, AcceptPlan, RefusePlan, EndSession, WriteBackup,
         BackupFault, ApplyEntry, EntryFails, Finalize, EndSession, UpdateList
    <3> QED
      BY <3>1, ReplaceByIdKeepsIds
  <2>6. CASE Unload \/ Crash
    BY <1>1, <2>6 DEF Unload, Crash, Restart, TypeOK
  <2> QED
    BY <1>1, <2>1, <2>2, <2>3, <2>4, <2>5, <2>6 DEF Next
<1>2. TypeOK /\ [Next]_vars =>
        [restarts' = restarts => ChangeIds(staged) \subseteq ChangeIds(staged')]_vars
  BY <1>1
<1> QED
  BY <1>2, TypeCorrect, PTL DEF Spec, NoStagedChangeLost

-----------------------------------------------------------------------------
(* What each step of a session makes of its plan                            *)

OthersKeepPlan(m) == \A n \in Sessions \ {m} : plan'[n] = plan[n]

LEMMA PlanEntryFields ==
  ASSUME TypeOK, NEW m \in Sessions, NEW r \in plan[m].todo, PlanEntry(m, r)
  PROVE  /\ OthersKeepPlan(m)
         /\ plan'[m].todo = plan[m].todo \ {r}
         /\ plan'[m].conflicted = plan[m].conflicted
         /\ plan'[m].pending =
                plan[m].pending \cup {[change |-> r, current |-> vault[r.target]]}
         /\ plan'[m].open = plan[m].open
         /\ plan'[m].done = plan[m].done
         /\ plan'[m].failed = plan[m].failed
BY PlanFields DEF PlanEntry, OthersKeepPlan, TypeOK, Plans

LEMMA RefuseChangeFields ==
  ASSUME TypeOK, NEW m \in Sessions, NEW r \in plan[m].todo, RefuseChange(m, r)
  PROVE  /\ OthersKeepPlan(m)
         /\ plan'[m].todo = plan[m].todo \ {r}
         /\ plan'[m].conflicted = plan[m].conflicted \cup {MarkConflicted(r)}
         /\ plan'[m].pending = plan[m].pending
         /\ plan'[m].open = plan[m].open
         /\ plan'[m].done = plan[m].done
         /\ plan'[m].failed = plan[m].failed
BY PlanFields DEF RefuseChange, OthersKeepPlan, TypeOK, Plans

LEMMA AcceptPlanFields ==
  ASSUME TypeOK, NEW m \in Sessions, AcceptPlan(m)
  PROVE  /\ OthersKeepPlan(m)
         /\ plan'[m].todo = plan[m].todo
         /\ plan'[m].conflicted = plan[m].conflicted
         /\ plan'[m].pending = plan[m].pending
         /\ plan'[m].open = plan[m].open
         /\ plan'[m].done = plan[m].done
         /\ plan'[m].failed = plan[m].failed
BY PlanFields DEF AcceptPlan, OthersKeepPlan, TypeOK, Plans

LEMMA WriteBackupFields ==
  ASSUME TypeOK, NEW m \in Sessions, NEW e \in plan[m].pending, WriteBackup(m, e)
  PROVE  /\ OthersKeepPlan(m)
         /\ plan'[m].todo = plan[m].todo
         /\ plan'[m].conflicted = plan[m].conflicted
         /\ plan'[m].pending = plan[m].pending \ {e}
         /\ plan'[m].open = {e} /\ plan[m].open = {}
         /\ plan'[m].done = plan[m].done
         /\ plan'[m].failed = plan[m].failed
BY PlanFields DEF WriteBackup, OthersKeepPlan, TypeOK, Plans

(* An entry is over, one way or the other.                                  *)
LEMMA OutcomeFields ==
  ASSUME TypeOK, NEW m \in Sessions, NEW e, Succeed(m, e) \/ Fail(m, e)
  PROVE  /\ OthersKeepPlan(m)
         /\ plan'[m].todo = plan[m].todo
         /\ plan'[m].conflicted = plan[m].conflicted
         /\ plan'[m].pending = plan[m].pending \ {e}
         /\ plan'[m].open = {}
         /\ Succeed(m, e) => /\ plan'[m].done = plan[m].done \cup {e}
                             /\ plan'[m].failed = plan[m].failed
         /\ Fail(m, e) => /\ plan'[m].done = plan[m].done
                          /\ plan'[m].failed = plan[m].failed \cup {e}
<1>1. CASE Succeed(m, e)
  <2>1. ~Fail(m, e) \/ plan'[m].done = plan[m].done
    BY PlanFields DEF Fail, TypeOK, Plans
  <2>2. ~Fail(m, e) \/ plan'[m].failed = plan[m].failed \cup {e}
    BY PlanFields DEF Fail, TypeOK, Plans
  <2> QED
    BY <1>1, <2>1, <2>2, PlanFields DEF Succeed, OthersKeepPlan, TypeOK, Plans
<1>2. CASE Fail(m, e)
  <2>1. ~Succeed(m, e) \/ plan'[m].failed = plan[m].failed
    BY PlanFields DEF Succeed, TypeOK, Plans
  <2>2. ~Succeed(m, e) \/ plan'[m].done = plan[m].done \cup {e}
    BY PlanFields DEF Succeed, TypeOK, Plans
  <2> QED
    BY <1>2, <2>1, <2>2, PlanFields DEF Fail, OthersKeepPlan, TypeOK, Plans
<1> QED
  BY <1>1, <1>2

LEMMA EndSessionFields ==
  ASSUME TypeOK, NEW m \in Sessions, NEW changed, EndSession(m, changed)
  PROVE  /\ OthersKeepPlan(m)
         /\ plan'[m] = NoPlan
         /\ staged' = staged \/ staged' = ReplaceById(staged, changed)
BY DEF EndSession, UpdateList, OthersKeepPlan, TypeOK

(* An unload changes of a plan only who waits for it.                       *)
LEMMA UnloadFields ==
  ASSUME TypeOK, NEW m \in Sessions, Unload
  PROVE  /\ plan'[m].todo = plan[m].todo
         /\ plan'[m].conflicted = plan[m].conflicted
         /\ plan'[m].pending = plan[m].pending
         /\ plan'[m].open = plan[m].open
         /\ plan'[m].done = plan[m].done
         /\ plan'[m].failed = plan[m].failed
BY PlanFields DEF Unload, Plans

-----------------------------------------------------------------------------
(* Backups: what a record says of the note before it is what a session that *)
(* deletes or moves the note finds there, and what it backs up.             *)

Held(m) ==
    plan[m].todo \cup plan[m].conflicted
        \cup {e.change : e \in Unfinished(m) \cup plan[m].done \cup plan[m].failed}

(* Every record there is, on the list, in a flow or in a session.           *)
Known ==
    staged \cup (UNION {flow[f].artifacts : f \in Flows})
           \cup (UNION {Held(m) : m \in Sessions})

(* What a record keeps of its making through every review and every apply.  *)
Variant(r, s) ==
    /\ r.op = s.op /\ r.target = s.target /\ r.dest = s.dest /\ r.command = s.command
    /\ r.before = s.before /\ r.after = s.after /\ r.stamp = s.stamp
    /\ s.blocked => r.blocked

(* A delete or a move of a note that was not there is blocked for ever; the *)
(* id of a move tells the content of the note.                              *)
Origin(r) ==
    /\ IsDestructive(r) /\ r.before = Absent => r.blocked
    /\ r.op = "move-note" => r.after = r.before

Origins == \A r \in Known : Origin(r)

(* A session that deletes or moves a note has read what the record says.    *)
CurrentIsBefore ==
    \A m \in Sessions : \A e \in Unfinished(m) :
        IsDestructive(e.change) => e.current = e.change.before /\ e.change.before # Absent

HasBackup(r) == \E b \in backups : b.id = ChangeId(r) /\ b.content = r.before

(* What is open has its backup, though another session may have written it, *)
(* unless it is a deletion and that session has put something else there.   *)
BackedUp ==
    \A m \in Sessions : \A e \in plan[m].open :
        /\ IsDestructive(e.change)
        /\ \/ HasBackup(e.change)
           \/ e.change.op = "delete-note" /\ ChangeId(e.change) \in touched[m]

BackupInv == IInv /\ Origins /\ CurrentIsBefore /\ BackedUp

LEMMA TransitionsAreVariants ==
  ASSUME NEW r \in StagedChanges
  PROVE  /\ Variant(r, r)
         /\ Variant(MarkConflicted(r), r) /\ Variant(Approved(r), r)
         /\ Variant(Rejected(r), r) /\ Variant(Dismissed(r), r)
         /\ Variant(Retried(r), r) /\ Variant(Applied(r), r) /\ Variant(Failed(r), r)
BY DEF Variant, StagedChanges, MarkConflicted, Approved, Rejected, Dismissed, Retried,
       Applied, Failed, WithStatus

(* Equal ids of moves tell equal notes, whatever segments of paths coincide. *)
LEMMA IdTellsBefore ==
  ASSUME NEW r, NEW s, Origin(r), Origin(s), r.op = "move-note", ChangeId(r) = ChangeId(s)
  PROVE  r.before = s.before
<1>1. r.op = s.op /\ r.after = s.after
  BY DEF ChangeId
<1> QED
  BY <1>1 DEF Origin

(* Records that are variants of records known keep their origins.           *)
LEMMA VariantsKeepOrigins ==
  ASSUME Origins, \A r \in Known' : \E s \in Known : Variant(r, s)
  PROVE  Origins'
<1>1. ASSUME NEW r, NEW s \in Known, Variant(r, s)
      PROVE  Origin(r)
  BY <1>1 DEF Origins, Origin, Variant, IsDestructive
<1> QED
  BY <1>1 DEF Origins

(* What is built is of a known origin.                                      *)
LEMMA BuildHasOrigin ==
  ASSUME NEW command \in Commands, NEW op \in OperationKinds, NEW target \in Paths,
         NEW dest \in Paths \cup {NoPath}, NEW proposed, NEW notes, NEW records, NEW now \in Nat
  PROVE  Origin(Build(command, op, target, dest, proposed, notes, records, now))
<1> DEFINE r == Build(command, op, target, dest, proposed, notes, records, now)
<1>1. /\ r.op = op /\ r.before = notes[target]
      /\ r.after = After(op, notes[target], proposed)
      /\ r.blocked = BlockedAtBuild(op, target, dest, notes, records)
  BY DEF Build
<1> HIDE DEF r
<1>2. op \in DestructiveOps /\ notes[target] = Absent
        => BlockedAtBuild(op, target, dest, notes, records)
  BY DEF BlockedAtBuild, DestructiveOps
<1>3. op = "move-note" => r.after = r.before
  BY <1>1 DEF After
<1>5. IsDestructive(r) /\ r.before = Absent => r.blocked
  <2> SUFFICES ASSUME op \in DestructiveOps, notes[target] = Absent
               PROVE  r.blocked
    BY <1>1 DEF IsDestructive
  <2>1. BlockedAtBuild(op, target, dest, notes, records) = TRUE
    BY <1>2 DEF BlockedAtBuild, HasActiveDuplicate
  <2> QED
    BY <1>1, <2>1
<1>6. Origin(r)
  BY <1>1, <1>3, <1>5 DEF Origin
<1> QED
  BY <1>6 DEF r

(* Records do not get lost in what a session makes of them.                 *)
LEMMA KnownAreStaged ==
  ASSUME TypeOK
  PROVE  /\ Known \subseteq StagedChanges
         /\ \A m \in Sessions : Held(m) \subseteq Known
         /\ staged \subseteq Known
         /\ \A f \in Flows : flow[f].artifacts \subseteq Known
<1>1. \A m \in Sessions : Held(m) \subseteq StagedChanges
  BY PlanFields DEF Held, Unfinished, Entries
<1>2. \A f \in Flows : flow[f].artifacts \subseteq StagedChanges
  BY DEF TypeOK, FlowStates
<1> QED
  BY <1>1, <1>2 DEF Known, TypeOK

(* A step that only moves records about, or marks them, keeps the origins.  *)
LEMMA OriginsKept ==
  ASSUME Origins,
         \A r \in staged' : \E s \in Known : Variant(r, s),
         \A f \in Flows : \A r \in flow'[f].artifacts : \E s \in Known : Variant(r, s),
         \A m \in Sessions : \A r \in Held(m)' : \E s \in Known : Variant(r, s)
  PROVE  Origins'
<1>1. \A r \in Known' : \E s \in Known : Variant(r, s)
  BY DEF Known
<1> QED
  BY <1>1, VariantsKeepOrigins

(* The entries keep their backups in a step that writes none and opens none. *)
LEMMA BackupsKept ==
  ASSUME CurrentIsBefore, BackedUp, backups' = backups,
         \A m \in Sessions : /\ Unfinished(m)' \subseteq Unfinished(m)
                             /\ plan'[m].open \subseteq plan[m].open
                             /\ plan'[m].open # {} => touched[m] \subseteq touched'[m]
  PROVE  CurrentIsBefore' /\ BackedUp'
BY DEF CurrentIsBefore, BackedUp, HasBackup

(* A list updated by variants of known records holds such variants.         *)
LEMMA UpdatedVariants ==
  ASSUME TypeOK, NEW changed, \A r \in changed : \E s \in Known : Variant(r, s),
         staged' = staged \/ staged' = ReplaceById(staged, changed)
  PROVE  \A r \in staged' : \E s \in Known : Variant(r, s)
<1>1. \A r \in staged : Variant(r, r) /\ r \in Known
  BY KnownAreStaged DEF Variant
<1>2. staged' \subseteq staged \cup changed
  BY ReplaceByIdFrom
<1> QED
  BY <1>1, <1>2

(* Nothing is known of a session that is not running.                       *)
LEMMA NoPlanHoldsNothing ==
  ASSUME NEW m \in Sessions, plan'[m] = NoPlan
  PROVE  Held(m)' = {} /\ Unfinished(m)' = {} /\ plan'[m].open = {}
BY DEF Held, Unfinished, NoPlan

LEMMA SamePlanHolds ==
  ASSUME NEW m \in Sessions, plan'[m] = plan[m]
  PROVE  /\ Held(m)' = Held(m) /\ Unfinished(m)' = Unfinished(m)
         /\ plan'[m].open = plan[m].open
         /\ \A r \in Held(m)' : \E s \in Held(m) : Variant(r, s)
BY DEF Held, Unfinished, Variant

(* Nothing is staged at first.                                              *)
LEMMA BackupInit == Init => BackupInv
<1> SUFFICES ASSUME Init
             PROVE  BackupInv
  OBVIOUS
<1>1. Known = {}
  BY DEF Init, Known, Held, Unfinished, NoPlan, NoFlow
<1>2. Origins
  BY <1>1 DEF Origins
<1>3. CurrentIsBefore /\ BackedUp
  BY DEF Init, CurrentIsBefore, BackedUp, Unfinished, NoPlan
<1> QED
  BY <1>2, <1>3, InvInit DEF BackupInv

(* A user edit touches no record and no backup.                             *)
LEMMA BackupUserEdit ==
  ASSUME BackupInv, NEW p \in Paths, NEW content \in MaybeContents, UserEdit(p, content)
  PROVE  BackupInv'
<1>1. UNCHANGED <<backups, staged, plan, flow>>
  BY DEF UserEdit
<1>2. Origins'
  BY <1>1 DEF BackupInv, Origins, Known, Held, Unfinished
<1>3. \A m \in Sessions : touched[m] \subseteq touched'[m]
  BY DEF UserEdit, MarkTouched
<1>4. CurrentIsBefore' /\ BackedUp'
  <2>1. \A m \in Sessions : Unfinished(m)' = Unfinished(m)
    BY <1>1 DEF Unfinished
  <2> QED
    BY <1>1, <1>3, <2>1, BackupsKept DEF BackupInv
<1> QED
  BY <1>2, <1>4, InvUserEdit DEF BackupInv

(* A flow adds at most one record, which is new.                            *)
LEMMA BackupFlowStep ==
  ASSUME BackupInv, NEW f \in Flows, FlowStep(f)
  PROVE  BackupInv'
<1> USE NoFlowType
<1>1. TypeOK /\ Origins
  BY DEF BackupInv, IInv
<1>2. UNCHANGED <<backups, plan>>
  BY DEF FlowStep, ReadNotes, StageChange, BuildArtifact, PushArtifacts, AbandonFlow
<1>3. \A m \in Sessions : Held(m)' = Held(m)
  BY <1>2 DEF Held, Unfinished
<1>4. ASSUME staged' \subseteq Known,
             \A g \in Flows : flow'[g].artifacts \subseteq Known
      PROVE  Origins'
  <2>1. \A r \in Known : Variant(r, r)
    BY DEF Variant
  <2>2. \A m \in Sessions : \A r \in Held(m)' : r \in Known
    BY <1>1, <1>3, KnownAreStaged
  <2> QED
    BY <1>1, <1>4, <2>1, <2>2, OriginsKept
<1>6. ASSUME NEW new, Origin(new), staged' \subseteq Known \cup {new},
             \A g \in Flows : flow'[g].artifacts \subseteq Known \cup {new}
      PROVE  Origins'
  <2>1. \A m \in Sessions : Held(m)' \subseteq Known
    BY <1>1, <1>3, KnownAreStaged
  <2>2. \A r \in Known' : r = new \/ r \in Known
    BY <1>6, <2>1 DEF Known
  <2> QED
    BY <1>1, <1>6, <2>2 DEF Origins
<1>7. Origins'
  <2> USE <1>1, KnownAreStaged
  <2>0. minute \in Nat /\ flow \in [Flows -> FlowStates]
    BY DEF TypeOK
  <2>1. CASE ReadNotes(f)
    <3>1. staged' = staged
      BY <2>1 DEF ReadNotes
    <3>2. \A g \in Flows : flow'[g].artifacts \subseteq flow[g].artifacts
      BY <2>0, <2>1 DEF ReadNotes, NoFlow
    <3> QED
      BY <1>4, <3>1, <3>2
  <2>2. ASSUME NEW command \in Commands, NEW op \in Operations, NEW target \in Paths,
               NEW dest \in Paths \cup {NoPath}, NEW proposed \in Proposals(op),
               StageChange(f, command, op, target, dest, proposed)
        PROVE  Origins'
    <3> DEFINE new == Build(command, op, target, dest, proposed,
                            NotesFor(op, flow[f].notes), staged, minute')
    <3>0. minute' \in Nat
      BY <2>0, <2>2 DEF StageChange, Minutes
    <3>1. Origin(new)
      BY <3>0, BuildHasOrigin, OperationsAreKinds
    <3>2. staged' = staged \cup {new}
      BY <2>2 DEF StageChange
    <3>3. flow' = [flow EXCEPT ![f] = NoFlow]
      BY <2>2 DEF StageChange
    <3> HIDE DEF new
    <3>4. \A g \in Flows : flow'[g].artifacts \subseteq flow[g].artifacts
      BY <2>0, <3>3
    <3> QED
      BY <1>6, <3>1, <3>2, <3>4
  <2>3. ASSUME NEW command \in Commands, NEW target \in Paths, NEW proposed \in Contents,
               BuildArtifact(f, command, target, proposed)
        PROVE  Origins'
    <3> DEFINE new == Build(command, "create-note", target, NoPath, proposed,
                            Placeholders(flow[f].notes), staged \cup flow[f].artifacts, minute)
    <3>1. Origin(new)
      <4>1. "create-note" \in OperationKinds
        BY DEF OperationKinds
      <4> QED
        BY <2>0, <4>1, BuildHasOrigin
    <3>2. staged' = staged
      BY <2>3 DEF BuildArtifact
    <3>3. flow' = [flow EXCEPT ![f].artifacts = @ \cup {new}]
      BY <2>3 DEF BuildArtifact
    <3> HIDE DEF new
    <3>4. \A g \in Flows : flow'[g].artifacts \subseteq flow[g].artifacts \cup {new}
      BY <2>0, <3>3 DEF FlowStates
    <3> QED
      BY <1>6, <3>1, <3>2, <3>4
  <2>4. CASE PushArtifacts(f)
    <3>1. staged' = staged \cup flow[f].artifacts
      BY <2>4 DEF PushArtifacts
    <3>2. \A g \in Flows : flow'[g].artifacts \subseteq flow[g].artifacts
      BY <2>0, <2>4 DEF PushArtifacts
    <3> QED
      BY <1>4, <3>1, <3>2
  <2>5. CASE AbandonFlow(f)
    <3>1. staged' = staged
      BY <2>5 DEF AbandonFlow
    <3>2. \A g \in Flows : flow'[g].artifacts \subseteq flow[g].artifacts
      BY <2>0, <2>5 DEF AbandonFlow
    <3> QED
      BY <1>4, <3>1, <3>2
  <2> QED
    BY <2>1, <2>2, <2>3, <2>4, <2>5 DEF FlowStep
<1>9. touched' = touched
  BY DEF FlowStep, ReadNotes, StageChange, BuildArtifact, PushArtifacts, AbandonFlow
<1>8. CurrentIsBefore' /\ BackedUp'
  <2>1. \A m \in Sessions : Unfinished(m)' = Unfinished(m)
    BY <1>2 DEF Unfinished
  <2> QED
    BY <1>2, <1>9, <2>1, BackupsKept DEF BackupInv
<1> QED
  BY <1>7, <1>8, InvFlowStep DEF BackupInv

(* Review marks records; an apply takes its selection from the list.        *)
LEMMA BackupReviewStep ==
  ASSUME BackupInv, ReviewStep
  PROVE  BackupInv'
<1>1. TypeOK /\ Origins
  BY DEF BackupInv, IInv
<1>2. UNCHANGED <<backups, flow, touched>>
  BY DEF ReviewStep, Approve, Reject, Dismiss, Retry, Review, StartApply, RefuseDuplicatePaths
<1>3. \A r \in Known : Variant(r, r)
  BY DEF Variant
<1>4. \A f \in Flows : \A r \in flow'[f].artifacts : \E s \in Known : Variant(r, s)
  BY <1>1, <1>2, <1>3, KnownAreStaged
<1>5. ASSUME NEW changed, plan' = plan, staged' = ReplaceById(staged, changed),
             \A r \in changed : \E s \in Known : Variant(r, s)
      PROVE  BackupInv'
  <2>1. \A m \in Sessions : Held(m)' = Held(m)
    BY <1>5 DEF Held, Unfinished
  <2>2. \A m \in Sessions : \A r \in Held(m)' : \E s \in Known : Variant(r, s)
    BY <1>1, <1>3, <2>1, KnownAreStaged
  <2>3. \A r \in staged' : \E s \in Known : Variant(r, s)
    BY <1>1, <1>5, UpdatedVariants
  <2>4. Origins'
    BY <1>1, <1>2, <1>4, <2>2, <2>3, OriginsKept
  <2>5. CurrentIsBefore' /\ BackedUp'
    <3>1. \A m \in Sessions : Unfinished(m)' = Unfinished(m)
      BY <1>5 DEF Unfinished
    <3> QED
      BY <1>2, <1>5, <3>1, BackupsKept DEF BackupInv
  <2> QED
    BY <2>4, <2>5, InvReviewStep DEF BackupInv
<1>6. \A r \in staged : r \in Known /\ r \in StagedChanges
  BY <1>1, KnownAreStaged
<1>7. ASSUME NEW selected \in SUBSET staged, Approve(selected)
      PROVE  BackupInv'
  <2>1. \A r \in {Approved(s) : s \in selected} : \E s \in Known : Variant(r, s)
    BY <1>6, TransitionsAreVariants
  <2> QED
    BY <1>5, <1>7, <2>1 DEF Approve, Review
<1>8. ASSUME NEW selected \in SUBSET staged, Reject(selected)
      PROVE  BackupInv'
  <2>1. \A r \in {Rejected(s) : s \in selected} : \E s \in Known : Variant(r, s)
    BY <1>6, TransitionsAreVariants
  <2> QED
    BY <1>5, <1>8, <2>1 DEF Reject, Review
<1>9. ASSUME NEW selected \in SUBSET staged, Dismiss(selected)
      PROVE  BackupInv'
  <2>1. \A r \in {Dismissed(s) : s \in selected} : \E s \in Known : Variant(r, s)
    BY <1>6, TransitionsAreVariants
  <2> QED
    BY <1>5, <1>9, <2>1 DEF Dismiss, Review
<1>10. ASSUME NEW selected \in SUBSET staged, Retry(selected)
       PROVE  BackupInv'
  <2>1. \A r \in {Retried(s) : s \in selected} : \E s \in Known : Variant(r, s)
    BY <1>6, TransitionsAreVariants
  <2> QED
    BY <1>5, <1>10, <2>1 DEF Retry, Review
<1>11. ASSUME NEW m \in Sessions, NEW selected \in SUBSET staged,
              RefuseDuplicatePaths(m, selected)
       PROVE  BackupInv'
  <2>1. \A r \in {MarkConflicted(s) : s \in selected} : \E s \in Known : Variant(r, s)
    BY <1>6, TransitionsAreVariants
  <2> QED
    BY <1>5, <1>11, <2>1 DEF RefuseDuplicatePaths
<1>12. ASSUME NEW m \in Sessions, NEW selected \in SUBSET staged, StartApply(m, selected)
       PROVE  BackupInv'
  <2> DEFINE pl == [NoPlan EXCEPT !.pc = "planning", !.todo = selected]
  <2>1. plan'[m] = pl /\ \A n \in Sessions \ {m} : plan'[n] = plan[n]
    BY <1>1, <1>12 DEF StartApply, TypeOK
  <2>2. /\ pl.todo = selected
        /\ pl.conflicted = {} /\ pl.pending = {} /\ pl.open = {}
        /\ pl.done = {} /\ pl.failed = {}
    BY DEF NoPlan
  <2> HIDE DEF pl
  <2>3. Held(m)' = selected /\ Unfinished(m)' = {} /\ plan'[m].open = {}
    BY <2>1, <2>2 DEF Held, Unfinished
  <2>4. \A n \in Sessions \ {m} : /\ Held(n)' = Held(n) /\ Unfinished(n)' = Unfinished(n)
                                  /\ plan'[n].open = plan[n].open
    BY <2>1, SamePlanHolds
  <2>5. \A n \in Sessions : \A r \in Held(n)' : \E s \in Known : Variant(r, s)
    BY <1>1, <1>3, <1>6, <2>3, <2>4, KnownAreStaged
  <2>6. \A r \in staged' : \E s \in Known : Variant(r, s)
    BY <1>3, <1>6, <1>12 DEF StartApply
  <2>7. Origins'
    BY <1>1, <1>2, <1>4, <2>5, <2>6, OriginsKept
  <2>8. CurrentIsBefore' /\ BackedUp'
    BY <1>2, <2>3, <2>4, BackupsKept DEF BackupInv
  <2> QED
    BY <2>7, <2>8, InvReviewStep DEF BackupInv
<1> QED
  BY <1>7, <1>8, <1>9, <1>10, <1>11, <1>12 DEF ReviewStep

(* A session that ends leaves its records, marked, on the list.             *)
LEMMA OriginsEndSession ==
  ASSUME BackupInv, NEW m \in Sessions, NEW changed, EndSession(m, changed),
         \A r \in changed : \E s \in Known : Variant(r, s)
  PROVE  Origins' /\ CurrentIsBefore' /\ BackedUp'
<1>1. TypeOK /\ Origins
  BY DEF BackupInv, IInv
<1>2. UNCHANGED <<backups, flow>>
  BY DEF EndSession
<1>3. \A r \in Known : Variant(r, r)
  BY DEF Variant
<1>4. OthersKeepPlan(m) /\ plan'[m] = NoPlan
  BY <1>1, EndSessionFields
<1>5. staged' = staged \/ staged' = ReplaceById(staged, changed)
  BY <1>1, EndSessionFields
<1>6. \A f \in Flows : \A r \in flow'[f].artifacts : \E s \in Known : Variant(r, s)
  BY <1>1, <1>2, <1>3, KnownAreStaged
<1>7. \A n \in Sessions : /\ Held(n)' \subseteq Held(n) /\ Unfinished(n)' \subseteq Unfinished(n)
                          /\ plan'[n].open \subseteq plan[n].open
  BY <1>4, SamePlanHolds, NoPlanHoldsNothing DEF OthersKeepPlan
<1>11. \A n \in Sessions : plan'[n].open # {} => touched[n] \subseteq touched'[n]
  <2>1. plan'[m].open = {}
    BY <1>4, NoPlanHoldsNothing
  <2>2. touched' = [touched EXCEPT ![m] = {}]
    BY DEF EndSession
  <2> QED
    BY <1>1, <2>1, <2>2 DEF TypeOK
<1>8. \A n \in Sessions : \A r \in Held(n)' : \E s \in Known : Variant(r, s)
  BY <1>1, <1>3, <1>7, KnownAreStaged
<1>9. \A r \in staged' : \E s \in Known : Variant(r, s)
  BY <1>1, <1>5, UpdatedVariants
<1>10. Origins'
  BY <1>1, <1>2, <1>6, <1>8, <1>9, OriginsKept
<1> QED
  BY <1>2, <1>7, <1>10, <1>11, BackupsKept DEF BackupInv

(* A step of a session that only moves its records about keeps the origins. *)
LEMMA OriginsMove ==
  ASSUME TypeOK, Origins, UNCHANGED <<staged, flow>>, NEW m \in Sessions,
         OthersKeepPlan(m), \A r \in Held(m)' : \E s \in Held(m) : Variant(r, s)
  PROVE  Origins'
<1>1. \A r \in Known : Variant(r, r)
  BY DEF Variant
<1>2. \A r \in staged' : \E s \in Known : Variant(r, s)
  BY <1>1, KnownAreStaged
<1>3. \A f \in Flows : \A r \in flow'[f].artifacts : \E s \in Known : Variant(r, s)
  BY <1>1, KnownAreStaged
<1>4. \A n \in Sessions : \A r \in Held(n)' : \E s \in Known : Variant(r, s)
  BY SamePlanHolds, KnownAreStaged DEF OthersKeepPlan
<1> QED
  BY <1>2, <1>3, <1>4, OriginsKept

(* A record that passes is not blocked: its note was there when it was      *)
(* proposed, is there now and has the same content.                         *)
LEMMA PassesWithBefore ==
  ASSUME BackupInv, NEW m \in Sessions, NEW r \in plan[m].todo, IsDestructive(r),
         r.status \in ApplyableStatuses, PreflightOk(r, vault)
  PROVE  vault[r.target] = r.before /\ r.before # Absent
<1>1. r \in Known /\ r \in StagedChanges
  BY PlanFields, KnownAreStaged DEF BackupInv, IInv, Held
<1>2. WellFormed(r)
  BY DEF BackupInv, IInv, SessionsOk, PlanWellFormed
<1>3. ~r.blocked
  BY <1>2 DEF WellFormed, ApplyableStatuses
<1>4. r.before # Absent
  BY <1>1, <1>3 DEF BackupInv, Origins, Origin
<1>5. r.op # "create-note"
  BY DEF IsDestructive, DestructiveOps
<1> QED
  BY <1>4, <1>5 DEF PreflightOk

(* The checks read what the record says, or refuse it.                      *)
LEMMA BackupCheckStep ==
  ASSUME BackupInv, NEW m \in Sessions, CheckStep(m)
  PROVE  BackupInv'
<1>1. TypeOK /\ Origins
  BY DEF BackupInv, IInv
<1> USE DEF OthersKeepPlan
<1>2. ASSUME NEW r \in plan[m].todo, ChangePassesPreflight(m, r)
      PROVE  BackupInv'
  <2> DEFINE e == [change |-> r, current |-> vault[r.target]]
  <2>1. UNCHANGED <<backups, staged, flow>>
    BY <1>2 DEF ChangePassesPreflight, PlanEntry
  <2>2. /\ OthersKeepPlan(m)
        /\ plan'[m].todo = plan[m].todo \ {r}
        /\ plan'[m].conflicted = plan[m].conflicted
        /\ plan'[m].pending = plan[m].pending \cup {e}
        /\ plan'[m].open = plan[m].open
        /\ plan'[m].done = plan[m].done
        /\ plan'[m].failed = plan[m].failed
    BY <1>1, <1>2, PlanEntryFields DEF ChangePassesPreflight
  <2>3. e.change = r /\ e.current = vault[r.target]
    OBVIOUS
  <2> HIDE DEF e
  <2>4. Unfinished(m)' = Unfinished(m) \cup {e}
    BY <2>2 DEF Unfinished
  <2>5. Held(m)' \subseteq Held(m)
    BY <2>2, <2>3, <2>4 DEF Held
  <2>6. Origins'
    <3>1. \A s \in Held(m) : Variant(s, s)
      BY DEF Variant
    <3> QED
      BY <1>1, <2>1, <2>2, <2>5, <3>1, OriginsMove
  <2>7. IsDestructive(r) => vault[r.target] = r.before /\ r.before # Absent
    BY <1>2, PassesWithBefore DEF ChangePassesPreflight
  <2>8. \A n \in Sessions \ {m} : Unfinished(n)' = Unfinished(n) /\ plan'[n].open = plan[n].open
    BY <2>2, SamePlanHolds
  <2>9. CurrentIsBefore'
    BY <2>3, <2>4, <2>7, <2>8 DEF BackupInv, CurrentIsBefore
  <2>10. BackedUp'
    <3>1. plan'[m].open = {}
      BY <1>2, <2>2 DEF BackupInv, IInv, SessionsOk, PhaseInOrder, ChangePassesPreflight, Checkable
    <3>2. \A n \in Sessions \ {m} : touched'[n] = touched[n]
      BY <1>1, <1>2 DEF ChangePassesPreflight, PlanEntry, TypeOK
    <3> QED
      BY <2>1, <2>8, <3>1, <3>2 DEF BackupInv, BackedUp, HasBackup
  <2> QED
    BY <2>6, <2>9, <2>10, InvCheckStep DEF BackupInv
<1>3. ASSUME NEW r \in plan[m].todo, ChangeFailsPreflight(m, r) \/ PreflightFault(m, r)
      PROVE  BackupInv'
  <2>1. UNCHANGED <<backups, staged, flow, touched>>
    BY <1>3 DEF ChangeFailsPreflight, PreflightFault
  <2>2. RefuseChange(m, r)
    BY <1>3 DEF ChangeFailsPreflight, PreflightFault
  <2>3. /\ OthersKeepPlan(m)
        /\ plan'[m].todo = plan[m].todo \ {r}
        /\ plan'[m].conflicted = plan[m].conflicted \cup {MarkConflicted(r)}
        /\ plan'[m].pending = plan[m].pending
        /\ plan'[m].open = plan[m].open
        /\ plan'[m].done = plan[m].done
        /\ plan'[m].failed = plan[m].failed
    BY <1>1, <2>2, RefuseChangeFields
  <2>4. Unfinished(m)' = Unfinished(m)
    BY <2>3 DEF Unfinished
  <2>5. \A s \in Held(m)' : s \in Held(m) \/ s = MarkConflicted(r)
    BY <2>3, <2>4 DEF Held
  <2>6. Variant(MarkConflicted(r), r) /\ r \in Held(m)
    BY <1>1, PlanFields, TransitionsAreVariants DEF Held
  <2>7. \A s \in Held(m)' : \E t \in Held(m) : Variant(s, t)
    <3>1. \A s \in Held(m) : Variant(s, s)
      BY DEF Variant
    <3> QED
      BY <2>5, <2>6, <3>1
  <2>8. Origins'
    BY <1>1, <2>1, <2>3, <2>7, OriginsMove
  <2>9. \A n \in Sessions : Unfinished(n)' = Unfinished(n) /\ plan'[n].open = plan[n].open
    BY <2>3, <2>4, SamePlanHolds
  <2>10. CurrentIsBefore' /\ BackedUp'
    BY <2>1, <2>9, BackupsKept DEF BackupInv
  <2> QED
    BY <2>8, <2>10, InvCheckStep DEF BackupInv
<1>4. CASE AcceptPlan(m)
  <2>1. UNCHANGED <<backups, staged, flow, touched>>
    BY <1>4 DEF AcceptPlan
  <2>2. /\ OthersKeepPlan(m)
        /\ plan'[m].todo = plan[m].todo
        /\ plan'[m].conflicted = plan[m].conflicted
        /\ plan'[m].pending = plan[m].pending
        /\ plan'[m].open = plan[m].open
        /\ plan'[m].done = plan[m].done
        /\ plan'[m].failed = plan[m].failed
    BY <1>1, <1>4, AcceptPlanFields
  <2>3. Unfinished(m)' = Unfinished(m)
    BY <2>2 DEF Unfinished
  <2>4. Held(m)' = Held(m)
    BY <2>2, <2>3 DEF Held
  <2>5. Origins'
    <3>1. \A s \in Held(m) : Variant(s, s)
      BY DEF Variant
    <3> QED
      BY <1>1, <2>1, <2>2, <2>4, <3>1, OriginsMove
  <2>6. \A n \in Sessions : Unfinished(n)' = Unfinished(n) /\ plan'[n].open = plan[n].open
    BY <2>2, <2>3, SamePlanHolds
  <2>7. CurrentIsBefore' /\ BackedUp'
    BY <2>1, <2>6, BackupsKept DEF BackupInv
  <2> QED
    BY <2>5, <2>7, InvCheckStep DEF BackupInv
<1>5. CASE RefusePlan(m)
  <2>1. \A r \in plan[m].conflicted : \E s \in Known : Variant(r, s)
    <3>1. \A r \in plan[m].conflicted : r \in Known /\ Variant(r, r)
      BY <1>1, KnownAreStaged DEF Held, Variant
    <3> QED
      BY <3>1
  <2>2. Origins' /\ CurrentIsBefore' /\ BackedUp'
    BY <1>5, <2>1, OriginsEndSession DEF RefusePlan
  <2> QED
    BY <2>2, InvCheckStep DEF BackupInv
<1> QED
  BY <1>2, <1>3, <1>4, <1>5 DEF CheckStep

(* An entry's end closes it and keeps its record.                           *)
LEMMA BackupOutcome ==
  ASSUME BackupInv, NEW m \in Sessions, NEW e \in Unfinished(m),
         Succeed(m, e) \/ Fail(m, e), UNCHANGED <<backups, staged, flow>>,
         \A n \in Sessions : touched[n] \subseteq touched'[n]
  PROVE  Origins' /\ CurrentIsBefore' /\ BackedUp'
<1>1. TypeOK /\ Origins
  BY DEF BackupInv, IInv
<1>2. /\ OthersKeepPlan(m)
      /\ plan'[m].todo = plan[m].todo
      /\ plan'[m].conflicted = plan[m].conflicted
      /\ plan'[m].pending = plan[m].pending \ {e}
      /\ plan'[m].open = {}
      /\ plan'[m].done \subseteq plan[m].done \cup {e}
      /\ plan'[m].failed \subseteq plan[m].failed \cup {e}
  <2>1. CASE Succeed(m, e)
    BY <1>1, <2>1, OutcomeFields
  <2>2. CASE Fail(m, e)
    BY <1>1, <2>2, OutcomeFields
  <2> QED
    BY <2>1, <2>2
<1>3. Unfinished(m)' \subseteq Unfinished(m)
  BY <1>2 DEF Unfinished
<1>4. Held(m)' \subseteq Held(m)
  BY <1>2, <1>3 DEF Held
<1>5. Origins'
  <2>1. \A s \in Held(m) : Variant(s, s)
    BY DEF Variant
  <2> QED
    BY <1>1, <1>2, <1>4, <2>1, OriginsMove
<1>6. \A n \in Sessions : /\ Unfinished(n)' \subseteq Unfinished(n)
                          /\ plan'[n].open \subseteq plan[n].open
  BY <1>2, <1>3, SamePlanHolds DEF OthersKeepPlan
<1> QED
  BY <1>5, <1>6, BackupsKept DEF BackupInv

(* The backup of an entry holds what the record says of the note.  It takes *)
(* the place of a backup with the same id: one of the same content, or the  *)
(* other session has on record that its own is gone.                        *)
LEMMA BackupWriteBackup ==
  ASSUME BackupInv, NEW m \in Sessions, NEW e \in plan[m].pending, WriteBackup(m, e)
  PROVE  Origins' /\ CurrentIsBefore' /\ BackedUp'
<1>1. TypeOK /\ Origins
  BY DEF BackupInv, IInv
<1>2. UNCHANGED <<staged, flow>>
  BY DEF WriteBackup
<1>3. /\ OthersKeepPlan(m)
      /\ plan'[m].todo = plan[m].todo
      /\ plan'[m].conflicted = plan[m].conflicted
      /\ plan'[m].pending = plan[m].pending \ {e}
      /\ plan'[m].open = {e} /\ plan[m].open = {}
      /\ plan'[m].done = plan[m].done
      /\ plan'[m].failed = plan[m].failed
  BY <1>1, WriteBackupFields
<1>4. Unfinished(m)' = Unfinished(m)
  BY <1>3 DEF Unfinished
<1>5. Held(m)' = Held(m)
  BY <1>3, <1>4 DEF Held
<1>6. Origins'
  <2>1. \A s \in Held(m) : Variant(s, s)
    BY DEF Variant
  <2> QED
    BY <1>1, <1>2, <1>3, <1>5, <2>1, OriginsMove
<1>7. \A n \in Sessions \ {m} : Unfinished(n)' = Unfinished(n) /\ plan'[n].open = plan[n].open
  BY <1>3, SamePlanHolds DEF OthersKeepPlan
<1>8. CurrentIsBefore'
  BY <1>4, <1>7 DEF BackupInv, CurrentIsBefore
<1>9. IsDestructive(e.change) /\ e \in Unfinished(m)
  BY DEF WriteBackup, Unfinished
<1>10. e.current = e.change.before
  BY <1>9 DEF BackupInv, CurrentIsBefore
<1>11. backups' = {b \in backups : b.id # ChangeId(e.change)} \cup {BackupFor(e)}
  BY DEF WriteBackup, BackupsWith
<1>12. BackupFor(e).id = ChangeId(e.change) /\ BackupFor(e).content = e.change.before
  BY <1>10 DEF BackupFor
<1>13. ASSUME NEW n \in Sessions \ {m}, NEW d \in plan[n].open
       PROVE  /\ IsDestructive(d.change)
              /\ \/ HasBackup(d.change)'
                 \/ d.change.op = "delete-note" /\ ChangeId(d.change) \in touched'[n]
  <2>1. /\ IsDestructive(d.change)
        /\ \/ HasBackup(d.change)
           \/ d.change.op = "delete-note" /\ ChangeId(d.change) \in touched[n]
    BY DEF BackupInv, BackedUp
  <2>2. Busy(n)
    BY DEF BackupInv, IInv, SessionsOk, PhaseInOrder, NoPlan, Busy
  <2>3. touched'[n] = touched[n] \cup Displaced(e)
    BY <2>2 DEF WriteBackup
  <2>4. CASE d.change.op = "delete-note" /\ ChangeId(d.change) \in touched[n]
    BY <2>1, <2>3, <2>4
  <2>5. CASE HasBackup(d.change) /\ ChangeId(d.change) # ChangeId(e.change)
    BY <1>11, <2>1, <2>5 DEF HasBackup
  <2>6. CASE HasBackup(d.change) /\ ChangeId(d.change) = ChangeId(e.change)
    <3>1. d.change \in Known /\ e.change \in Known
      BY <1>1, <1>9, KnownAreStaged DEF Held, Unfinished
    <3>2. CASE d.change.before = e.change.before
      BY <1>11, <1>12, <2>1, <2>6, <3>2 DEF HasBackup
    <3>3. CASE d.change.before # e.change.before
      <4>1. d.change.op = "delete-note"
        BY <1>1, <2>1, <2>6, <3>1, <3>3, IdTellsBefore
        DEF Origins, IsDestructive, DestructiveOps
      <4>2. ChangeId(d.change) \in Displaced(e)
        BY <1>10, <2>6, <3>3 DEF Displaced, HasBackup
      <4> QED
        BY <2>1, <2>3, <4>1, <4>2
    <3> QED
      BY <3>2, <3>3
  <2> QED
    BY <2>1, <2>4, <2>5, <2>6
<1>14. BackedUp'
  <2>1. HasBackup(e.change)'
    BY <1>11, <1>12 DEF HasBackup
  <2> QED
    BY <1>3, <1>7, <1>9, <1>13, <2>1 DEF BackedUp
<1> QED
  BY <1>6, <1>8, <1>14

(* The writes keep the backups of what is open.                             *)
LEMMA BackupWriteStep ==
  ASSUME BackupInv, NEW m \in Sessions, WriteStep(m)
  PROVE  BackupInv'
<1>1. TypeOK /\ Origins
  BY DEF BackupInv, IInv
<1>2. ASSUME NEW e \in plan[m].pending, WriteBackup(m, e)
      PROVE  Origins' /\ CurrentIsBefore' /\ BackedUp'
  BY <1>2, BackupWriteBackup
<1>3. ASSUME NEW e \in plan[m].pending, BackupFault(m, e)
      PROVE  Origins' /\ CurrentIsBefore' /\ BackedUp'
  BY <1>3, BackupOutcome DEF BackupFault, Unfinished
<1>4. ASSUME NEW e \in plan[m].pending \cup plan[m].open, ApplyEntry(m, e) \/ EntryFails(m, e)
      PROVE  Origins' /\ CurrentIsBefore' /\ BackedUp'
  BY <1>4, BackupOutcome DEF ApplyEntry, EntryFails, Unfinished, MarkTouched
<1>5. ASSUME Finalize(m)
      PROVE  Origins' /\ CurrentIsBefore' /\ BackedUp'
  <2> DEFINE changed == {Applied(e.change) : e \in plan[m].done}
                          \cup {Failed(e.change) : e \in plan[m].failed}
  <2>1. \A e \in plan[m].done \cup plan[m].failed :
           e.change \in Known /\ e.change \in StagedChanges
    BY <1>1, KnownAreStaged DEF Held
  <2>2. \A r \in changed : \E s \in Known : Variant(r, s)
    BY <2>1, TransitionsAreVariants
  <2>3. EndSession(m, changed)
    BY <1>5 DEF Finalize
  <2> HIDE DEF changed
  <2> QED
    BY <2>2, <2>3, OriginsEndSession
<1>6. Origins' /\ CurrentIsBefore' /\ BackedUp'
  BY <1>2, <1>3, <1>4, <1>5 DEF WriteStep
<1> QED
  BY <1>6, InvWriteStep DEF BackupInv

(* Backups outlive the plugin.                                              *)
LEMMA BackupRestart ==
  ASSUME BackupInv, Unload \/ Crash
  PROVE  BackupInv'
<1>1. TypeOK /\ Origins
  BY DEF BackupInv, IInv
<1>2. /\ UNCHANGED <<backups>>
      /\ staged' = {}
      /\ flow' = [f \in Flows |-> NoFlow]
  BY DEF Unload, Crash, Restart
<1>3. \A m \in Sessions : /\ Held(m)' \subseteq Held(m)
                          /\ Unfinished(m)' \subseteq Unfinished(m)
                          /\ plan'[m].open \subseteq plan[m].open
  <2>1. CASE Unload
    BY <1>1, <2>1, UnloadFields DEF Held, Unfinished
  <2>2. CASE Crash
    BY <2>2, NoPlanHoldsNothing DEF Crash
  <2> QED
    BY <2>1, <2>2
<1>4. Origins'
  <2>1. \A r \in Known : Variant(r, r)
    BY DEF Variant
  <2>2. \A m \in Sessions : \A r \in Held(m)' : \E s \in Known : Variant(r, s)
    BY <1>1, <1>3, <2>1, KnownAreStaged
  <2>3. \A f \in Flows : flow'[f].artifacts = {}
    BY <1>2, NoFlowType
  <2> QED
    BY <1>1, <1>2, <2>2, <2>3, OriginsKept
<1>5. \A m \in Sessions : plan'[m].open # {} => touched[m] \subseteq touched'[m]
  <2>1. CASE Unload
    BY <2>1 DEF Unload
  <2>2. CASE Crash
    BY <2>2, NoPlanHoldsNothing DEF Crash
  <2> QED
    BY <2>1, <2>2
<1>6. CurrentIsBefore' /\ BackedUp'
  BY <1>2, <1>3, <1>5, BackupsKept DEF BackupInv
<1> QED
  BY <1>4, <1>6, InvRestart DEF BackupInv

(* Every step keeps the backups as they should be.                          *)
LEMMA BackupNext == BackupInv /\ [Next]_vars => BackupInv'
<1> SUFFICES ASSUME BackupInv, [Next]_vars
             PROVE  BackupInv'
  OBVIOUS
<1>1. CASE Next
  BY <1>1, BackupUserEdit, BackupFlowStep, BackupReviewStep, BackupCheckStep,
     BackupWriteStep, BackupRestart DEF Next, SessionStep
<1>2. CASE UNCHANGED vars
  <2>1. UNCHANGED <<backups, staged, plan, flow, touched>>
    BY <1>2 DEF vars
  <2>2. Origins'
    BY <2>1 DEF BackupInv, Origins, Known, Held, Unfinished
  <2>3. CurrentIsBefore' /\ BackedUp'
    BY <2>1 DEF BackupInv, CurrentIsBefore, BackedUp, HasBackup, Unfinished
  <2> QED
    BY <2>2, <2>3, InvNext DEF BackupInv
<1> QED
  BY <1>1, <1>2

(* What a session deletes or moves without its backup is nothing.           *)
LEMMA LossHasBackup ==
  ASSUME BackupInv, Next, NEW m \in Sessions, NEW e \in Unfinished(m), Performs(m, e),
         IsDestructive(e.change), PathsOf(e.change) \cap touched[m] = {},
         e.change.op = "delete-note" => ChangeId(e.change) \notin touched[m]
  PROVE  \E b \in backups : b.id = ChangeId(e.change) /\ b.content = vault[e.change.target]
<1>1. TypeOK
  BY DEF BackupInv, IInv
<1>2. PICK d \in Unfinished(m) : ApplyEntry(m, d)
  BY OnlyApplyEntryPerforms DEF BackupInv
<1>3. d = e
  <2>1. plan'[m].done = plan[m].done \cup {d}
    BY <1>1, <1>2, OutcomeFields DEF ApplyEntry
  <2> QED
    BY <2>1 DEF Performs
<1>4. e \in plan[m].open
  BY <1>2, <1>3 DEF ApplyEntry, Ready
<1>5. \E b \in backups : b.id = ChangeId(e.change) /\ b.content = e.change.before
  BY <1>4 DEF BackupInv, BackedUp, HasBackup
<1>6. e.change.before # Absent
  BY DEF BackupInv, CurrentIsBefore
<1>7. PreflightOk(e.change, vault)
  BY DEF BackupInv, IInv, ChecksStillHold
<1>8. vault[e.change.target] = e.change.before
  BY <1>6, <1>7 DEF PreflightOk, IsDestructive, DestructiveOps
<1> QED
  BY <1>5, <1>8

(* No session deletes or moves a note whose content is not in a backup, in  *)
(* whatever way other sessions, flows, reviews and restarts interleave,     *)
(* unless someone wrote to the note since the session checked it, or, by a  *)
(* deletion proposed in the same minute, to its backup.                     *)
THEOREM LossesAreBackedUp == Spec => BackupBeforeLoss
<1>1. BackupInv /\ [Next]_vars =>
        [\A m \in Sessions : \A e \in Unfinished(m) :
           /\ Performs(m, e)
           /\ IsDestructive(e.change)
           /\ PathsOf(e.change) \cap touched[m] = {}
           /\ e.change.op = "delete-note" => ChangeId(e.change) \notin touched[m]
           => \E b \in backups : /\ b.id = ChangeId(e.change)
                                 /\ b.content = vault[e.change.target]]_vars
  BY LossHasBackup
<1>2. Init => BackupInv
  BY BackupInit
<1>3. BackupInv /\ [Next]_vars => BackupInv'
  BY BackupNext
<1> QED
  BY <1>1, <1>2, <1>3, PTL DEF Spec, BackupBeforeLoss

-----------------------------------------------------------------------------
(* Outcomes and decisions, when the user never closes the modal on a        *)
(* running apply.                                                           *)

(* There is one session at a time.                                          *)
OneSession == \A m, n \in Sessions : m = n

Fresh == {"review-ready", "conflicted"}

(* Of two records with one id, one is as staging made it: a decision or an  *)
(* outcome replaces all records of its id.                                  *)
ListPairs ==
    \A r, s \in staged :
        ChangeId(r) = ChangeId(s) /\ r.status # s.status => {r.status, s.status} \cap Fresh # {}

ArtifactsFresh == \A f \in Flows : \A r \in flow[f].artifacts : r.status \in Fresh

Begun(m) == Unfinished(m) \cup plan[m].done \cup plan[m].failed

Taken(m) == plan[m].todo \cup {e.change : e \in Begun(m)}

(* While a session runs, the list says nothing final of what it may write.  *)
ListWaits ==
    \A m \in Sessions : \A r \in staged, s \in Taken(m) :
        ChangeId(r) = ChangeId(s) /\ s.status \in ApplyableStatuses => r.status \in ActiveStatuses

(* A session takes an id once, and an entry is over once.                   *)
IdsApart(m) ==
    /\ \A r, s \in plan[m].todo : ChangeId(r) = ChangeId(s) => r = s
    /\ \A e \in Begun(m), r \in plan[m].todo : ChangeId(e.change) # ChangeId(r)
    /\ \A e, d \in Begun(m) : ChangeId(e.change) = ChangeId(d.change) => e = d
    /\ plan[m].done \cap plan[m].failed = {}
    /\ Unfinished(m) \cap (plan[m].done \cup plan[m].failed) = {}

OutcomesSoFar(m) ==
    /\ \A e \in plan[m].done : ChangeId(e.change) \in performed
    /\ \A e \in plan[m].failed : ChangeId(e.change) \notin performed
    /\ \A r \in plan[m].conflicted : r.status = "conflicted"

OutcomeInv ==
    /\ IInv
    /\ ListPairs /\ ArtifactsFresh /\ ListWaits /\ OutcomesMatchVault
    /\ \A m \in Sessions : IdsApart(m) /\ OutcomesSoFar(m)

(* A transition keeps the id of its record and sets a status.               *)
LEMMA TransitionsKeepId ==
  ASSUME NEW r \in StagedChanges
  PROVE  /\ ChangeId(MarkConflicted(r)) = ChangeId(r) /\ MarkConflicted(r).status = "conflicted"
         /\ ChangeId(Approved(r)) = ChangeId(r) /\ Approved(r).status \in {"conflicted", "approved"}
         /\ ChangeId(Rejected(r)) = ChangeId(r) /\ Rejected(r).status = "rejected"
         /\ ChangeId(Dismissed(r)) = ChangeId(r) /\ Dismissed(r).status = "dismissed"
         /\ ChangeId(Retried(r)) = ChangeId(r) /\ Retried(r).status \in Fresh
         /\ ChangeId(Applied(r)) = ChangeId(r) /\ Applied(r).status = "applied"
         /\ ChangeId(Failed(r)) = ChangeId(r) /\ Failed(r).status = "failed"
BY DEF ChangeId, StagedChanges, MarkConflicted, Approved, Rejected, Dismissed, Retried,
       Applied, Failed, WithStatus, Fresh

(* What review makes of the list: no session runs, and each id it decides   *)
(* on has one record from then on, with no outcome.                         *)
Decided(changed) ==
    /\ \A m \in Sessions : ~Busy(m)
    /\ staged' = ReplaceById(staged, changed)
    /\ \A c, d \in changed : ChangeId(c) = ChangeId(d) => c = d
    /\ \A c \in changed : c.status \notin {"applied", "failed"}
    /\ UNCHANGED <<plan, flow, performed>>

(* A selection has one record for an id, and so has what is made of it.     *)
LEMMA SelectionIds ==
  ASSUME NEW selected \in SUBSET StagedChanges, NEW records, IsSelection(selected, records)
  PROVE  /\ \A r, s \in selected : ChangeId(r) = ChangeId(s) => r = s
         /\ \A c, d \in {Approved(r) : r \in selected} : ChangeId(c) = ChangeId(d) => c = d
         /\ \A c, d \in {Rejected(r) : r \in selected} : ChangeId(c) = ChangeId(d) => c = d
         /\ \A c, d \in {Dismissed(r) : r \in selected} : ChangeId(c) = ChangeId(d) => c = d
         /\ \A c, d \in {Retried(r) : r \in selected} : ChangeId(c) = ChangeId(d) => c = d
         /\ \A c, d \in {MarkConflicted(r) : r \in selected} : ChangeId(c) = ChangeId(d) => c = d
<1>1. \A r, s \in selected : ChangeId(r) = ChangeId(s) => r = s
  BY DEF IsSelection
<1>2. \A r \in selected : /\ ChangeId(Approved(r)) = ChangeId(r)
                          /\ ChangeId(Rejected(r)) = ChangeId(r)
                          /\ ChangeId(Dismissed(r)) = ChangeId(r)
                          /\ ChangeId(Retried(r)) = ChangeId(r)
                          /\ ChangeId(MarkConflicted(r)) = ChangeId(r)
  BY TransitionsKeepId
<1> QED
  BY <1>1, <1>2

(* A review step starts an apply, or decides.                               *)
LEMMA ReviewDecides ==
  ASSUME TypeOK, OneSession, ReviewStep
  PROVE  \/ \E m \in Sessions, selected \in SUBSET staged : StartApply(m, selected)
         \/ \E changed \in SUBSET StagedChanges : Decided(changed)
<1>1. ASSUME NEW selected \in SUBSET staged, NEW changed, Review(selected, changed)
      PROVE  /\ \A m \in Sessions : ~Busy(m)
             /\ staged' = ReplaceById(staged, changed)
             /\ UNCHANGED <<plan, flow, performed>>
             /\ IsSelection(selected, staged)
  BY <1>1 DEF Review, ModalFree, OneSession
<1>2. staged \in SUBSET StagedChanges
  BY DEF TypeOK
<1>3. ASSUME NEW selected \in SUBSET staged, Approve(selected)
      PROVE  Decided({Approved(r) : r \in selected})
             /\ {Approved(r) : r \in selected} \in SUBSET StagedChanges
  <2>1. Review(selected, {Approved(r) : r \in selected})
    BY <1>3 DEF Approve
  <2>2. IsSelection(selected, staged) /\ selected \in SUBSET StagedChanges
    BY <1>1, <1>2, <2>1
  <2>3. \A c \in {Approved(r) : r \in selected} : c.status \notin {"applied", "failed"}
    BY <2>2, TransitionsKeepId
  <2>4. \A c, d \in {Approved(r) : r \in selected} : ChangeId(c) = ChangeId(d) => c = d
    BY <2>2, SelectionIds
  <2>5. {Approved(r) : r \in selected} \in SUBSET StagedChanges
    BY <2>2, TransitionsType
  <2> QED
    BY <1>1, <2>1, <2>3, <2>4, <2>5 DEF Decided
<1>4. ASSUME NEW selected \in SUBSET staged, Reject(selected)
      PROVE  Decided({Rejected(r) : r \in selected})
             /\ {Rejected(r) : r \in selected} \in SUBSET StagedChanges
  <2>1. Review(selected, {Rejected(r) : r \in selected})
    BY <1>4 DEF Reject
  <2>2. IsSelection(selected, staged) /\ selected \in SUBSET StagedChanges
    BY <1>1, <1>2, <2>1
  <2>3. \A c \in {Rejected(r) : r \in selected} : c.status \notin {"applied", "failed"}
    BY <2>2, TransitionsKeepId
  <2>4. \A c, d \in {Rejected(r) : r \in selected} : ChangeId(c) = ChangeId(d) => c = d
    BY <2>2, SelectionIds
  <2>5. {Rejected(r) : r \in selected} \in SUBSET StagedChanges
    BY <2>2, TransitionsType
  <2> QED
    BY <1>1, <2>1, <2>3, <2>4, <2>5 DEF Decided
<1>5. ASSUME NEW selected \in SUBSET staged, Dismiss(selected)
      PROVE  Decided({Dismissed(r) : r \in selected})
             /\ {Dismissed(r) : r \in selected} \in SUBSET StagedChanges
  <2>1. Review(selected, {Dismissed(r) : r \in selected})
    BY <1>5 DEF Dismiss
  <2>2. IsSelection(selected, staged) /\ selected \in SUBSET StagedChanges
    BY <1>1, <1>2, <2>1
  <2>3. \A c \in {Dismissed(r) : r \in selected} : c.status \notin {"applied", "failed"}
    BY <2>2, TransitionsKeepId
  <2>4. \A c, d \in {Dismissed(r) : r \in selected} : ChangeId(c) = ChangeId(d) => c = d
    BY <2>2, SelectionIds
  <2>5. {Dismissed(r) : r \in selected} \in SUBSET StagedChanges
    BY <2>2, TransitionsType
  <2> QED
    BY <1>1, <2>1, <2>3, <2>4, <2>5 DEF Decided
<1>6. ASSUME NEW selected \in SUBSET staged, Retry(selected)
      PROVE  Decided({Retried(r) : r \in selected})
             /\ {Retried(r) : r \in selected} \in SUBSET StagedChanges
  <2>1. Review(selected, {Retried(r) : r \in selected})
    BY <1>6 DEF Retry
  <2>2. IsSelection(selected, staged) /\ selected \in SUBSET StagedChanges
    BY <1>1, <1>2, <2>1
  <2>3. \A c \in {Retried(r) : r \in selected} : c.status \notin {"applied", "failed"}
    BY <2>2, TransitionsKeepId DEF Fresh
  <2>4. \A c, d \in {Retried(r) : r \in selected} : ChangeId(c) = ChangeId(d) => c = d
    BY <2>2, SelectionIds
  <2>5. {Retried(r) : r \in selected} \in SUBSET StagedChanges
    BY <2>2, TransitionsType
  <2> QED
    BY <1>1, <2>1, <2>3, <2>4, <2>5 DEF Decided
<1>7. ASSUME NEW m \in Sessions, NEW selected \in SUBSET staged,
             RefuseDuplicatePaths(m, selected)
      PROVE  Decided({MarkConflicted(r) : r \in selected})
             /\ {MarkConflicted(r) : r \in selected} \in SUBSET StagedChanges
  <2>1. /\ \A n \in Sessions : ~Busy(n)
        /\ staged' = ReplaceById(staged, {MarkConflicted(r) : r \in selected})
        /\ UNCHANGED <<plan, flow, performed>>
        /\ IsSelection(selected, staged)
    BY <1>7 DEF RefuseDuplicatePaths, OneSession
  <2>2. selected \in SUBSET StagedChanges
    BY <1>2
  <2>3. \A c \in {MarkConflicted(r) : r \in selected} : c.status \notin {"applied", "failed"}
    BY <2>2, TransitionsKeepId
  <2>4. \A c, d \in {MarkConflicted(r) : r \in selected} : ChangeId(c) = ChangeId(d) => c = d
    BY <2>1, <2>2, SelectionIds
  <2>5. {MarkConflicted(r) : r \in selected} \in SUBSET StagedChanges
    BY <2>2, TransitionsType
  <2> QED
    BY <2>1, <2>3, <2>4, <2>5 DEF Decided
<1> QED
  BY <1>3, <1>4, <1>5, <1>6, <1>7 DEF ReviewStep

(* The list after an update by records that are apart and true.             *)
LEMMA ListUpdate ==
  ASSUME ListPairs, OutcomesMatchVault, performed' = performed, NEW changed,
         staged' = staged \/ staged' = ReplaceById(staged, changed),
         \A c, d \in changed :
            ChangeId(c) = ChangeId(d) /\ c.status # d.status => {c.status, d.status} \cap Fresh # {},
         \A c \in changed : /\ c.status = "applied" => ChangeId(c) \in performed
                            /\ c.status = "failed" => ChangeId(c) \notin performed
  PROVE  ListPairs' /\ OutcomesMatchVault'
<1>1. CASE staged' = staged
  BY <1>1 DEF ListPairs, OutcomesMatchVault
<1>2. CASE staged' = ReplaceById(staged, changed)
  <2>1. \A r \in staged' : \/ r \in staged /\ \A c \in changed : ChangeId(c) # ChangeId(r)
                           \/ r \in changed
    BY <1>2 DEF ReplaceById, ChangeIds
  <2>2. ListPairs'
    BY <2>1 DEF ListPairs
  <2>3. OutcomesMatchVault'
    BY <2>1 DEF OutcomesMatchVault
  <2> QED
    BY <2>2, <2>3
<1> QED
  BY <1>1, <1>2

(* A session that is not running has nothing that could go wrong.           *)
LEMMA IdleSessionApart ==
  ASSUME NEW m \in Sessions, plan[m] = NoPlan
  PROVE  Taken(m) = {} /\ IdsApart(m) /\ OutcomesSoFar(m)
BY DEF NoPlan, Taken, Begun, Unfinished, IdsApart, OutcomesSoFar

LEMMA IdleSessionApartNext ==
  ASSUME NEW m \in Sessions, plan'[m] = NoPlan
  PROVE  Taken(m)' = {} /\ IdsApart(m)' /\ OutcomesSoFar(m)'
BY DEF NoPlan, Taken, Begun, Unfinished, IdsApart, OutcomesSoFar

(* A session that keeps its plan, up to its owner, takes what it took.      *)
LEMMA SamePlanApart ==
  ASSUME NEW m \in Sessions, IdsApart(m), OutcomesSoFar(m), performed' = performed,
         plan'[m].todo = plan[m].todo, plan'[m].pending = plan[m].pending,
         plan'[m].open = plan[m].open, plan'[m].done = plan[m].done,
         plan'[m].failed = plan[m].failed, plan'[m].conflicted = plan[m].conflicted
  PROVE  Taken(m)' = Taken(m) /\ IdsApart(m)' /\ OutcomesSoFar(m)'
<1>1. Unfinished(m)' = Unfinished(m)
  BY DEF Unfinished
<1>2. Begun(m)' = Begun(m)
  BY <1>1 DEF Begun
<1>3. Taken(m)' = Taken(m)
  BY <1>2 DEF Taken
<1> QED
  BY <1>1, <1>2, <1>3 DEF IdsApart, OutcomesSoFar

(* The list stays as the sessions need it if nothing but fresh records come *)
(* and no session takes more.                                               *)
LEMMA ListStillWaits ==
  ASSUME ListWaits, \A r \in staged' : r \in staged \/ r.status \in Fresh,
         \A m \in Sessions : Taken(m)' \subseteq Taken(m)
  PROVE  ListWaits'
BY DEF ListWaits, Fresh, ActiveStatuses

LEMMA OutcomeInit == Init => OutcomeInv
<1> SUFFICES ASSUME Init
             PROVE  OutcomeInv
  OBVIOUS
<1>1. \A m \in Sessions : plan[m] = NoPlan
  BY DEF Init
<1>2. \A m \in Sessions : IdsApart(m) /\ OutcomesSoFar(m)
  BY <1>1, IdleSessionApart
<1>3. ListPairs /\ ListWaits /\ OutcomesMatchVault
  BY DEF Init, ListPairs, ListWaits, OutcomesMatchVault
<1>4. ArtifactsFresh
  BY NoFlowType DEF Init, ArtifactsFresh
<1> QED
  BY <1>2, <1>3, <1>4, InvInit DEF OutcomeInv

(* A step that leaves the plans and the history alone and adds only fresh   *)
(* records keeps the outcomes.                                              *)
LEMMA OutcomeQuiet ==
  ASSUME OutcomeInv, UNCHANGED <<plan, performed>>,
         \A r \in staged' : r \in staged \/ r.status \in Fresh
  PROVE  /\ ListPairs' /\ ListWaits' /\ OutcomesMatchVault'
         /\ \A m \in Sessions : IdsApart(m)' /\ OutcomesSoFar(m)'
<1>1. ListPairs'
  BY DEF OutcomeInv, ListPairs
<1>2. OutcomesMatchVault'
  BY DEF OutcomeInv, OutcomesMatchVault, Fresh
<1>3. \A m \in Sessions : Taken(m)' = Taken(m) /\ IdsApart(m)' /\ OutcomesSoFar(m)'
  BY SamePlanApart DEF OutcomeInv
<1>4. ListWaits'
  BY <1>3, ListStillWaits DEF OutcomeInv
<1> QED
  BY <1>1, <1>2, <1>3, <1>4

(* What is built is fresh.                                                  *)
LEMMA BuildIsFresh ==
  ASSUME NEW command, NEW op, NEW target, NEW dest, NEW proposed, NEW notes, NEW records, NEW now
  PROVE  Build(command, op, target, dest, proposed, notes, records, now).status \in Fresh
BY DEF Build, Fresh

(* Flows bring fresh records.                                               *)
LEMMA OutcomeFlowStep ==
  ASSUME OutcomeInv, NEW f \in Flows, FlowStep(f)
  PROVE  OutcomeInv'
<1>1. TypeOK /\ flow \in [Flows -> FlowStates]
  BY DEF OutcomeInv, IInv, TypeOK
<1>2. UNCHANGED <<plan, performed>>
  BY DEF FlowStep, ReadNotes, StageChange, BuildArtifact, PushArtifacts, AbandonFlow
<1>3. (\A r \in staged' : r \in staged \/ r.status \in Fresh) /\ ArtifactsFresh'
  <2> USE <1>1, NoFlowType DEF OutcomeInv, ArtifactsFresh
  <2>1. CASE ReadNotes(f)
    BY <2>1 DEF ReadNotes
  <2>2. ASSUME NEW command \in Commands, NEW op \in Operations, NEW target \in Paths,
               NEW dest \in Paths \cup {NoPath}, NEW proposed \in Proposals(op),
               StageChange(f, command, op, target, dest, proposed)
        PROVE  (\A r \in staged' : r \in staged \/ r.status \in Fresh) /\ ArtifactsFresh'
    <3>1. \A r \in staged' : r \in staged \/ r.status \in Fresh
      BY <2>2, BuildIsFresh DEF StageChange
    <3>2. flow' = [flow EXCEPT ![f] = NoFlow]
      BY <2>2 DEF StageChange
    <3> QED
      BY <3>1, <3>2
  <2>3. ASSUME NEW command \in Commands, NEW target \in Paths, NEW proposed \in Contents,
               BuildArtifact(f, command, target, proposed)
        PROVE  (\A r \in staged' : r \in staged \/ r.status \in Fresh) /\ ArtifactsFresh'
    <3> DEFINE new == Build(command, "create-note", target, NoPath, proposed,
                            Placeholders(flow[f].notes), staged \cup flow[f].artifacts, minute)
    <3>1. new.status \in Fresh
      BY BuildIsFresh
    <3>2. staged' = staged /\ flow' = [flow EXCEPT ![f].artifacts = @ \cup {new}]
      BY <2>3 DEF BuildArtifact
    <3> HIDE DEF new
    <3>3. \A g \in Flows : flow'[g].artifacts \subseteq flow[g].artifacts \cup {new}
      BY <3>2 DEF FlowStates
    <3> QED
      BY <3>1, <3>2, <3>3
  <2>4. CASE PushArtifacts(f)
    BY <2>4 DEF PushArtifacts
  <2>5. CASE AbandonFlow(f)
    BY <2>5 DEF AbandonFlow
  <2> QED
    BY <2>1, <2>2, <2>3, <2>4, <2>5 DEF FlowStep
<1> QED
  BY <1>2, <1>3, OutcomeQuiet, InvFlowStep DEF OutcomeInv

(* A user edit is no outcome.                                               *)
LEMMA OutcomeUserEdit ==
  ASSUME OutcomeInv, NEW p \in Paths, NEW content \in MaybeContents, UserEdit(p, content)
  PROVE  OutcomeInv'
<1>1. UNCHANGED <<plan, performed, staged, flow>>
  BY DEF UserEdit
<1>2. ArtifactsFresh'
  BY <1>1 DEF OutcomeInv, ArtifactsFresh
<1> QED
  BY <1>1, <1>2, OutcomeQuiet, InvUserEdit DEF OutcomeInv

(* What an apply selects is undecided on the list: of the records with the  *)
(* id of one that may be applied, it takes the one that sorts first.        *)
LEMMA SelectionWaits ==
  ASSUME ListPairs, staged \subseteq StagedChanges, NEW selected, IsSelection(selected, staged),
         NEW r \in staged, NEW s \in selected, ChangeId(r) = ChangeId(s),
         s.status \in ApplyableStatuses
  PROVE  r.status \in ActiveStatuses
<1>1. ~SortsBefore(r.status, s.status) /\ s \in staged
  BY DEF IsSelection
<1>2. r.status \in Statuses
  BY DEF StagedChanges
<1>3. CASE s.status = "review-ready"
  <2>1. \A i \in 1 .. 8 : StatusOrder[i] # r.status \/ i = 8
    <3>1. DOMAIN StatusOrder = 1 .. 8 /\ StatusOrder[8] = "review-ready"
      BY DEF StatusOrder
    <3> QED
      BY <1>1, <1>3, <3>1 DEF SortsBefore
  <2>2. r.status = "review-ready"
    BY <1>2, <2>1 DEF StatusOrder, Statuses, ActiveStatuses
  <2> QED
    BY <2>2 DEF ActiveStatuses
<1>4. CASE s.status = "approved"
  <2>1. r.status = s.status \/ r.status \in Fresh
    BY <1>1, <1>4 DEF ListPairs, Fresh
  <2> QED
    BY <1>4, <2>1 DEF ActiveStatuses, Fresh
<1> QED
  BY <1>3, <1>4 DEF ApplyableStatuses

(* Review decides while no session waits; an apply starts on what is        *)
(* undecided.                                                               *)
LEMMA OutcomeReviewStep ==
  ASSUME OutcomeInv, OneSession, ReviewStep
  PROVE  OutcomeInv'
<1>1. TypeOK
  BY DEF OutcomeInv, IInv
<1>2. ASSUME NEW changed \in SUBSET StagedChanges, Decided(changed)
      PROVE  OutcomeInv'
  <2>1. ListPairs' /\ OutcomesMatchVault'
    <3>1. staged' = ReplaceById(staged, changed) /\ performed' = performed
      BY <1>2 DEF Decided
    <3>2. \A c, d \in changed : ChangeId(c) = ChangeId(d) /\ c.status # d.status
                                   => {c.status, d.status} \cap Fresh # {}
      BY <1>2 DEF Decided
    <3>3. \A c \in changed : /\ c.status = "applied" => ChangeId(c) \in performed
                             /\ c.status = "failed" => ChangeId(c) \notin performed
      BY <1>2 DEF Decided
    <3> QED
      BY <3>1, <3>2, <3>3, ListUpdate DEF OutcomeInv
  <2>2. \A m \in Sessions : plan'[m] = NoPlan
    BY <1>2 DEF Decided, OutcomeInv, IInv, SessionsOk, PhaseInOrder
  <2>3. \A m \in Sessions : Taken(m)' = {} /\ IdsApart(m)' /\ OutcomesSoFar(m)'
    BY <2>2, IdleSessionApartNext
  <2>4. ListWaits'
    BY <2>3 DEF ListWaits
  <2>5. ArtifactsFresh'
    BY <1>2 DEF Decided, OutcomeInv, ArtifactsFresh
  <2> QED
    BY <2>1, <2>3, <2>4, <2>5, InvReviewStep DEF OutcomeInv
<1>3. ASSUME NEW m \in Sessions, NEW selected \in SUBSET staged, StartApply(m, selected)
      PROVE  OutcomeInv'
  <2> DEFINE pl == [NoPlan EXCEPT !.pc = "planning", !.todo = selected]
  <2>1. plan'[m] = pl /\ \A n \in Sessions : n = m
    BY <1>1, <1>3 DEF StartApply, TypeOK, OneSession
  <2>2. /\ pl.todo = selected
        /\ pl.pending = {} /\ pl.open = {} /\ pl.done = {} /\ pl.failed = {}
        /\ pl.conflicted = {}
    BY DEF NoPlan
  <2> HIDE DEF pl
  <2>3. Unfinished(m)' = {} /\ Begun(m)' = {} /\ Taken(m)' = selected
    BY <2>1, <2>2 DEF Unfinished, Begun, Taken
  <2>4. UNCHANGED <<staged, flow, performed>> /\ IsSelection(selected, staged)
    BY <1>3 DEF StartApply
  <2>5. \A r, s \in selected : ChangeId(r) = ChangeId(s) => r = s
    BY <2>4 DEF IsSelection
  <2>6. IdsApart(m)' /\ OutcomesSoFar(m)'
    BY <2>1, <2>2, <2>3, <2>5 DEF IdsApart, OutcomesSoFar
  <2>7. ListWaits'
    <3>1. \A r \in staged, s \in selected :
             ChangeId(r) = ChangeId(s) /\ s.status \in ApplyableStatuses
                => r.status \in ActiveStatuses
      BY <1>1, <2>4, SelectionWaits DEF OutcomeInv, TypeOK
    <3> QED
      BY <2>1, <2>3, <2>4, <3>1 DEF ListWaits
  <2>8. ListPairs' /\ OutcomesMatchVault' /\ ArtifactsFresh'
    BY <2>4 DEF OutcomeInv, ListPairs, OutcomesMatchVault, ArtifactsFresh
  <2> QED
    BY <2>1, <2>6, <2>7, <2>8, InvReviewStep DEF OutcomeInv
<1> QED
  BY <1>1, <1>2, <1>3, ReviewDecides

(* A session that ends tells the list what became of its records.           *)
LEMMA OutcomeEndSession ==
  ASSUME OutcomeInv, OneSession, NEW m \in Sessions, NEW changed, EndSession(m, changed),
         \A c, d \in changed :
            ChangeId(c) = ChangeId(d) /\ c.status # d.status => {c.status, d.status} \cap Fresh # {},
         \A c \in changed : /\ c.status = "applied" => ChangeId(c) \in performed
                            /\ c.status = "failed" => ChangeId(c) \notin performed
  PROVE  /\ ListPairs' /\ ListWaits' /\ OutcomesMatchVault' /\ ArtifactsFresh'
         /\ \A n \in Sessions : IdsApart(n)' /\ OutcomesSoFar(n)'
<1>1. plan'[m] = NoPlan /\ (staged' = staged \/ staged' = ReplaceById(staged, changed))
  BY EndSessionFields DEF OutcomeInv, IInv
<1>2. UNCHANGED <<flow, performed>>
  BY DEF EndSession
<1>3. \A n \in Sessions : n = m
  BY DEF OneSession
<1>4. ListPairs' /\ OutcomesMatchVault'
  BY <1>1, <1>2, ListUpdate DEF OutcomeInv
<1>5. \A n \in Sessions : Taken(n)' = {} /\ IdsApart(n)' /\ OutcomesSoFar(n)'
  BY <1>1, <1>3, IdleSessionApartNext
<1>6. ListWaits'
  BY <1>5 DEF ListWaits
<1>7. ArtifactsFresh'
  BY <1>2 DEF OutcomeInv, ArtifactsFresh
<1> QED
  BY <1>4, <1>5, <1>6, <1>7

(* A session's step that leaves the list, the flows and the history alone   *)
(* and takes nothing more.                                                  *)
LEMMA OutcomeMove ==
  ASSUME OutcomeInv, OneSession, UNCHANGED <<staged, flow, performed>>, NEW m \in Sessions,
         Taken(m)' \subseteq Taken(m), IdsApart(m)', OutcomesSoFar(m)'
  PROVE  /\ ListPairs' /\ ListWaits' /\ OutcomesMatchVault' /\ ArtifactsFresh'
         /\ \A n \in Sessions : IdsApart(n)' /\ OutcomesSoFar(n)'
<1>1. \A n \in Sessions : n = m
  BY DEF OneSession
<1>2. ListWaits'
  BY <1>1, ListStillWaits DEF OutcomeInv
<1>3. ListPairs' /\ OutcomesMatchVault' /\ ArtifactsFresh'
  BY DEF OutcomeInv, ListPairs, OutcomesMatchVault, ArtifactsFresh
<1> QED
  BY <1>1, <1>2, <1>3

(* The checks turn records into entries, or refuse them.                    *)
LEMMA OutcomeCheckStep ==
  ASSUME OutcomeInv, OneSession, NEW m \in Sessions, CheckStep(m)
  PROVE  OutcomeInv'
<1> DEFINE Goal == /\ ListPairs' /\ ListWaits' /\ OutcomesMatchVault' /\ ArtifactsFresh'
                   /\ \A n \in Sessions : IdsApart(n)' /\ OutcomesSoFar(n)'
<1>1. TypeOK /\ IdsApart(m) /\ OutcomesSoFar(m)
  BY DEF OutcomeInv, IInv
<1>2. ASSUME NEW r \in plan[m].todo, ChangePassesPreflight(m, r)
      PROVE  Goal
  <2> DEFINE e == [change |-> r, current |-> vault[r.target]]
  <2>1. UNCHANGED <<staged, flow, performed>>
    BY <1>2 DEF ChangePassesPreflight, PlanEntry
  <2>2. /\ plan'[m].todo = plan[m].todo \ {r}
        /\ plan'[m].conflicted = plan[m].conflicted
        /\ plan'[m].pending = plan[m].pending \cup {e}
        /\ plan'[m].open = plan[m].open
        /\ plan'[m].done = plan[m].done
        /\ plan'[m].failed = plan[m].failed
    BY <1>1, <1>2, PlanEntryFields DEF ChangePassesPreflight
  <2>3. e.change = r
    OBVIOUS
  <2> HIDE DEF e
  <2>4. Unfinished(m)' = Unfinished(m) \cup {e}
    BY <2>2 DEF Unfinished
  <2>5. Begun(m)' = Begun(m) \cup {e}
    BY <2>2, <2>4 DEF Begun
  <2>6. Taken(m)' \subseteq Taken(m)
    BY <2>2, <2>3, <2>5 DEF Taken
  <2>7. \A d \in Begun(m) : ChangeId(d.change) # ChangeId(r) /\ d # e
    BY <1>1, <2>3 DEF IdsApart
  <2>8. \A s \in plan'[m].todo : s \in plan[m].todo /\ ChangeId(s) # ChangeId(r)
    BY <1>1, <2>2 DEF IdsApart
  <2>9. /\ \A s, t \in plan'[m].todo : ChangeId(s) = ChangeId(t) => s = t
        /\ \A d \in Begun(m)', s \in plan'[m].todo : ChangeId(d.change) # ChangeId(s)
        /\ \A d, g \in Begun(m)' : ChangeId(d.change) = ChangeId(g.change) => d = g
    BY <1>1, <2>3, <2>5, <2>7, <2>8 DEF IdsApart
  <2>10. /\ plan'[m].done \cap plan'[m].failed = {}
         /\ Unfinished(m)' \cap (plan'[m].done \cup plan'[m].failed) = {}
    BY <1>1, <2>2, <2>4, <2>7 DEF IdsApart, Begun
  <2>11. IdsApart(m)'
    BY <2>9, <2>10 DEF IdsApart
  <2>12. OutcomesSoFar(m)'
    BY <1>1, <2>1, <2>2 DEF OutcomesSoFar
  <2> QED
    BY <2>1, <2>6, <2>11, <2>12, OutcomeMove
<1>3. ASSUME NEW r \in plan[m].todo, ChangeFailsPreflight(m, r) \/ PreflightFault(m, r)
      PROVE  Goal
  <2>1. UNCHANGED <<staged, flow, performed>>
    BY <1>3 DEF ChangeFailsPreflight, PreflightFault
  <2>2. RefuseChange(m, r)
    BY <1>3 DEF ChangeFailsPreflight, PreflightFault
  <2>3. /\ plan'[m].todo = plan[m].todo \ {r}
        /\ plan'[m].conflicted = plan[m].conflicted \cup {MarkConflicted(r)}
        /\ plan'[m].pending = plan[m].pending
        /\ plan'[m].open = plan[m].open
        /\ plan'[m].done = plan[m].done
        /\ plan'[m].failed = plan[m].failed
    BY <1>1, <2>2, RefuseChangeFields
  <2>4. Unfinished(m)' = Unfinished(m) /\ Begun(m)' = Begun(m)
    BY <2>3 DEF Unfinished, Begun
  <2>5. Taken(m)' \subseteq Taken(m)
    BY <2>3, <2>4 DEF Taken
  <2>6. IdsApart(m)'
    BY <1>1, <2>3, <2>4 DEF IdsApart
  <2>7. MarkConflicted(r).status = "conflicted"
    BY <1>1, PlanFields, TransitionsKeepId
  <2>8. OutcomesSoFar(m)'
    BY <1>1, <2>1, <2>3, <2>7 DEF OutcomesSoFar
  <2> QED
    BY <2>1, <2>5, <2>6, <2>8, OutcomeMove
<1>4. ASSUME AcceptPlan(m)
      PROVE  Goal
  <2>1. UNCHANGED <<staged, flow, performed>>
    BY <1>4 DEF AcceptPlan
  <2>2. Taken(m)' = Taken(m) /\ IdsApart(m)' /\ OutcomesSoFar(m)'
    BY <1>1, <1>4, <2>1, AcceptPlanFields, SamePlanApart
  <2> QED
    BY <2>1, <2>2, OutcomeMove
<1>5. ASSUME RefusePlan(m)
      PROVE  Goal
  <2>1. \A c \in plan[m].conflicted : c.status = "conflicted"
    BY <1>1 DEF OutcomesSoFar
  <2> QED
    BY <1>5, <2>1, OutcomeEndSession DEF RefusePlan, Fresh
<1> HIDE DEF Goal
<1>6. Goal
  BY <1>2, <1>3, <1>4, <1>5 DEF CheckStep
<1> QED
  BY <1>6, InvCheckStep DEF OutcomeInv, Goal

(* An entry ends once: what happened to it is on record, and nothing the    *)
(* list says has to be taken back.                                          *)
LEMMA OutcomeEntry ==
  ASSUME OutcomeInv, OneSession, NEW m \in Sessions, NEW e \in Unfinished(m),
         UNCHANGED <<staged, flow>>,
         \/ Succeed(m, e) /\ performed' = performed \cup {ChangeId(e.change)}
         \/ Fail(m, e) /\ performed' = performed \ {ChangeId(e.change)}
  PROVE  /\ ListPairs' /\ ListWaits' /\ OutcomesMatchVault' /\ ArtifactsFresh'
         /\ \A n \in Sessions : IdsApart(n)' /\ OutcomesSoFar(n)'
<1>1. TypeOK /\ IdsApart(m) /\ OutcomesSoFar(m)
  BY DEF OutcomeInv, IInv
<1>2. \A n \in Sessions : n = m
  BY DEF OneSession
<1>3. /\ plan'[m].todo = plan[m].todo
      /\ plan'[m].conflicted = plan[m].conflicted
      /\ plan'[m].pending = plan[m].pending \ {e}
      /\ plan'[m].open = {}
      /\ \/ /\ plan'[m].done = plan[m].done \cup {e}
            /\ plan'[m].failed = plan[m].failed
            /\ performed' = performed \cup {ChangeId(e.change)}
         \/ /\ plan'[m].done = plan[m].done
            /\ plan'[m].failed = plan[m].failed \cup {e}
            /\ performed' = performed \ {ChangeId(e.change)}
  BY <1>1, OutcomeFields
<1>4. Unfinished(m)' \subseteq Unfinished(m) \ {e}
  BY <1>3 DEF Unfinished
<1>5. Begun(m)' \subseteq Begun(m)
  BY <1>3, <1>4 DEF Begun
<1>6. Taken(m)' \subseteq Taken(m)
  BY <1>3, <1>5 DEF Taken
<1>7. e \notin plan[m].done /\ e \notin plan[m].failed
  BY <1>1 DEF IdsApart
<1>8. IdsApart(m)'
  <2>1. /\ \A s, t \in plan'[m].todo : ChangeId(s) = ChangeId(t) => s = t
        /\ \A d \in Begun(m)', s \in plan'[m].todo : ChangeId(d.change) # ChangeId(s)
        /\ \A d, g \in Begun(m)' : ChangeId(d.change) = ChangeId(g.change) => d = g
    BY <1>1, <1>3, <1>5 DEF IdsApart
  <2>2. /\ plan'[m].done \cap plan'[m].failed = {}
        /\ Unfinished(m)' \cap (plan'[m].done \cup plan'[m].failed) = {}
    BY <1>1, <1>3, <1>4, <1>7 DEF IdsApart
  <2> QED
    BY <2>1, <2>2 DEF IdsApart
<1>9. \A d \in plan[m].done \cup plan[m].failed : ChangeId(d.change) # ChangeId(e.change)
  BY <1>1, <1>7 DEF IdsApart, Begun
<1>10. OutcomesSoFar(m)'
  BY <1>1, <1>3, <1>9 DEF OutcomesSoFar
<1>11. \A r \in staged : ChangeId(r) = ChangeId(e.change) => r.status \in ActiveStatuses
  <2>1. e.change.status \in ApplyableStatuses
    BY DEF OutcomeInv, IInv, SessionsOk, PlanWellFormed
  <2>2. e.change \in Taken(m)
    BY DEF Taken, Begun
  <2> QED
    BY <2>1, <2>2 DEF OutcomeInv, ListWaits
<1>12. OutcomesMatchVault'
  BY <1>3, <1>11 DEF OutcomeInv, OutcomesMatchVault, ActiveStatuses
<1>13. ListWaits'
  BY <1>2, <1>6, ListStillWaits DEF OutcomeInv
<1>14. ListPairs' /\ ArtifactsFresh'
  BY DEF OutcomeInv, ListPairs, ArtifactsFresh
<1> QED
  BY <1>2, <1>8, <1>10, <1>12, <1>13, <1>14

(* The writes, and what the list is told of them.                           *)
LEMMA OutcomeWriteStep ==
  ASSUME OutcomeInv, OneSession, NEW m \in Sessions, WriteStep(m)
  PROVE  OutcomeInv'
<1> DEFINE Goal == /\ ListPairs' /\ ListWaits' /\ OutcomesMatchVault' /\ ArtifactsFresh'
                   /\ \A n \in Sessions : IdsApart(n)' /\ OutcomesSoFar(n)'
<1>1. TypeOK /\ IdsApart(m) /\ OutcomesSoFar(m)
  BY DEF OutcomeInv, IInv
<1>2. ASSUME NEW e \in plan[m].pending, WriteBackup(m, e)
      PROVE  Goal
  <2>1. UNCHANGED <<staged, flow, performed>>
    BY <1>2 DEF WriteBackup
  <2>2. /\ plan'[m].todo = plan[m].todo
        /\ plan'[m].conflicted = plan[m].conflicted
        /\ plan'[m].pending = plan[m].pending \ {e}
        /\ plan'[m].open = {e} /\ plan[m].open = {}
        /\ plan'[m].done = plan[m].done
        /\ plan'[m].failed = plan[m].failed
    BY <1>1, <1>2, WriteBackupFields
  <2>3. Unfinished(m)' = Unfinished(m)
    BY <2>2 DEF Unfinished
  <2>4. Begun(m)' = Begun(m)
    BY <2>2, <2>3 DEF Begun
  <2>5. Taken(m)' = Taken(m)
    BY <2>2, <2>4 DEF Taken
  <2>6. IdsApart(m)'
    BY <1>1, <2>2, <2>3, <2>4 DEF IdsApart
  <2>7. OutcomesSoFar(m)'
    BY <1>1, <2>1, <2>2 DEF OutcomesSoFar
  <2> QED
    BY <2>1, <2>5, <2>6, <2>7, OutcomeMove
<1>3. ASSUME NEW e \in plan[m].pending, BackupFault(m, e)
      PROVE  Goal
  BY <1>3, OutcomeEntry DEF BackupFault, Unfinished
<1>4. ASSUME NEW e \in plan[m].pending \cup plan[m].open, ApplyEntry(m, e) \/ EntryFails(m, e)
      PROVE  Goal
  BY <1>4, OutcomeEntry DEF ApplyEntry, EntryFails, Unfinished
<1>5. ASSUME Finalize(m)
      PROVE  Goal
  <2> DEFINE applied == {Applied(e.change) : e \in plan[m].done}
             failed == {Failed(e.change) : e \in plan[m].failed}
  <2>1. \A e \in plan[m].done \cup plan[m].failed : e.change \in StagedChanges /\ e \in Begun(m)
    BY <1>1, PlanFields DEF Entries, Begun
  <2>2. \A c \in applied : \E e \in plan[m].done :
           c = Applied(e.change) /\ ChangeId(c) = ChangeId(e.change) /\ c.status = "applied"
    BY <2>1, TransitionsKeepId
  <2>3. \A c \in failed : \E e \in plan[m].failed :
           c = Failed(e.change) /\ ChangeId(c) = ChangeId(e.change) /\ c.status = "failed"
    BY <2>1, TransitionsKeepId
  <2>4. EndSession(m, applied \cup failed)
    BY <1>5 DEF Finalize
  <2> HIDE DEF applied, failed
  <2>5. \A c \in applied, d \in failed : ChangeId(c) # ChangeId(d)
    BY <1>1, <2>1, <2>2, <2>3 DEF IdsApart
  <2>6. \A c, d \in applied \cup failed :
           ChangeId(c) = ChangeId(d) /\ c.status # d.status => {c.status, d.status} \cap Fresh # {}
    BY <2>2, <2>3, <2>5
  <2>7. \A c \in applied \cup failed : /\ c.status = "applied" => ChangeId(c) \in performed
                                       /\ c.status = "failed" => ChangeId(c) \notin performed
    BY <1>1, <2>2, <2>3 DEF OutcomesSoFar
  <2> QED
    BY <2>4, <2>6, <2>7, OutcomeEndSession
<1> HIDE DEF Goal
<1>6. Goal
  BY <1>2, <1>3, <1>4, <1>5 DEF WriteStep
<1> QED
  BY <1>6, InvWriteStep DEF OutcomeInv, Goal

(* The list does not outlive the plugin.                                    *)
LEMMA OutcomeRestart ==
  ASSUME OutcomeInv, Unload \/ Crash
  PROVE  OutcomeInv'
<1>1. TypeOK
  BY DEF OutcomeInv, IInv
<1>2. staged' = {} /\ flow' = [f \in Flows |-> NoFlow] /\ performed' = performed
  BY DEF Unload, Crash, Restart
<1>3. ListPairs' /\ ListWaits' /\ OutcomesMatchVault'
  BY <1>2 DEF ListPairs, ListWaits, OutcomesMatchVault
<1>4. ArtifactsFresh'
  BY <1>2, NoFlowType DEF ArtifactsFresh
<1>5. \A m \in Sessions : IdsApart(m)' /\ OutcomesSoFar(m)'
  <2>1. CASE Unload
    BY <1>1, <1>2, <2>1, UnloadFields, SamePlanApart DEF OutcomeInv
  <2>2. CASE Crash
    BY <2>2, IdleSessionApartNext DEF Crash
  <2> QED
    BY <2>1, <2>2
<1> QED
  BY <1>3, <1>4, <1>5, InvRestart DEF OutcomeInv

(* With one session, every step keeps the list in accord with the sessions. *)
LEMMA OutcomeNext ==
  ASSUME OneSession, OutcomeInv, [Next]_vars
  PROVE  OutcomeInv'
<1>1. CASE Next
  BY <1>1, OutcomeUserEdit, OutcomeFlowStep, OutcomeReviewStep, OutcomeCheckStep,
     OutcomeWriteStep, OutcomeRestart DEF Next, SessionStep
<1>2. CASE UNCHANGED vars
  <2>1. UNCHANGED <<plan, performed, staged, flow>>
    BY <1>2 DEF vars
  <2>2. ArtifactsFresh'
    BY <2>1 DEF OutcomeInv, ArtifactsFresh
  <2> QED
    BY <2>1, <2>2, OutcomeQuiet, InvNext DEF OutcomeInv
<1> QED
  BY <1>1, <1>2

(* While no modal is closed on its apply, a change that the list calls      *)
(* applied was written at its latest attempt, and one it calls failed was   *)
(* not, whatever flows, user edits and restarts do meanwhile.               *)
THEOREM OutcomesAreTrue == OneSession /\ Spec => []OutcomesMatchVault
<1>1. OneSession /\ Init => OneSession /\ OutcomeInv
  BY OutcomeInit
<1>2. OneSession /\ OutcomeInv /\ [Next]_vars => (OneSession /\ OutcomeInv)'
  BY OutcomeNext DEF OneSession
<1>3. OutcomeInv => OutcomesMatchVault
  BY DEF OutcomeInv
<1> QED
  BY <1>1, <1>2, <1>3, PTL DEF Spec

(* Nor does a session write a change that the list calls rejected or        *)
(* dismissed.                                                               *)
THEOREM DecisionsHold == OneSession /\ Spec => DecisionsRespected
<1>1. ASSUME OutcomeInv, NEW m \in Sessions, NEW e \in Unfinished(m), NEW r \in staged,
             ChangeId(r) = ChangeId(e.change)
      PROVE  r.status \notin {"rejected", "dismissed"}
  <2>1. e.change.status \in ApplyableStatuses
    BY <1>1 DEF OutcomeInv, IInv, SessionsOk, PlanWellFormed
  <2>2. e.change \in Taken(m)
    BY DEF Taken, Begun
  <2>3. r.status \in ActiveStatuses
    BY <1>1, <2>1, <2>2 DEF OutcomeInv, ListWaits
  <2> QED
    BY <2>3 DEF ActiveStatuses
<1>2. OutcomeInv /\ [Next]_vars =>
        [\A m \in Sessions : \A e \in Unfinished(m) :
           Performs(m, e) /\ ~plan[m].orphan =>
              \A r \in staged : ChangeId(r) = ChangeId(e.change) =>
                  r.status \notin {"rejected", "dismissed"}]_vars
  BY <1>1
<1>3. OneSession /\ Init => OneSession /\ OutcomeInv
  BY OutcomeInit
<1>4. OneSession /\ OutcomeInv /\ [Next]_vars => (OneSession /\ OutcomeInv)'
  BY OutcomeNext DEF OneSession
<1> QED
  BY <1>2, <1>3, <1>4, PTL DEF Spec, DecisionsRespected

=============================================================================

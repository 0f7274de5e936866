---------------------------- MODULE StagedReview ----------------------------
(***************************************************************************)
(* Staged changes from proposal to applied note: the plugin's in-memory    *)
(* list of staged changes, the flows that add to it, the review actions    *)
(* and the apply sessions that write to the vault.                         *)
(*                                                                         *)
(* A session is one run of applySelectedStagedChanges.  The review modal   *)
(* keeps its user from starting anything else while it is busy, but the    *)
(* busy flag lives in the modal: closing it leaves the session running and *)
(* a reopened modal starts idle.  With one session the user never does     *)
(* that; with two or more a second modal may review and apply while the    *)
(* first session still runs.                                               *)
(*                                                                         *)
(* JavaScript runs one callback at a time, so an action is what the code   *)
(* does between two awaits of I/O.  Between actions the user may edit the  *)
(* vault, and the plugin may be unloaded or the application may crash.     *)
(* Each action is one interleaving step; any I/O call may fail.            *)
(***************************************************************************)
EXTENDS StagedRecords

CONSTANTS
    Sessions,       \* apply runs that may be in progress at the same time
    Flows,          \* staging flows that may be in progress at the same time
    Operations,     \* operation kinds proposed
    InitialVaults,  \* vaults the plugin may find when it loads
    MaxStagings,    \* bound: proposals built over a behaviour
    MaxEdits,       \* bound: edits the user makes outside the plugin
    MaxRestarts     \* bound: unloads and crashes

ASSUME OperationsAreKinds == Operations \subseteq OperationKinds
ASSUME InitialVaultsAreVaults == InitialVaults \subseteq Vaults
ASSUME BackupsAreNoNotes == \A p \in Paths : p \notin ChangeIdValues
ASSUME BoundsAreNaturals ==
    MaxStagings \in Nat /\ MaxEdits \in Nat /\ MaxRestarts \in Nat

VARIABLES
    vault,      \* the notes on disk
    backups,    \* .voidbrain/staged-changes/<id>.backup.md, by change id
    staged,     \* ingestionStagedChanges; records equal in every field are one
    plan,       \* what each session has selected, checked and done
    flow,       \* what each staging flow has read and built
    clock,      \* number of proposals built so far
    minute,     \* the minute in which a deletion was last proposed
    edits,      \* number of user edits so far
    restarts,   \* number of unloads and crashes so far
    touched,    \* history: what others wrote since the session looked at it,
                \* notes by their paths and backups by the ids of their changes
    performed   \* history: ids whose latest attempt changed the vault

vars == <<vault, backups, staged, plan, flow, clock, minute, edits, restarts, touched,
          performed>>

Entries == [change : StagedChanges, current : MaybeContents]

Plans ==
    [pc : {"idle", "planning", "executing"},
     todo : SUBSET StagedChanges, conflicted : SUBSET StagedChanges,
     pending : SUBSET Entries, open : SUBSET Entries,
     done : SUBSET Entries, failed : SUBSET Entries, orphan : BOOLEAN]

NoPlan == [pc |-> "idle", todo |-> {}, conflicted |-> {}, pending |-> {}, open |-> {},
           done |-> {}, failed |-> {}, orphan |-> FALSE]

FlowStates == [pc : {"idle", "staging"}, notes : Vaults, artifacts : SUBSET StagedChanges]

NoNotes == [p \in Paths |-> Absent]

NoFlow == [pc |-> "idle", notes |-> NoNotes, artifacts |-> {}]

(* Records, plans and flows stay in the states the services have for them:  *)
(* types/vault.ts, and the locals of applySelectedStagedChanges.            *)
TypeOK ==
    /\ vault \in Vaults
    /\ staged \subseteq StagedChanges
    /\ \A b \in backups : b.content \in MaybeContents
    /\ plan \in [Sessions -> Plans]
    /\ flow \in [Flows -> FlowStates]
    /\ clock \in Nat
    /\ minute \in Nat
    /\ edits \in Nat
    /\ restarts \in Nat
    /\ touched \in [Sessions -> SUBSET (Paths \cup ChangeIdValues)]

Init ==
    /\ vault \in InitialVaults
    /\ backups = {}
    /\ staged = {}
    /\ plan = [m \in Sessions |-> NoPlan]
    /\ flow = [f \in Flows |-> NoFlow]
    /\ clock = 0
    /\ minute = 0
    /\ edits = 0
    /\ restarts = 0
    /\ touched = [m \in Sessions |-> {}]
    /\ performed = {}

Busy(m) == plan[m].pc # "idle"

(* Someone other than session `self` wrote to paths ps. *)
MarkTouched(self, ps) ==
    touched' = [m \in Sessions |->
                   IF m \in self \/ ~Busy(m) THEN touched[m] ELSE touched[m] \cup ps]

-----------------------------------------------------------------------------
(* The user, outside the plugin *)

UserEdit(p, content) ==
    /\ edits < MaxEdits
    /\ content # vault[p]
    /\ vault' = [vault EXCEPT ![p] = content]
    /\ edits' = edits + 1
    /\ MarkTouched({}, {p})
    /\ UNCHANGED <<backups, staged, plan, flow, clock, minute, restarts, performed>>

-----------------------------------------------------------------------------
(* Staging *)

(* The caller lists the vault's notes; what it proposes is built from this. *)
(* Notes are read one by one, but of the contents a proposal uses only its  *)
(* target's, so that one look stands for the reading.                       *)
ReadNotes(f) ==
    /\ flow[f].pc = "idle"
    /\ clock < MaxStagings
    /\ flow' = [flow EXCEPT ![f] = [NoFlow EXCEPT !.pc = "staging", !.notes = vault]]
    /\ UNCHANGED <<vault, backups, staged, plan, clock, minute, edits, restarts, touched, performed>>

(* getExistingMarkdownNotePlaceholders: paths only, every content empty *)
Placeholders(notes) ==
    [p \in Paths |-> IF notes[p] = Absent THEN Absent ELSE Empty]

NotesFor(op, notes) == IF op = "create-note" THEN Placeholders(notes) ELSE notes

(* Between two deletions a minute passes or it does not; when that happens  *)
(* cannot be told before the second is proposed.                            *)
Minutes(op) == IF op = "delete-note" THEN {minute, minute + 1} ELSE {minute}

(* A repair, a suggestion or a session summary: one proposal, put on the    *)
(* list as soon as it is built, blocked or not.                             *)
StageChange(f, command, op, target, dest, proposed) ==
    /\ flow[f].pc = "staging"
    /\ flow[f].artifacts = {}
    /\ clock < MaxStagings
    /\ op = "move-note" <=> dest # NoPath
    /\ minute' \in Minutes(op)
    /\ staged' = staged \cup {Build(command, op, target, dest, proposed,
                                    NotesFor(op, flow[f].notes), staged, minute')}
    /\ clock' = clock + 1
    /\ flow' = [flow EXCEPT ![f] = NoFlow]
    /\ UNCHANGED <<vault, backups, plan, edits, restarts, touched, performed>>

(* Source ingestion: notes are proposed one after the other, each checked   *)
(* against the list and the ones before it, and added to the list only when *)
(* all are built (of a queue, when its last item is done).                  *)
BuildArtifact(f, command, target, proposed) ==
    LET artifact == Build(command, "create-note", target, NoPath, proposed,
                          Placeholders(flow[f].notes),
                          staged \cup flow[f].artifacts, minute)
    IN  /\ flow[f].pc = "staging"
        /\ clock < MaxStagings
        /\ ~artifact.blocked
        /\ flow' = [flow EXCEPT ![f].artifacts = @ \cup {artifact}]
        /\ clock' = clock + 1
        /\ UNCHANGED <<vault, backups, staged, plan, minute, edits, restarts, touched, performed>>

PushArtifacts(f) ==
    /\ flow[f].artifacts # {}
    /\ staged' = staged \cup flow[f].artifacts
    /\ flow' = [flow EXCEPT ![f] = NoFlow]
    /\ UNCHANGED <<vault, backups, plan, clock, minute, edits, restarts, touched, performed>>

(* A blocked artifact, a failure or a cancellation drops the whole flow. *)
AbandonFlow(f) ==
    /\ flow[f].pc = "staging"
    /\ flow' = [flow EXCEPT ![f] = NoFlow]
    /\ UNCHANGED <<vault, backups, staged, plan, clock, minute, edits, restarts, touched, performed>>

-----------------------------------------------------------------------------
(* Review actions: applyAction on the live list, without an await *)

(* The modal in front of the user is one whose session is not running. *)
ModalFree == \E m \in Sessions : ~Busy(m)

Review(selected, changed) ==
    /\ ModalFree
    /\ IsSelection(selected, staged)
    /\ staged' = ReplaceById(staged, changed)
    /\ UNCHANGED <<vault, backups, plan, flow, clock, minute, edits, restarts, touched, performed>>

Approve(selected) == Review(selected, {Approved(r) : r \in selected})
Reject(selected)  == Review(selected, {Rejected(r) : r \in selected})
Dismiss(selected) == Review(selected, {Dismissed(r) : r \in selected})
Retry(selected)   == Review(selected, {Retried(r) : r \in selected})

-----------------------------------------------------------------------------
(* Apply: planApply up to its first await *)

PlannedIds(m) ==
    ChangeIds(plan[m].todo \cup plan[m].conflicted \cup {e.change : e \in plan[m].pending})

(* inFlightActions: held until the plan is made, not until it is executed *)
ApplyInFlight(selected) ==
    \E n \in Sessions :
        /\ plan[n].pc = "planning"
        /\ ~plan[n].orphan
        /\ PlannedIds(n) = ChangeIds(selected)

(* The user has typed the confirmation text the selection requires; without *)
(* it planApply returns the list unchanged.                                 *)
StartApply(m, selected) ==
    /\ ~Busy(m)
    /\ IsSelection(selected, staged)
    /\ ~ApplyInFlight(selected)
    /\ ~DuplicateApplyPaths(selected)
    /\ plan' = [plan EXCEPT ![m] = [NoPlan EXCEPT !.pc = "planning", !.todo = selected]]
    /\ UNCHANGED <<vault, backups, staged, flow, clock, minute, edits, restarts, touched, performed>>

RefuseDuplicatePaths(m, selected) ==
    /\ ~Busy(m)
    /\ IsSelection(selected, staged)
    /\ ~ApplyInFlight(selected)
    /\ DuplicateApplyPaths(selected)
    /\ staged' = ReplaceById(staged, {MarkConflicted(r) : r \in selected})
    /\ UNCHANGED <<vault, backups, plan, flow, clock, minute, edits, restarts, touched, performed>>

-----------------------------------------------------------------------------
(* Apply: the checks.  Records are taken as they were when the session      *)
(* started, in any order (the code's is that of the sort key), each in one  *)
(* step: a record that passes makes preflightRecord wait for the disk once, *)
(* for its note or for the lack of one; a move waits twice.                 *)

Checkable(m, r) ==
    /\ plan[m].pc = "planning"
    /\ r \in plan[m].todo

PlanEntry(m, r) ==
    /\ plan' = [plan EXCEPT ![m].todo = @ \ {r},
                            ![m].pending = @ \cup {[change |-> r, current |-> vault[r.target]]}]
    /\ touched' = [touched EXCEPT ![m] = @ \ PathsOf(r)]
    /\ UNCHANGED <<vault, backups, staged, flow, clock, minute, edits, restarts, performed>>

ChangePassesPreflight(m, r) ==
    /\ Checkable(m, r)
    /\ r.status \in ApplyableStatuses
    /\ PreflightOk(r, vault)
    /\ PlanEntry(m, r)

RefuseChange(m, r) ==
    plan' = [plan EXCEPT ![m].todo = @ \ {r},
                        ![m].conflicted = @ \cup {MarkConflicted(r)}]

ChangeFailsPreflight(m, r) ==
    /\ Checkable(m, r)
    /\ r.status \notin ApplyableStatuses \/ ~PreflightOk(r, vault)
    /\ RefuseChange(m, r)
    /\ UNCHANGED <<vault, backups, staged, flow, clock, minute, edits, restarts, touched, performed>>

PreflightFault(m, r) ==
    /\ Checkable(m, r)
    /\ r.status \in ApplyableStatuses
    /\ RefuseChange(m, r)
    /\ UNCHANGED <<vault, backups, staged, flow, clock, minute, edits, restarts, touched, performed>>

Checked(m) == plan[m].pc = "planning" /\ plan[m].todo = {}

(* Mutant: the list as the session knew it replaces the list. *)
OverwriteList(m, changed) == staged' = IF plan[m].orphan THEN staged ELSE changed

(* An unloaded plugin's session updates a list nobody reads any more. *)
UpdateList(m, changed) ==
    staged' = IF plan[m].orphan THEN staged ELSE ReplaceById(staged, changed)

(* The list learns the outcome and the session is over. *)
EndSession(m, changed) ==
    /\ UpdateList(m, changed)
    /\ plan' = [plan EXCEPT ![m] = NoPlan]
    /\ touched' = [touched EXCEPT ![m] = {}]
    /\ UNCHANGED <<vault, backups, flow, clock, minute, edits, restarts, performed>>

(* Mutant: the records that passed are applied, the others are left out. *)
AcceptWhatPassed(m) ==
    /\ Checked(m)
    /\ plan' = [plan EXCEPT ![m].pc = "executing"]
    /\ UNCHANGED <<vault, backups, staged, flow, clock, minute, edits, restarts, touched, performed>>

AcceptPlan(m) ==
    /\ Checked(m)
    /\ plan[m].conflicted = {}
    /\ plan' = [plan EXCEPT ![m].pc = "executing"]
    /\ UNCHANGED <<vault, backups, staged, flow, clock, minute, edits, restarts, touched, performed>>

(* One refused record refuses the whole selection. *)
RefusePlan(m) ==
    /\ Checked(m)
    /\ plan[m].conflicted # {}
    /\ EndSession(m, plan[m].conflicted)

-----------------------------------------------------------------------------
(* Apply: the writes, one entry at a time, with no further check *)

Executing(m) == plan[m].pc = "executing"

(* The entry whose vault call is next: a destructive one has its backup.    *)
Ready(m) ==
    IF plan[m].open # {} THEN plan[m].open
    ELSE {e \in plan[m].pending : ~IsDestructive(e.change)}

BackupFor(e) == [id |-> ChangeId(e.change), content |-> e.current]

(* Mutant: a backup that is there already is left as it is. *)
FirstBackupKept(e) ==
    IF \E b \in backups : b.id = ChangeId(e.change) THEN backups ELSE backups \cup {BackupFor(e)}

BackupsWith(e) == {b \in backups : b.id # ChangeId(e.change)} \cup {BackupFor(e)}

(* The id of a backup of other content that this one takes the place of.    *)
Displaced(e) ==
    {b.id : b \in {b \in backups : b.id = ChangeId(e.change) /\ b.content # e.current}}

WriteBackup(m, e) ==
    /\ Executing(m)
    /\ plan[m].open = {}
    /\ e \in plan[m].pending
    /\ IsDestructive(e.change)
    /\ backups' = BackupsWith(e)
    /\ plan' = [plan EXCEPT ![m].pending = @ \ {e}, ![m].open = {e}]
    /\ touched' = [n \in Sessions |->
                      IF n = m THEN touched[n] \ {ChangeId(e.change)}
                      ELSE IF Busy(n) THEN touched[n] \cup Displaced(e) ELSE touched[n]]
    /\ UNCHANGED <<vault, staged, flow, clock, minute, edits, restarts, performed>>

Succeed(m, e) ==
    plan' = [plan EXCEPT ![m].pending = @ \ {e}, ![m].open = {}, ![m].done = @ \cup {e}]

Fail(m, e) ==
    plan' = [plan EXCEPT ![m].pending = @ \ {e}, ![m].open = {}, ![m].failed = @ \cup {e}]

BackupFault(m, e) ==
    /\ Executing(m)
    /\ plan[m].open = {}
    /\ e \in plan[m].pending
    /\ IsDestructive(e.change)
    /\ Fail(m, e)
    /\ performed' = performed \ {ChangeId(e.change)}
    /\ UNCHANGED <<vault, backups, staged, flow, clock, minute, edits, restarts, touched>>

ApplyEntry(m, e) ==
    /\ Executing(m)
    /\ e \in Ready(m)
    /\ VaultAccepts(e.change, vault)
    /\ vault' = Effect(e.change, vault)
    /\ Succeed(m, e)
    /\ MarkTouched({m}, PathsOf(e.change))
    /\ performed' = performed \cup {ChangeId(e.change)}
    /\ UNCHANGED <<backups, staged, flow, clock, minute, edits, restarts>>

(* The vault refuses, or the call fails: caught per entry, the rest go on. *)
EntryFails(m, e) ==
    /\ Executing(m)
    /\ e \in Ready(m)
    /\ Fail(m, e)
    /\ performed' = performed \ {ChangeId(e.change)}
    /\ UNCHANGED <<vault, backups, staged, flow, clock, minute, edits, restarts, touched>>

(* Mutant: every entry of a finished session counts as applied. *)
FinalizeAllApplied(m) ==
    /\ Executing(m)
    /\ plan[m].pending \cup plan[m].open = {}
    /\ EndSession(m, {Applied(e.change) : e \in plan[m].done \cup plan[m].failed})

(* Mutant: a session with a failed entry is not finalized. *)
FinalizeSuccess(m) ==
    /\ Executing(m)
    /\ plan[m].pending \cup plan[m].open = {}
    /\ plan[m].failed = {}
    /\ EndSession(m, {Applied(e.change) : e \in plan[m].done})

(* finalizeApplyPlan and mergeStagedChangeRecords, after the index refresh: *)
(* the outcome replaces whatever the list says of the record by then.       *)
Finalize(m) ==
    /\ Executing(m)
    /\ plan[m].pending \cup plan[m].open = {}
    /\ EndSession(m, {Applied(e.change) : e \in plan[m].done}
                        \cup {Failed(e.change) : e \in plan[m].failed})

-----------------------------------------------------------------------------
(* The end of the plugin *)

(* The staged list lives in memory only.  Sessions in progress run on after *)
(* an unload; flows in progress add to a list nobody reads.                 *)
Restart ==
    /\ restarts < MaxRestarts
    /\ restarts' = restarts + 1
    /\ staged' = {}
    /\ flow' = [f \in Flows |-> NoFlow]
    /\ UNCHANGED <<vault, backups, clock, minute, edits, performed>>

Unload ==
    /\ Restart
    /\ plan' = [m \in Sessions |-> IF Busy(m) THEN [plan[m] EXCEPT !.orphan = TRUE] ELSE plan[m]]
    /\ UNCHANGED touched

Crash ==
    /\ Restart
    /\ plan' = [m \in Sessions |-> NoPlan]
    /\ touched' = [m \in Sessions |-> {}]

-----------------------------------------------------------------------------
(* A selection offers what a proposal may be. *)
Proposals(op) == IF op \in DestructiveOps THEN {Empty} ELSE Contents

FlowStep(f) ==
    \/ ReadNotes(f)
    \/ \E command \in Commands, op \in Operations, target \in Paths,
          dest \in Paths \cup {NoPath} : \E proposed \in Proposals(op) :
             StageChange(f, command, op, target, dest, proposed)
    \/ \E command \in Commands, target \in Paths, proposed \in Contents :
             "create-note" \in Operations /\ BuildArtifact(f, command, target, proposed)
    \/ PushArtifacts(f)
    \/ AbandonFlow(f)

CheckStep(m) ==
    \/ \E r \in plan[m].todo :
          ChangePassesPreflight(m, r) \/ ChangeFailsPreflight(m, r) \/ PreflightFault(m, r)
    \/ AcceptPlan(m)
    \/ RefusePlan(m)

WriteStep(m) ==
    \/ \E e \in plan[m].pending : WriteBackup(m, e) \/ BackupFault(m, e)
    \/ \E e \in plan[m].pending \cup plan[m].open : ApplyEntry(m, e) \/ EntryFails(m, e)
    \/ Finalize(m)

SessionStep(m) == CheckStep(m) \/ WriteStep(m)

ReviewStep ==
    \/ \E selected \in SUBSET staged :
          Approve(selected) \/ Reject(selected) \/ Dismiss(selected) \/ Retry(selected)
    \/ \E m \in Sessions, selected \in SUBSET staged :
          StartApply(m, selected) \/ RefuseDuplicatePaths(m, selected)

Next ==
    \/ \E p \in Paths, content \in MaybeContents : UserEdit(p, content)
    \/ \E f \in Flows : FlowStep(f)
    \/ ReviewStep
    \/ \E m \in Sessions : SessionStep(m)
    \/ Unload \/ Crash

Spec == Init /\ [][Next]_vars

(* Every await of a session is answered: vault calls settle and the index   *)
(* refresh gives up after two timeouts.  Nothing obliges the user.          *)
FairSpec == Spec /\ \A m \in Sessions : WF_vars(SessionStep(m))

-----------------------------------------------------------------------------
(* Properties *)

(* Session m's step writes entry e to the vault. *)
Performs(m, e) == e \in plan'[m].done /\ e \notin plan[m].done

Unfinished(m) == plan[m].pending \cup plan[m].open

(* Every record on the list is well formed, so that assertValidRecord never *)
(* throws out of a review action, or out of finalizeApplyPlan after the     *)
(* vault has been written and before the outcomes are merged.               *)
WellFormedRecords == \A r \in staged : WellFormed(r)

(* What a session checked of a record still holds when it writes, whatever  *)
(* the rest of its batch wrote before, unless someone else wrote to one of  *)
(* the record's paths since: the reason for findDuplicateApplyPaths.        *)
ChecksStillHold ==
    \A m \in Sessions : \A e \in Unfinished(m) :
        PathsOf(e.change) \cap touched[m] = {} => PreflightOk(e.change, vault)

(* A note that a session deletes or moves has its content in the backup     *)
(* record of the change by then, unless someone else wrote to it since the  *)
(* session read it (writeDestructiveBackup before the vault call).  The one *)
(* exception: two deletions proposed in one minute may have one id, and so  *)
(* one backup, in which another session may have put another content since. *)
BackupBeforeLoss ==
    [][\A m \in Sessions : \A e \in Unfinished(m) :
         /\ Performs(m, e)
         /\ IsDestructive(e.change)
         /\ PathsOf(e.change) \cap touched[m] = {}
         /\ e.change.op = "delete-note" => ChangeId(e.change) \notin touched[m]
         => \E b \in backups : /\ b.id = ChangeId(e.change)
                               /\ b.content = vault[e.change.target]]_vars

(* A session that has refused one record of its selection writes none, and  *)
(* writes nothing before it has checked them all (planApply is made in full *)
(* before the first write).                                                 *)
AllOrNothing ==
    [][\A m \in Sessions : \A e \in Unfinished(m) :
         Performs(m, e) => plan[m].todo \cup plan[m].conflicted = {}]_vars

(* No change leaves the list but with the plugin: what a flow added while a *)
(* session was waiting survives the session's update of the list            *)
(* (replaceStagedChanges, mergeStagedChangeRecords).                        *)
NoStagedChangeLost ==
    [][restarts' = restarts => ChangeIds(staged) \subseteq ChangeIds(staged')]_vars

(* The list tells what happened: a change marked applied was written at its *)
(* latest attempt, one marked failed was not.                               *)
OutcomesMatchVault ==
    \A r \in staged :
        /\ r.status = "applied" => ChangeId(r) \in performed
        /\ r.status = "failed" => ChangeId(r) \notin performed

(* No session writes a change that the list says is rejected or dismissed.  *)
DecisionsRespected ==
    [][\A m \in Sessions : \A e \in Unfinished(m) :
         Performs(m, e) /\ ~plan[m].orphan =>
            \A r \in staged : ChangeId(r) = ChangeId(e.change) =>
                r.status \notin {"rejected", "dismissed"}]_vars

(* An apply ends, and its modal is free again, whatever fails on the way.   *)
ApplyEnds == \A m \in Sessions : Busy(m) ~> ~Busy(m)

-----------------------------------------------------------------------------
(* The inductive invariant behind ChecksStillHold and WellFormedRecords *)

Selected(m) == plan[m].todo \cup {e.change : e \in Unfinished(m)}

(* Each phase of a session uses its own part of the plan. *)
PhaseInOrder(m) ==
    /\ plan[m].pc = "idle" => plan[m] = NoPlan
    /\ plan[m].pc = "planning" =>
          plan[m].open \cup plan[m].done \cup plan[m].failed = {}
    /\ plan[m].pc = "executing" => plan[m].todo \cup plan[m].conflicted = {}

(* No two changes of one session share a path, and none moves onto itself.  *)
BatchDisjoint(m) ==
    /\ ~DuplicateApplyPaths(Selected(m))
    /\ \A e \in Unfinished(m) : e.change \notin plan[m].todo
    /\ \A e, d \in Unfinished(m) : e.change = d.change => e = d

(* A session writes well-formed records that it saw approved or ready for   *)
(* review.                                                                  *)
PlanWellFormed(m) ==
    /\ \A r \in plan[m].todo \cup plan[m].conflicted : WellFormed(r)
    /\ \A e \in Unfinished(m) \cup plan[m].done \cup plan[m].failed :
          WellFormed(e.change) /\ e.change.status \in ApplyableStatuses

SessionsOk == \A m \in Sessions : PhaseInOrder(m) /\ BatchDisjoint(m) /\ PlanWellFormed(m)

ArtifactsWellFormed == \A f \in Flows : \A r \in flow[f].artifacts : WellFormed(r)

IInv ==
    /\ TypeOK
    /\ SessionsOk
    /\ WellFormedRecords
    /\ ArtifactsWellFormed
    /\ ChecksStillHold

-----------------------------------------------------------------------------
(* What the documentation says and the code does not do *)

(* "The runtime revalidates every selected record immediately before        *)
(* mutation" (docs/staged-change-review-apply.md:23).                       *)
RevalidatedAtMutation ==
    [][\A m \in Sessions : \A e \in Unfinished(m) :
         Performs(m, e) => PreflightOk(e.change, vault)]_vars

(* "Duplicate active changes touching the same target or destination are    *)
(* blocked" (docs/staged-change-review-apply.md:32).                        *)
DuplicatesBlocked ==
    \A r, s \in staged :
        /\ r.status \in ActiveStatuses /\ s.status \in ActiveStatuses
        /\ r # s /\ PathsOf(r) \cap PathsOf(s) # {}
        => r.blocked \/ s.blocked

(* "The runtime revalidates every selected record" (same line): of the      *)
(* records that share a selected id, one that may be applied is checked.    *)
ReviewedRecordIsChecked ==
    [][\A m \in Sessions : plan[m].pc = "idle" =>
         \A r \in plan'[m].todo :
            (\E s \in staged : ChangeId(s) = ChangeId(r) /\ s.status \in ApplyableStatuses)
               => r.status \in ApplyableStatuses]_vars

=============================================================================

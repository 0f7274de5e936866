--------------------------- MODULE StagedRecords ---------------------------
(***************************************************************************)
(* The staged-change record and the functions on it, none of which has     *)
(* state of its own: how a proposal is built and which conflicts block it  *)
(* (agent/staged-change-service.ts), when a record is well formed          *)
(* (utils/vault-validation.ts), how review moves it from one status to     *)
(* another, what apply checks in the vault before it writes and what the   *)
(* write does (agent/staged-change-review-service.ts, main.ts).            *)
(*                                                                         *)
(* A content is a note body as createContentSha256 sees it, that is up to  *)
(* its line endings; Absent stands for "no note at this path".  All        *)
(* conflicts the code creates are blocking, and nothing tells their kinds  *)
(* apart, so a record only says whether it has one.                        *)
(***************************************************************************)
EXTENDS Naturals

CONSTANTS
    Paths,          \* vault paths of markdown notes
    NoPath,         \* "no destination path"
    Segments,       \* what safeIdSegment makes of a path
    PathSegment,    \* the segment of each path
    ShortSegments,  \* what is left of a segment after 24 characters
    ShortSegment,   \* the beginning of each segment
    Contents,       \* note contents up to line endings
    Empty,          \* the empty content
    Absent,         \* "no note here"
    Commands        \* ids of the commands that stage changes

ASSUME NoPathIsNoPath == NoPath \notin Paths
ASSUME AbsentIsNoContent == Absent \notin Contents
ASSUME EmptyIsContent == Empty \in Contents
ASSUME SegmentsOfPaths ==
    PathSegment \in [Paths -> Segments] /\ ShortSegment \in [Segments -> ShortSegments]

MaybeContents == Contents \cup {Absent}

Vaults == [Paths -> MaybeContents]

-----------------------------------------------------------------------------
(* Records *)

Overwrites == {"update-note", "update-frontmatter"}

DestructiveOps == {"delete-note", "move-note"}

OperationKinds == {"create-note"} \cup Overwrites \cup DestructiveOps

ActiveStatuses == {"proposed", "review-ready", "conflicted", "approved"}

(* Mutant: a rejected record may still be applied. *)
ApplyableStatusesWithRejected == {"review-ready", "approved", "rejected"}

ApplyableStatuses == {"review-ready", "approved"}

Statuses == ActiveStatuses \cup {"applied", "rejected", "dismissed", "failed"}

StagedChanges ==
    [command : Commands, op : OperationKinds,
     target : Paths, dest : Paths \cup {NoPath},
     before : MaybeContents, after : MaybeContents,
     stamp : Nat, status : Statuses, blocked : BOOLEAN]

IsDestructive(r) == r.op \in DestructiveOps

PathsOf(r) == {r.target} \cup ({r.dest} \cap Paths)

(* createStagedChangeId: the time of creation takes part only when there is *)
(* no content after the change whose hash could, and then its first twelve  *)
(* digits do, which are those of the minute.                                *)
Stamp(after, minute) == IF after = Absent THEN minute ELSE 0

DestSegment(dest) ==
    IF dest = NoPath THEN NoPath ELSE ShortSegment[PathSegment[dest]]

ChangeId(r) == <<r.op, PathSegment[r.target], DestSegment(r.dest),
                 r.command, r.after, r.stamp>>

ChangeIdValues ==
    OperationKinds \X Segments \X (ShortSegments \cup {NoPath}) \X Commands
        \X MaybeContents \X Nat

ChangeIds(records) == {ChangeId(r) : r \in records}

(* The rules of validateStagedChangeRecordShape that relate two fields; a   *)
(* record that breaks one makes assertValidRecord throw.                    *)
WellFormed(r) ==
    /\ r.op = "move-note" => r.dest # NoPath
    /\ r.blocked => r.status \in {"conflicted", "rejected", "dismissed", "failed"}
    /\ r.status = "conflicted" => r.blocked

-----------------------------------------------------------------------------
(* Staging *)

(* A change is a duplicate of an active one with the same target, of one    *)
(* that moves a note onto its target and of one whose target it moves onto. *)
HasActiveDuplicate(target, dest, records) ==
    \E r \in records :
        /\ r.status \in ActiveStatuses
        /\ r.target = target \/ r.dest = target \/ r.target = dest

After(op, before, proposed) ==
    CASE op = "delete-note" -> Absent
      [] op = "move-note"   -> before
      [] OTHER              -> proposed

BlockedAtBuild(op, target, dest, notes, records) ==
    \/ op = "create-note" /\ notes[target] # Absent
    \/ op # "create-note" /\ notes[target] = Absent
    \/ dest # NoPath /\ notes[dest] # Absent
    \/ HasActiveDuplicate(target, dest, records)

(* buildStagedChange over the notes the caller passed in (expectedBefore is *)
(* left out: its one caller hashes the very content it passes as a note).   *)
Build(command, op, target, dest, proposed, notes, records, minute) ==
    LET after   == After(op, notes[target], proposed)
        blocked == BlockedAtBuild(op, target, dest, notes, records)
    IN  [command |-> command, op |-> op, target |-> target, dest |-> dest,
         before |-> notes[target], after |-> after, stamp |-> Stamp(after, minute),
         status |-> IF blocked THEN "conflicted" ELSE "review-ready",
         blocked |-> blocked]

-----------------------------------------------------------------------------
(* Review transitions.  None of them looks at the record's status. *)

WithStatus(r, status) == [r EXCEPT !.status = status]

MarkConflicted(r) == [r EXCEPT !.status = "conflicted", !.blocked = TRUE]

Approved(r) == IF r.blocked THEN MarkConflicted(r) ELSE WithStatus(r, "approved")

Rejected(r) == WithStatus(r, "rejected")

Dismissed(r) == WithStatus(r, "dismissed")

(* Mutant: a retry forgets the conflicts that block the record. *)
RetriedDespiteConflicts(r) == WithStatus(r, "review-ready")

Retried(r) == WithStatus(r, IF r.blocked THEN "conflicted" ELSE "review-ready")

Applied(r) == WithStatus(r, "applied")

Failed(r) == WithStatus(r, "failed")

(***************************************************************************)
(* The records a request may name.  selectRecords takes, of the records    *)
(* that share a requested id, the first by sort key: with equal ids that   *)
(* is the one whose status comes first in the alphabet.                    *)
(***************************************************************************)
StatusOrder == <<"applied", "approved", "conflicted", "dismissed", "failed",
                 "proposed", "rejected", "review-ready">>

SortsBefore(s, t) ==
    \E i, j \in DOMAIN StatusOrder :
        i < j /\ StatusOrder[i] = s /\ StatusOrder[j] = t

IsSelection(selected, records) ==
    /\ selected # {}
    /\ selected \subseteq records
    /\ \A r \in selected, s \in records : ChangeId(s) = ChangeId(r) =>
            /\ ~SortsBefore(s.status, r.status)
            /\ s \in selected => s = r

(* records.map((record) => changed.get(record.changeId) ?? record) *)
ReplaceById(records, changed) ==
    {r \in records : ChangeId(r) \notin ChangeIds(changed)}
        \cup {c \in changed : ChangeId(c) \in ChangeIds(records)}

-----------------------------------------------------------------------------
(* Applying *)

(* Mutant: destinations are left out of the comparison.                     *)
DuplicateTargets(selected) ==
    \E r, s \in selected : r # s /\ r.target = s.target

(* findDuplicateApplyPaths: one path in two selected records, or twice in   *)
(* one.                                                                     *)
DuplicateApplyPaths(selected) ==
    \/ \E r \in selected : r.dest = r.target
    \/ \E r, s \in selected : r # s /\ PathsOf(r) \cap PathsOf(s) # {}

(* checkOperationPreflight *)
PreflightOk(r, vault) ==
    /\ r.op = "create-note" => vault[r.target] = Absent
    /\ r.op # "create-note" => vault[r.target] # Absent
    /\ r.op = "move-note" => vault[r.dest] = Absent
    /\ r.before # Absent /\ vault[r.target] # Absent => vault[r.target] = r.before

(* What the vault API and requireVaultFile accept. *)
VaultAccepts(r, vault) ==
    /\ r.op = "create-note" => vault[r.target] = Absent
    /\ r.op # "create-note" => vault[r.target] # Absent
    /\ r.op = "move-note" => vault[r.dest] = Absent

(* executeStagedApplyEntry, once the vault API has accepted the call. *)
Effect(r, vault) ==
    [p \in Paths |->
        CASE p = r.target -> IF IsDestructive(r) THEN Absent ELSE r.after
          [] p = r.dest   -> vault[r.target]
          [] OTHER        -> vault[p]]

=============================================================================

------------------------------ MODULE HealthCheck ------------------------------
(***************************************************************************)
(* The health check as the user runs it: modals that share one store       *)
(* (views/vault-health-modal.ts, stores/vault-health-store.ts), the scan,  *)
(* the export of a report and the staging of a repair                      *)
(* (agent/vault-health-runtime-service.ts), each with awaits in which the  *)
(* modal may be closed, the vault edited and a staged change decided.      *)
(*                                                                         *)
(* A modal takes the keyboard, so one is open at a time; what a closed one *)
(* has begun goes on.  The id of a report is the second it was made in.    *)
(* Of the store the report is kept: its status and its messages open or    *)
(* close nothing.                                                          *)
(***************************************************************************)
EXTENDS VaultHealth, Sequences, Functions

CONSTANTS
    Modals,      \* one for each time the check is opened
    Texts,       \* what the notes may become when they are edited
    FirstVault,  \* what they are at first
    Indexes,     \* what the freshness of the index may be
    MaxSecond,   \* bound: seconds that pass
    MaxEvents,   \* bound: edits of the vault, and notes that cannot be read
    MaxChanges   \* bound: staged changes before the user stages no more

VARIABLES
    vault,      \* the notes
    second,     \* the clock
    events,
    modals,     \* the place of each modal and what it is at
    shown,      \* the report of the store
    latest,     \* latestHealthReport
    changes,    \* ingestionStagedChanges
    files,      \* .voidbrain/reports
    exports,    \* inFlightExports
    repairs,    \* inFlightRepairs
    targets     \* inFlightTargets of the staged-change service

vars ==
    <<vault, second, events, modals, shown, latest, changes, files, exports, repairs, targets>>

Ids == 0..MaxSecond

ASSUME VaultIsOfNotes == FirstVault \in [Paths -> Notes]
ASSUME TextsAreNotes == \A p \in Paths : Texts[p] \subseteq Notes
ASSUME IndexesAreKnown == Indexes \subseteq Freshness \cup {None}
ASSUME Bounds == MaxSecond \in Nat /\ MaxEvents \in Nat /\ MaxChanges \in Nat

NoReport == [id |-> None, findings |-> {}, index |-> None, of |-> <<>>]
Torn == [NoReport EXCEPT !.index = "torn"]

Nothing == [at |-> "rest"]
Shut == [place |-> "new", job |-> Nothing]
Steps == {"rest", "scanning", "looking", "writing", "reading", "hashing", "building"}

Staged == Range(changes)

TypeOK ==
    /\ vault \in [Paths -> Notes]
    /\ second \in Ids /\ events \in 0..MaxEvents
    /\ \A m \in Modals : modals[m].place \in {"new", "open", "closed"}
                         /\ modals[m].job.at \in Steps
    /\ shown.id \in Ids \cup {None} /\ latest.id \in Ids \cup {None}
    /\ \A c \in Staged : c.path \in Paths /\ c.status \in ActiveStatuses \cup {"decided"}
    /\ DOMAIN files \subseteq Ids
    /\ exports \subseteq Ids
    /\ targets \subseteq Paths

Init ==
    /\ vault = FirstVault /\ second = 0 /\ events = 0
    /\ modals = [m \in Modals |-> Shut]
    /\ shown = NoReport /\ latest = NoReport
    /\ changes = <<>> /\ files = <<>>
    /\ exports = {} /\ repairs = {} /\ targets = {}

At(m, step) == modals[m].job.at = step
(* Whether a note that is read next cannot be: this is an event. *)
Unread == {u \in {0, 1} : events + u <= MaxEvents}

CanUse(m) == modals[m].place = "open" /\ At(m, "rest")
Does(m, job) == modals' = [modals EXCEPT ![m].job = job]

-----------------------------------------------------------------------------
(* The modal opens, and scans.                                             *)

ScanJob == [at |-> "scanning", notes |-> <<>>, todo |-> Paths]

Open(m) ==
    /\ modals[m].place = "new" /\ \A n \in Modals : modals[n].place # "open"
    /\ modals' = [modals EXCEPT ![m] = [place |-> "open", job |-> ScanJob]]
    /\ shown' = NoReport
    /\ UNCHANGED <<vault, second, events, latest, changes, files, exports, repairs, targets>>

Close(m) ==
    /\ modals[m].place = "open"
    /\ modals' = [modals EXCEPT ![m].place = "closed"]
    /\ shown' = NoReport
    /\ UNCHANGED <<vault, second, events, latest, changes, files, exports, repairs, targets>>

Scan(m) ==
    /\ CanUse(m)
    /\ Does(m, ScanJob)
    /\ UNCHANGED <<vault, second, events, shown, latest, changes, files, exports, repairs, targets>>

(* The notes are read one after the other; one that cannot be read is left *)
(* out.  With the last one the notes are scanned.                          *)
ScanNote(m) ==
    /\ At(m, "scanning")
    /\ \E p \in modals[m].job.todo, unread \in Unread, index \in Indexes :
          /\ events' = events + unread
          /\ LET job == modals[m].job
                 kept == DOMAIN job.notes \cup IF unread = 1 THEN {} ELSE {p}
                 notes == [q \in kept |-> IF q = p THEN vault[p] ELSE job.notes[q]]
                 report == [id |-> second, findings |-> Findings(notes, index),
                            index |-> index, of |-> notes]
             IN  IF job.todo # {p} THEN
                     /\ Does(m, [job EXCEPT !.notes = notes, !.todo = @ \ {p}])
                     /\ UNCHANGED <<shown, latest>>
                 ELSE IF ScanFails(notes) THEN
                     /\ Does(m, Nothing)
                     /\ shown' = NoReport
                     /\ UNCHANGED latest
                 ELSE
                     /\ Does(m, Nothing)
                     /\ shown' = report
                     /\ latest' = report
    /\ UNCHANGED <<vault, second, changes, files, exports, repairs, targets>>

-----------------------------------------------------------------------------
(* A report is exported to the file of its id, unless there is one.        *)

(* A mutant of Export: an export under way is not looked for. *)
ExportTwice(m) ==
    /\ CanUse(m) /\ shown # NoReport
    /\ Does(m, [at |-> "looking", report |-> shown])
    /\ exports' = exports \cup {shown.id}
    /\ UNCHANGED <<vault, second, events, shown, latest, changes, files, repairs, targets>>

Export(m) ==
    /\ CanUse(m) /\ shown # NoReport
    /\ IF shown.id \in exports
       THEN Does(m, Nothing) /\ UNCHANGED exports
       ELSE /\ Does(m, [at |-> "looking", report |-> shown])
                    /\ exports' = exports \cup {shown.id}
    /\ UNCHANGED <<vault, second, events, shown, latest, changes, files, repairs, targets>>

ExportEnds(m) ==
    /\ Does(m, Nothing)
    /\ exports' = exports \ {modals[m].job.report.id}
    /\ UNCHANGED <<vault, second, events, shown, latest, changes, repairs, targets>>

Look(m) ==
    /\ At(m, "looking")
    /\ IF modals[m].job.report.id \in DOMAIN files
       THEN ExportEnds(m) /\ UNCHANGED files
       ELSE /\ Does(m, [modals[m].job EXCEPT !.at = "writing"])
            /\ UNCHANGED <<vault, second, events, shown, latest, changes, files, exports,
                           repairs, targets>>

Written(id, content) == [i \in DOMAIN files \cup {id} |-> IF i = id THEN content ELSE files[i]]

(* The write makes the file, or fails, and may leave a part of it. *)
WriteEnds(m) ==
    /\ At(m, "writing")
    /\ LET report == modals[m].job.report IN
       \/ files' = Written(report.id, report) /\ ExportEnds(m)
       \/ files' \in {files, Written(report.id, Torn)} /\ ExportEnds(m)

(* The look or the write throws. *)
ExportThrows(m) ==
    /\ At(m, "looking")
    /\ ExportEnds(m) /\ UNCHANGED files

-----------------------------------------------------------------------------
(* A repair is staged.                                                     *)

RepairKey(job) == <<job.report.id, job.finding>>

Stage(m) ==
    /\ CanUse(m) /\ Len(changes) < MaxChanges
    /\ \E f \in shown.findings :
          /\ f.kind = "missing-citation"
          /\ Does(m, [at |-> "reading", report |-> shown, finding |-> f])
    /\ UNCHANGED <<vault, second, events, shown, latest, changes, files, exports, repairs, targets>>

RepairEnds(m) ==
    /\ Does(m, Nothing)
    /\ repairs' = repairs \ {RepairKey(modals[m].job)}
    /\ UNCHANGED <<vault, second, events, shown, latest, files, exports>>

(* The notes have been read: the request is judged, and the text hashed. *)
ReadNotes(m) ==
    /\ At(m, "reading")
    /\ \E unread \in Unread :
          LET job == modals[m].job
              path == job.finding.path
              note == IF unread = 1 THEN None ELSE Listed(path, vault[path])
              verdict == RepairVerdict(job.finding, job.report.findings, note, Staged)
          IN  /\ events' = events + unread
              /\ IF verdict # "stages" \/ RepairKey(job) \in repairs
                 THEN Does(m, Nothing) /\ UNCHANGED repairs
                 ELSE /\ Does(m, [at |-> "hashing", report |-> job.report,
                                  finding |-> job.finding, before |-> note, list |-> Staged])
                      /\ repairs' = repairs \cup {RepairKey(job)}
    /\ UNCHANGED <<vault, second, shown, latest, changes, files, exports, targets>>

(* The hash is made: the record is built, one at a time for a target. *)
BeginBuild(m) ==
    /\ At(m, "hashing")
    /\ IF modals[m].job.finding.path \in targets
       THEN RepairEnds(m) /\ UNCHANGED <<changes, targets>>
       ELSE /\ Does(m, [modals[m].job EXCEPT !.at = "building"])
            /\ targets' = targets \cup {modals[m].job.finding.path}
            /\ UNCHANGED <<vault, second, events, shown, latest, changes, files, exports, repairs>>

Record(job, list) ==
    [path |-> job.finding.path, before |-> job.before,
     after |-> Repaired(job.finding, job.before),
     status |-> IF ActiveFor(list, job.finding.path) = {} THEN "review-ready" ELSE "conflicted"]

(* The staging service refuses the sources, before a record is made. *)
RefuseBuild(m) ==
    /\ At(m, "building")
    /\ SourcesRefused(modals[m].job.finding)
    /\ targets' = targets \ {modals[m].job.finding.path}
    /\ RepairEnds(m)
    /\ UNCHANGED changes

(* A mutant of EndBuild: the list of changes is the one the repair began with. *)
EndBuildOfOldList(m) ==
    /\ At(m, "building")
    /\ ~SourcesRefused(modals[m].job.finding)
    /\ changes' = Append(changes, Record(modals[m].job, modals[m].job.list))
    /\ targets' = targets \ {modals[m].job.finding.path}
    /\ RepairEnds(m)

(* The diff is made: the list of changes is looked at again, and the       *)
(* record is in it before anybody else can look.                           *)
EndBuild(m) ==
    /\ At(m, "building")
    /\ ~SourcesRefused(modals[m].job.finding)
    /\ changes' = Append(changes, Record(modals[m].job, Staged))
    /\ targets' = targets \ {modals[m].job.finding.path}
    /\ RepairEnds(m)

-----------------------------------------------------------------------------
(* The others.                                                             *)

(* A staged change is decided: applied to the text it was made for, or not. *)
Decide(i) ==
    LET c == changes[i] IN
    /\ c.status \in ActiveStatuses
    /\ changes' = [changes EXCEPT ![i].status = "decided"]
    /\ \/ UNCHANGED vault
       \/ /\ c.status = "review-ready" /\ vault[c.path] = c.before
          /\ vault' = [vault EXCEPT ![c.path] = c.after]
    /\ UNCHANGED <<second, events, modals, shown, latest, files, exports, repairs, targets>>

Edit(p) ==
    /\ events < MaxEvents
    /\ \E text \in Texts[p] \ {vault[p]} : vault' = [vault EXCEPT ![p] = text]
    /\ events' = events + 1
    /\ UNCHANGED <<second, modals, shown, latest, changes, files, exports, repairs, targets>>

Tick ==
    /\ second < MaxSecond
    /\ second' = second + 1
    /\ UNCHANGED <<vault, events, modals, shown, latest, changes, files, exports, repairs, targets>>

Next ==
    \/ \E m \in Modals :
          \/ Open(m) \/ Close(m) \/ Scan(m) \/ ScanNote(m)
          \/ Export(m) \/ Look(m) \/ WriteEnds(m) \/ ExportThrows(m)
          \/ Stage(m) \/ ReadNotes(m) \/ BeginBuild(m)
          \/ RefuseBuild(m) \/ EndBuild(m)
    \/ \E i \in DOMAIN changes : Decide(i)
    \/ \E p \in Paths : Edit(p)
    \/ Tick

Spec == Init /\ [][Next]_vars

-----------------------------------------------------------------------------
(* Properties.                                                             *)

(* No support record is overwritten: a report that was exported stays as   *)
(* it is, though two reports of one second have the same file.             *)
NoReportOverwritten ==
    [][\A id \in DOMAIN files : id \in DOMAIN files' /\ files'[id] = files[id]]_vars

(* Of the repairs that wait to be decided at most one for a note is ready  *)
(* for review, though the modal was closed and another staged meanwhile.   *)
OneReadyRepair ==
    \A i, j \in DOMAIN changes :
        /\ changes[i].status = "review-ready" /\ changes[j].status = "review-ready"
        /\ changes[i].path = changes[j].path
        => i = j

(* What the planner calls stageable of the latest report is staged when    *)
(* the vault is as it was scanned, but for two kinds of notes that the     *)
(* scan takes and the staging refuses: one whose name ends in .MD, and one *)
(* whose sources are not all paths of a vault.                             *)
StageableIsStaged ==
    \A r \in Stageable(Plan(latest.findings, latest.index, Staged)) :
        r.path \in DOMAIN latest.of /\ latest.of[r.path] = vault[r.path] =>
            (StageVerdict(r, latest.findings, vault[r.path], Staged) = "stages"
                <=> r.path \notin Unlisted /\ Values(vault[r.path].sources) \subseteq Paths)

=============================================================================

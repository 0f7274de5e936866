--------------------------- MODULE HealthCheckProofs ---------------------------
(***************************************************************************)
(* Theorems about HealthCheck for any number of modals, notes, seconds,    *)
(* edits and staged changes.                                               *)
(***************************************************************************)
EXTENDS HealthCheck, TLAPS

-----------------------------------------------------------------------------
(* The inductive invariant: whoever writes a file is the only one to do so *)

(* Jobs differ in their fields; all of them say where they are.             *)
ModalsOk ==
    /\ \E J : modals \in [Modals -> [place : {"new", "open", "closed"}, job : J]]
    /\ \A m \in Modals : "at" \in DOMAIN modals[m].job

IsExport(job) == job.at \in {"looking", "writing"}

(* An export holds the id of its report, and has looked for the file before *)
(* it writes it.                                                            *)
ExportOk(m) ==
    LET job == modals[m].job IN
    IsExport(job) =>
        /\ job \in [at : {"looking", "writing"}, report : {job.report}]
        /\ job.report.id \in exports
        /\ job.at = "writing" => job.report.id \notin DOMAIN files

OneExportPerReport ==
    \A m, n \in Modals :
        /\ m # n
        /\ IsExport(modals[m].job) /\ IsExport(modals[n].job)
        => modals[m].job.report.id # modals[n].job.report.id

ExportInv == ModalsOk /\ (\A m \in Modals : ExportOk(m)) /\ OneExportPerReport

LEMMA ExportInvInit == Init => ExportInv
<1> SUFFICES ASSUME Init
             PROVE  ExportInv
  OBVIOUS
<1>1. Shut \in [place : {"new", "open", "closed"}, job : {Nothing}] /\ Shut.job = Nothing
  BY DEF Shut
<1>2. "at" \in DOMAIN Nothing /\ ~IsExport(Nothing)
  BY DEF Nothing, IsExport
<1>3. modals \in [Modals -> [place : {"new", "open", "closed"}, job : {Nothing}]]
  BY <1>1 DEF Init
<1>4. \A m \in Modals : modals[m].job = Nothing
  BY <1>1 DEF Init
<1> QED
  BY <1>2, <1>3, <1>4 DEF ExportInv, ModalsOk, ExportOk, OneExportPerReport

(* A modal that goes on to its next job leaves the others where they are.   *)
LEMMA JobOfModal ==
  ASSUME ModalsOk, NEW m \in Modals, NEW job, "at" \in DOMAIN job, Does(m, job)
  PROVE  /\ ModalsOk'
         /\ modals'[m].job = job
         /\ \A n \in Modals \ {m} : modals'[n] = modals[n]
<1> DEFINE Shape(J) == [Modals -> [place : {"new", "open", "closed"}, job : J]]
<1>1. PICK J : modals \in Shape(J)
  BY DEF ModalsOk
<1>2. modals[m] \in [place : {"new", "open", "closed"}, job : J]
  BY <1>1
<1> DEFINE next == [modals[m] EXCEPT !.job = job]
<1>3. next \in [place : {"new", "open", "closed"}, job : J \cup {job}] /\ next.job = job
  BY <1>2
<1>4. modals' = [modals EXCEPT ![m] = next]
  BY DEF Does
<1> HIDE DEF next
<1>5. modals' \in Shape(J \cup {job})
  BY <1>1, <1>3, <1>4
<1>6. modals'[m].job = job /\ \A n \in Modals \ {m} : modals'[n] = modals[n]
  BY <1>1, <1>3, <1>4
<1> QED
  BY <1>5, <1>6 DEF ModalsOk

LEMMA JobOfOpened ==
  ASSUME ModalsOk, NEW m \in Modals, Open(m)
  PROVE  /\ ModalsOk'
         /\ modals'[m].job = ScanJob
         /\ \A n \in Modals \ {m} : modals'[n] = modals[n]
<1> DEFINE Shape(J) == [Modals -> [place : {"new", "open", "closed"}, job : J]]
<1>1. PICK J : modals \in Shape(J)
  BY DEF ModalsOk
<1> DEFINE next == [place |-> "open", job |-> ScanJob]
<1>2. next \in [place : {"new", "open", "closed"}, job : J \cup {ScanJob}] /\ next.job = ScanJob
  OBVIOUS
<1>3. modals' = [modals EXCEPT ![m] = next]
  BY DEF Open
<1>4. "at" \in DOMAIN ScanJob
  BY DEF ScanJob
<1> HIDE DEF next
<1>5. modals' \in Shape(J \cup {ScanJob})
  BY <1>1, <1>2, <1>3
<1>6. modals'[m].job = ScanJob /\ \A n \in Modals \ {m} : modals'[n] = modals[n]
  BY <1>1, <1>2, <1>3
<1> QED
  BY <1>4, <1>5, <1>6 DEF ModalsOk

(* A closed modal goes on with its job.                                     *)
LEMMA JobOfClosed ==
  ASSUME ModalsOk, NEW m \in Modals, Close(m)
  PROVE  ModalsOk' /\ \A n \in Modals : modals'[n].job = modals[n].job
<1>1. PICK J : modals \in [Modals -> [place : {"new", "open", "closed"}, job : J]]
  BY DEF ModalsOk
<1> DEFINE next == [modals[m] EXCEPT !.place = "closed"]
<1>2. modals[m] \in [place : {"new", "open", "closed"}, job : J]
  BY <1>1
<1>3. next \in [place : {"new", "open", "closed"}, job : J] /\ next.job = modals[m].job
  BY <1>2
<1>4. modals' = [modals EXCEPT ![m] = next]
  BY DEF Close
<1> HIDE DEF next
<1>5. modals' \in [Modals -> [place : {"new", "open", "closed"}, job : J]]
  BY <1>1, <1>3, <1>4
<1>6. \A n \in Modals : modals'[n].job = modals[n].job
  BY <1>1, <1>3, <1>4
<1> QED
  BY <1>5, <1>6 DEF ModalsOk

LEMMA SameJobs ==
  ASSUME ExportInv, ModalsOk', \A n \in Modals : modals'[n].job = modals[n].job,
         UNCHANGED <<files, exports>>
  PROVE  ExportInv'
BY DEF ExportInv, ExportOk, OneExportPerReport

(* A step to a job that is no export cannot hurt, even if the modal gives   *)
(* up its export and the id, with or without a file of that id.             *)
LEMMA OtherJob ==
  ASSUME ExportInv, NEW m \in Modals, ModalsOk', ~IsExport(modals'[m].job),
         \A n \in Modals \ {m} : modals'[n] = modals[n],
         DOMAIN files' \subseteq DOMAIN files \cup {modals[m].job.report.id},
         DOMAIN files' # DOMAIN files => IsExport(modals[m].job),
         \/ exports' = exports
         \/ IsExport(modals[m].job) /\ exports' = exports \ {modals[m].job.report.id}
  PROVE  ExportInv'
<1>1. OneExportPerReport'
  BY DEF ExportInv, OneExportPerReport
<1>3. ASSUME NEW n \in Modals, IsExport(modals'[n].job)
      PROVE  ExportOk(n)'
  <2>1. n # m /\ modals'[n] = modals[n]
    BY <1>3
  <2>2. modals[n].job.report.id \in exports'
    BY <1>3, <2>1 DEF ExportInv, ExportOk, OneExportPerReport
  <2>3. modals[n].job.at = "writing" => modals[n].job.report.id \notin DOMAIN files'
    BY <1>3, <2>1 DEF ExportInv, ExportOk, OneExportPerReport
  <2> QED
    BY <1>3, <2>1, <2>2, <2>3 DEF ExportInv, ExportOk
<1> QED
  BY <1>1, <1>3 DEF ExportInv, ExportOk

LEMMA NotAnExport ==
  ASSUME ExportInv, NEW m \in Modals, NEW job, "at" \in DOMAIN job, ~IsExport(job), Does(m, job),
         UNCHANGED <<files, exports>>
  PROVE  ExportInv'
<1>1. /\ ModalsOk' /\ modals'[m].job = job
      /\ \A n \in Modals \ {m} : modals'[n] = modals[n]
  BY JobOfModal DEF ExportInv
<1> QED
  BY <1>1, OtherJob

LEMMA NothingIsNoExport == "at" \in DOMAIN Nothing /\ ~IsExport(Nothing)
BY DEF Nothing, IsExport

LEMMA ExportEndsInv ==
  ASSUME ExportInv, NEW m \in Modals, IsExport(modals[m].job), ExportEnds(m),
         DOMAIN files' \subseteq DOMAIN files \cup {modals[m].job.report.id}
  PROVE  ExportInv'
<1>1. /\ ModalsOk' /\ modals'[m].job = Nothing
      /\ \A n \in Modals \ {m} : modals'[n] = modals[n]
  BY JobOfModal, NothingIsNoExport DEF ExportInv, ExportEnds
<1> QED
  BY <1>1, OtherJob, NothingIsNoExport DEF ExportEnds

LEMMA ScanInv ==
  ASSUME ExportInv, NEW m \in Modals, Open(m) \/ Close(m) \/ Scan(m) \/ ScanNote(m)
  PROVE  ExportInv'
<1>1. "at" \in DOMAIN ScanJob /\ ~IsExport(ScanJob)
  BY DEF ScanJob, IsExport
<1>2. CASE Open(m)
  <2>1. /\ ModalsOk' /\ modals'[m].job = ScanJob
        /\ \A n \in Modals \ {m} : modals'[n] = modals[n]
    BY <1>2, JobOfOpened DEF ExportInv
  <2> QED
    BY <1>1, <1>2, <2>1, OtherJob DEF Open
<1>3. CASE Close(m)
  BY <1>3, JobOfClosed, SameJobs DEF Close, ExportInv
<1>4. CASE Scan(m)
  BY <1>1, <1>4, NotAnExport DEF Scan
<1>5. CASE ScanNote(m)
  <2>1. \A notes, todo :
          LET job == [modals[m].job EXCEPT !.notes = notes, !.todo = todo]
          IN  "at" \in DOMAIN job /\ ~IsExport(job)
    BY <1>5 DEF ScanNote, At, IsExport, ExportInv, ModalsOk
  <2>2. \E job : "at" \in DOMAIN job /\ ~IsExport(job) /\ Does(m, job)
    BY <1>5, <2>1, NothingIsNoExport DEF ScanNote
  <2> QED
    BY <1>5, <2>2, NotAnExport DEF ScanNote
<1> QED
  BY <1>2, <1>3, <1>4, <1>5

(* An export is begun only for a report that no other one exports.          *)
LEMMA ExportBeginsInv ==
  ASSUME ExportInv, NEW m \in Modals, Export(m)
  PROVE  ExportInv'
<1>1. CASE shown.id \in exports
  BY <1>1, NotAnExport, NothingIsNoExport DEF Export
<1>2. CASE shown.id \notin exports
  <2> DEFINE job == [at |-> "looking", report |-> shown]
  <2>1. /\ "at" \in DOMAIN job /\ job.at = "looking" /\ job.report = shown
        /\ job \in [at : {"looking", "writing"}, report : {job.report}]
    OBVIOUS
  <2>2. Does(m, job) /\ exports' = exports \cup {shown.id} /\ files' = files
    BY <1>2 DEF Export
  <2> HIDE DEF job
  <2>3. /\ ModalsOk' /\ modals'[m].job = job
        /\ \A n \in Modals \ {m} : modals'[n] = modals[n]
    BY <2>1, <2>2, JobOfModal DEF ExportInv
  <2>4. \A n \in Modals : ExportOk(n)'
    BY <2>1, <2>2, <2>3 DEF ExportInv, ExportOk
  <2>5. \A n \in Modals \ {m} : IsExport(modals'[n].job) => modals'[n].job.report.id # shown.id
    BY <1>2, <2>3 DEF ExportInv, ExportOk
  <2>6. OneExportPerReport'
    BY <2>1, <2>3, <2>5 DEF ExportInv, OneExportPerReport
  <2> QED
    BY <2>3, <2>4, <2>6 DEF ExportInv
<1> QED
  BY <1>1, <1>2

LEMMA LookInv ==
  ASSUME ExportInv, NEW m \in Modals, Look(m)
  PROVE  ExportInv'
<1> DEFINE id == modals[m].job.report.id
<1>1. IsExport(modals[m].job)
  BY DEF Look, At, IsExport
<1>2. CASE id \in DOMAIN files
  BY <1>1, <1>2, ExportEndsInv DEF Look
<1>3. CASE id \notin DOMAIN files
  <2> DEFINE job == [modals[m].job EXCEPT !.at = "writing"]
  <2>0. modals[m].job \in [at : {"looking", "writing"}, report : {modals[m].job.report}]
    BY <1>1 DEF ExportInv, ExportOk
  <2>1. /\ "at" \in DOMAIN job /\ job.at = "writing" /\ job.report = modals[m].job.report
        /\ job \in [at : {"looking", "writing"}, report : {job.report}]
    BY <2>0
  <2>2. Does(m, job) /\ UNCHANGED <<files, exports>>
    BY <1>3 DEF Look
  <2> HIDE DEF job
  <2>3. /\ ModalsOk' /\ modals'[m].job = job
        /\ \A n \in Modals \ {m} : modals'[n] = modals[n]
    BY <2>1, <2>2, JobOfModal DEF ExportInv
  <2>4. \A n \in Modals : ExportOk(n)'
    BY <1>1, <1>3, <2>1, <2>2, <2>3 DEF ExportInv, ExportOk
  <2>5. OneExportPerReport'
    BY <1>1, <2>1, <2>3 DEF ExportInv, OneExportPerReport, IsExport
  <2> QED
    BY <2>3, <2>4, <2>5 DEF ExportInv
<1> QED
  BY <1>2, <1>3

(* What the end of a write does to the files.                               *)
LEMMA FilesOfWrite ==
  ASSUME ExportInv, NEW m \in Modals, WriteEnds(m)
  PROVE  /\ IsExport(modals[m].job) /\ ExportEnds(m)
         /\ DOMAIN files' \subseteq DOMAIN files \cup {modals[m].job.report.id}
         /\ \A id \in DOMAIN files : id \in DOMAIN files' /\ files'[id] = files[id]
<1>1. IsExport(modals[m].job) /\ modals[m].job.report.id \notin DOMAIN files
  BY DEF WriteEnds, At, IsExport, ExportInv, ExportOk
<1>2. ExportEnds(m)
  BY DEF WriteEnds
<1>3. files' = files \/ \E content : files' = Written(modals[m].job.report.id, content)
  BY DEF WriteEnds
<1> QED
  BY <1>1, <1>2, <1>3 DEF Written

(* A repair touches neither files nor exports.                              *)
LEMMA RepairInv ==
  ASSUME ExportInv, NEW m \in Modals,
         Stage(m) \/ ReadNotes(m) \/ BeginBuild(m) \/ RefuseBuild(m) \/ EndBuild(m)
  PROVE  ExportInv'
<1>1. UNCHANGED <<files, exports>>
  BY DEF Stage, ReadNotes, BeginBuild, RefuseBuild, EndBuild, RepairEnds
<1>2. \E job : "at" \in DOMAIN job /\ ~IsExport(job) /\ Does(m, job)
  <2>1. CASE Stage(m)
    <3>1. \A f : LET job == [at |-> "reading", report |-> shown, finding |-> f]
                 IN  "at" \in DOMAIN job /\ ~IsExport(job)
      BY DEF IsExport
    <3> QED
      BY <2>1, <3>1 DEF Stage
  <2>2. CASE ReadNotes(m)
    <3>1. \A r, f, b, l :
            LET job == [at |-> "hashing", report |-> r, finding |-> f, before |-> b, list |-> l]
            IN  "at" \in DOMAIN job /\ ~IsExport(job)
      BY DEF IsExport
    <3> QED
      BY <2>2, <3>1, NothingIsNoExport DEF ReadNotes
  <2>3. CASE BeginBuild(m)
    <3>1. LET job == [modals[m].job EXCEPT !.at = "building"]
          IN  "at" \in DOMAIN job /\ ~IsExport(job)
      BY DEF IsExport, ExportInv, ModalsOk
    <3> QED
      BY <2>3, <3>1, NothingIsNoExport DEF BeginBuild, RepairEnds
  <2>4. CASE RefuseBuild(m) \/ EndBuild(m)
    BY <2>4, NothingIsNoExport DEF RefuseBuild, EndBuild, RepairEnds
  <2> QED
    BY <2>1, <2>2, <2>3, <2>4
<1> QED
  BY <1>1, <1>2, NotAnExport

LEMMA ExportInvNext ==
  ASSUME ExportInv, [Next]_vars
  PROVE  ExportInv'
<1>1. ASSUME NEW m \in Modals, Open(m) \/ Close(m) \/ Scan(m) \/ ScanNote(m)
      PROVE  ExportInv'
  BY <1>1, ScanInv
<1>2. ASSUME NEW m \in Modals, Export(m) \/ Look(m)
      PROVE  ExportInv'
  BY <1>2, ExportBeginsInv, LookInv
<1>3. ASSUME NEW m \in Modals, WriteEnds(m)
      PROVE  ExportInv'
  BY <1>3, FilesOfWrite, ExportEndsInv
<1>4. ASSUME NEW m \in Modals, ExportThrows(m)
      PROVE  ExportInv'
  BY <1>4, ExportEndsInv DEF ExportThrows, At, IsExport
<1>5. ASSUME NEW m \in Modals,
             Stage(m) \/ ReadNotes(m) \/ BeginBuild(m) \/ RefuseBuild(m) \/ EndBuild(m)
      PROVE  ExportInv'
  BY <1>5, RepairInv
<1>6. ASSUME UNCHANGED <<modals, files, exports>>
      PROVE  ExportInv'
  BY <1>6 DEF ExportInv, ModalsOk, ExportOk, OneExportPerReport
<1>7. CASE UNCHANGED vars
  BY <1>6, <1>7 DEF vars
<1>8. CASE Tick \/ (\E p \in Paths : Edit(p)) \/ \E i \in DOMAIN changes : Decide(i)
  BY <1>6, <1>8 DEF Tick, Edit, Decide
<1> QED
  BY <1>1, <1>2, <1>3, <1>4, <1>5, <1>7, <1>8 DEF Next

-----------------------------------------------------------------------------
(* exportReport never overwrites a support record, however many modals      *)
(* export however many reports in a second: the file is looked for before   *)
(* it is written, and the key in inFlightExports keeps others away from it  *)
(* in between.                                                              *)
THEOREM ReportsAreKept == Spec => NoReportOverwritten
<1> DEFINE Kept == \A id \in DOMAIN files : id \in DOMAIN files' /\ files'[id] = files[id]
<1>1. ASSUME ExportInv, Next
      PROVE  Kept
  <2>1. files' = files \/ \E m \in Modals : WriteEnds(m)
    BY <1>1
    DEF Next, Open, Close, Scan, ScanNote, Export, Look, ExportThrows, ExportEnds, Stage,
        ReadNotes, BeginBuild, RefuseBuild, EndBuild, RepairEnds, Decide, Edit, Tick
  <2> QED
    BY <1>1, <2>1, FilesOfWrite
<1>2. ExportInv /\ [Next]_vars => ExportInv' /\ [Kept]_vars
  BY <1>1, ExportInvNext
<1> QED
  BY <1>2, ExportInvInit, PTL DEF Spec, NoReportOverwritten

-----------------------------------------------------------------------------
(* The staged repairs                                                       *)

Records(A) == [path : A, before : A, after : A, status : ActiveStatuses \cup {"decided"}]

ChangesOk == \E A : changes \in Seq(Records(A))

RepairsInv == ChangesOk /\ OneReadyRepair

LEMMA RepairsInvInit == Init => RepairsInv
<1> SUFFICES ASSUME Init
             PROVE  RepairsInv
  OBVIOUS
<1>1. changes \in Seq(Records({}))
  BY DEF Init
<1> QED
  BY <1>1 DEF Init, RepairsInv, ChangesOk, OneReadyRepair

(* The list is looked at when the record is made, and a record for a note   *)
(* with an active change is not ready for review.                           *)
LEMMA RepairsInvEndBuild ==
  ASSUME RepairsInv, NEW m \in Modals, EndBuild(m)
  PROVE  RepairsInv'
<1> DEFINE record == Record(modals[m].job, Staged)
<1>1. PICK A : changes \in Seq(Records(A))
  BY DEF RepairsInv, ChangesOk
<1> DEFINE B == A \cup {record.path, record.before, record.after}
<1>2. record \in Records(B)
  BY DEF Record, Records, ActiveStatuses
<1>3. record.status = "review-ready" => ActiveFor(Staged, record.path) = {}
  BY DEF Record
<1>4. Records(A) \subseteq Records(B)
  BY DEF Records
<1> HIDE DEF record, B
<1>5. changes \in Seq(Records(B))
  BY <1>1, <1>4
<1>6. changes' = Append(changes, record)
  BY DEF EndBuild, record
<1>7. changes' \in Seq(Records(B))
  BY <1>2, <1>5, <1>6
<1>8. \A i \in DOMAIN changes : changes[i].status = "review-ready" /\ changes[i].path = record.path
        => record.status # "review-ready"
  BY <1>3 DEF ActiveFor, ActiveStatuses, Staged, Range
<1>9. /\ DOMAIN changes' = DOMAIN changes \cup {Len(changes) + 1}
      /\ changes'[Len(changes) + 1] = record
      /\ \A i \in DOMAIN changes : changes'[i] = changes[i]
  BY <1>2, <1>5, <1>6
<1>10. OneReadyRepair'
  BY <1>8, <1>9 DEF RepairsInv, OneReadyRepair
<1> QED
  BY <1>7, <1>10 DEF RepairsInv, ChangesOk

LEMMA RepairsInvDecide ==
  ASSUME RepairsInv, NEW i \in DOMAIN changes, Decide(i)
  PROVE  RepairsInv'
<1>1. PICK A : changes \in Seq(Records(A))
  BY DEF RepairsInv, ChangesOk
<1> DEFINE decided == [changes[i] EXCEPT !.status = "decided"]
<1>2. changes[i] \in Records(A)
  BY <1>1
<1>3. decided \in Records(A) /\ decided.status = "decided"
  BY <1>2 DEF Records
<1>4. changes' = [changes EXCEPT ![i] = decided]
  BY DEF Decide
<1> HIDE DEF decided
<1>5. changes' \in Seq(Records(A))
  BY <1>1, <1>3, <1>4
<1>6. /\ DOMAIN changes' = DOMAIN changes /\ changes'[i].status = "decided"
      /\ \A j \in DOMAIN changes : j # i => changes'[j] = changes[j]
  BY <1>1, <1>3, <1>4
<1> QED
  BY <1>5, <1>6 DEF RepairsInv, ChangesOk, OneReadyRepair

(* Of the repairs that wait for a decision at most one for a note is ready  *)
(* for review, for any number of modals that stage them.                    *)
THEOREM RepairsDoNotCompete == Spec => []OneReadyRepair
<1>1. ASSUME RepairsInv, [Next]_vars
      PROVE  RepairsInv'
  <2>1. CASE UNCHANGED changes
    BY <1>1, <2>1 DEF RepairsInv, ChangesOk, OneReadyRepair
  <2>2. \/ UNCHANGED changes
        \/ \E m \in Modals : EndBuild(m)
        \/ \E i \in DOMAIN changes : Decide(i)
    BY <1>1
    DEF Next, vars, Open, Close, Scan, ScanNote, Export, Look, WriteEnds, ExportThrows,
        ExportEnds, Stage, ReadNotes, BeginBuild, RefuseBuild, RepairEnds, Edit, Tick
  <2> QED
    BY <1>1, <2>1, <2>2, RepairsInvEndBuild, RepairsInvDecide
<1>2. RepairsInv => OneReadyRepair
  BY DEF RepairsInv
<1> QED
  BY <1>1, <1>2, RepairsInvInit, PTL DEF Spec

-----------------------------------------------------------------------------
(* What is stageable is staged                                              *)

(* What a scan may have read.                                               *)
IsScan(notes) == DOMAIN notes \in SUBSET Paths /\ notes \in [DOMAIN notes -> Notes]

(* A finding that can be repaired is about a note and what it names as its  *)
(* sources, paths or not.                                                   *)
AboutNotes(f) ==
    f.kind = "missing-citation" => f.path \in Paths /\ f.sources \subseteq Paths \cup Outside

ReportOk(report) ==
    /\ report.id \in Ids \cup {None}
    /\ report # NoReport => report.id \in Ids
    /\ \A f \in report.findings : AboutNotes(f)

(* The latest report is what a scan of the notes it names has found.        *)
LatestOk ==
    latest = NoReport \/ (IsScan(latest.of) /\ latest.findings = Findings(latest.of, latest.index))

JobOk(job) ==
    /\ job.at \in Steps
    /\ job.at = "scanning" =>
          /\ job \in [at : {"scanning"}, notes : {job.notes}, todo : SUBSET Paths]
          /\ IsScan(job.notes)
    /\ IsExport(job) => job.report.id \in Ids
    /\ job.at = "reading" => AboutNotes(job.finding) /\ job.finding.kind = "missing-citation"
    /\ job.at \in {"hashing", "building"} =>
          /\ job \in [at : {"hashing", "building"}, report : {job.report},
                      finding : {job.finding}, before : Notes, list : {job.list}]
          /\ AboutNotes(job.finding) /\ job.finding.kind = "missing-citation"

RepairRecords ==
    [path : Paths, before : Notes, after : Notes, status : ActiveStatuses \cup {"decided"}]

HealthInv ==
    /\ vault \in [Paths -> Notes]
    /\ second \in Ids /\ events \in 0 .. MaxEvents
    /\ ExportInv /\ \A m \in Modals : JobOk(modals[m].job)
    /\ ReportOk(shown) /\ ReportOk(latest) /\ LatestOk
    /\ changes \in Seq(RepairRecords)
    /\ DOMAIN files \subseteq Ids /\ exports \subseteq Ids /\ targets \subseteq Paths

(* What a scan finds that can be repaired is a note without citations and   *)
(* its sources.                                                             *)
LEMMA CitationFindings ==
  ASSUME NEW notes, NEW index, NEW f \in Findings(notes, index), f.kind = "missing-citation"
  PROVE  /\ f.path \in DOMAIN notes
         /\ LacksCitations(notes[f.path])
         /\ f = Finding("missing-citation", "error", f.path, Values(notes[f.path].sources))
<1>1. f \notin StaleIndexFindings(index)
  BY DEF StaleIndexFindings, Finding
<1>2. PICK p \in DOMAIN notes : f \in FindingsOf(notes, p)
  BY <1>1 DEF Findings
<1>3. LacksCitations(notes[p]) /\ f = Finding("missing-citation", Severity("missing-citation"), p,
                                              Values(notes[p].sources))
  BY <1>2 DEF FindingsOf, Finding
<1>4. Severity("missing-citation") = "error"
  BY DEF Severity
<1>5. f.path = p
  BY <1>3 DEF Finding
<1> QED
  BY <1>2, <1>3, <1>4, <1>5

LEMMA ValuesOfNote ==
  ASSUME NEW note \in Notes
  PROVE  Values(note.sources) \subseteq Paths \cup Outside
<1>1. note.sources \in Lists
  BY DEF Notes
<1> QED
  BY <1>1 DEF Lists, Values

LEMMA FindingsAreAboutNotes ==
  ASSUME NEW notes, IsScan(notes), NEW index, NEW f \in Findings(notes, index)
  PROVE  AboutNotes(f)
<1> SUFFICES ASSUME f.kind = "missing-citation"
             PROVE  f.path \in Paths /\ f.sources \subseteq Paths \cup Outside
  BY DEF AboutNotes
<1>1. /\ f.path \in DOMAIN notes
      /\ f = Finding("missing-citation", "error", f.path, Values(notes[f.path].sources))
  BY CitationFindings
<1>2. f.path \in Paths /\ notes[f.path] \in Notes
  BY <1>1 DEF IsScan
<1>3. f.sources = Values(notes[f.path].sources)
  BY <1>1 DEF Finding
<1>4. Values(notes[f.path].sources) \subseteq Paths \cup Outside
  BY <1>2, ValuesOfNote
<1> QED
  BY <1>2, <1>3, <1>4

(* The planner calls only findings stageable that can be repaired, of notes *)
(* without an active change.                                                *)
LEMMA StageableFinding ==
  ASSUME NEW findings, NEW index, NEW records, NEW r \in Stageable(Plan(findings, index, records))
  PROVE  \E f \in findings : /\ IsSafe(f) /\ ActiveFor(records, f.path) = {}
                             /\ r.category = f.kind /\ r.path = f.path
                             /\ r.stageability = "stageable"
<1>1. r \in Plan(findings, index, records) /\ r.stageability = "stageable"
  BY DEF Stageable
<1>2. r \notin FromIndex(index) /\ r \notin FromChanges(records)
  BY <1>1 DEF FromIndex, FromChanges, Recommendation
<1>3. PICK f \in findings :
          r = Recommendation(f.kind, f.severity, Confidence(f), Stageability(f, records), f.path)
  BY <1>1, <1>2 DEF Plan, FromFindings
<1>4. r.category = f.kind /\ r.path = f.path /\ Stageability(f, records) = "stageable"
  BY <1>1, <1>3 DEF Recommendation
<1>5. IsSafe(f) /\ ActiveFor(records, f.path) = {}
  BY <1>4 DEF Stageability
<1> QED
  BY <1>1, <1>4, <1>5

(* So the planner and the service judge alike as long as the note is as it  *)
(* was scanned, if its name and its sources are of the kind that the        *)
(* staging takes; if not, the staging refuses.                              *)
LEMMA StageableStages ==
  ASSUME NEW notes, IsScan(notes), NEW index, NEW records,
         NEW r \in Stageable(Plan(Findings(notes, index), index, records)),
         r.path \in DOMAIN notes
  PROVE  StageVerdict(r, Findings(notes, index), notes[r.path], records) = "stages"
            <=> r.path \notin Unlisted /\ Values(notes[r.path].sources) \subseteq Paths
<1> DEFINE findings == Findings(notes, index)
           chosen == CHOOSE g \in findings : g.kind = r.category /\ g.path = r.path
           note == notes[r.path]
<1>1. PICK f \in findings : /\ IsSafe(f) /\ ActiveFor(records, f.path) = {}
                            /\ r.category = f.kind /\ r.path = f.path
                            /\ r.stageability = "stageable"
  BY StageableFinding
<1>2. f.kind = "missing-citation" /\ f.sources # {}
  BY <1>1 DEF IsSafe
<1>3. chosen \in findings /\ chosen.kind = "missing-citation" /\ chosen.path = f.path
  BY <1>1, <1>2
<1>4. chosen = f
  BY <1>2, <1>3, CitationFindings
<1>5. LacksCitations(note) /\ note \in Notes
  BY <1>1, <1>2, CitationFindings DEF IsScan
<1>6. CanRepair(f, note)
  BY <1>2, <1>5, NoneIsNothing DEF CanRepair, LacksCitations, NeedsCitations
<1>7. RepairVerdict(f, findings, note, records) = "stages"
  BY <1>1, <1>6 DEF RepairVerdict
<1>8. SourcesRefused(f) <=> ~(Values(note.sources) \subseteq Paths)
  <2>1. f.sources = Values(note.sources)
    BY <1>1, <1>2, CitationFindings DEF Finding
  <2>2. Values(note.sources) \subseteq Paths \cup Outside
    BY <1>5, ValuesOfNote
  <2> QED
    BY <2>1, <2>2, OutsideIsOutside DEF SourcesRefused
<1> HIDE DEF findings, note
<1>9. StageVerdict(r, findings, note, records) =
        IF r.category # "missing-citation" \/ ~IsSafe(chosen) THEN "missing-evidence"
        ELSE IF chosen.path \in Unlisted THEN "unsupported-path"
        ELSE IF RepairVerdict(chosen, findings, note, records) = "stages" /\ SourcesRefused(chosen)
        THEN "validation-failed"
        ELSE RepairVerdict(chosen, findings, note, records)
  BY <1>1 DEF StageVerdict
<1>10. StageVerdict(r, findings, note, records) =
         IF r.path \in Unlisted THEN "unsupported-path"
         ELSE IF SourcesRefused(f) THEN "validation-failed" ELSE "stages"
  BY <1>1, <1>2, <1>4, <1>7, <1>9
<1> QED
  BY <1>8, <1>10 DEF findings, note

LEMMA StageableOfInvariant ==
  ASSUME HealthInv
  PROVE  StageableIsStaged
<1> SUFFICES ASSUME NEW r \in Stageable(Plan(latest.findings, latest.index, Staged)),
                    r.path \in DOMAIN latest.of, latest.of[r.path] = vault[r.path]
             PROVE  StageVerdict(r, latest.findings, vault[r.path], Staged) = "stages"
                      <=> r.path \notin Unlisted /\ Values(vault[r.path].sources) \subseteq Paths
  BY DEF StageableIsStaged
<1>1. latest # NoReport
  <2>1. latest = NoReport => latest.findings = {}
    BY DEF NoReport
  <2> QED
    BY <2>1, StageableFinding
<1>2. IsScan(latest.of) /\ latest.findings = Findings(latest.of, latest.index)
  BY <1>1 DEF HealthInv, LatestOk
<1> QED
  BY <1>2, StageableStages

(* Jobs and reports that are always in order.                               *)
LEMMA EasyJobs ==
  /\ JobOk(Nothing) /\ "at" \in DOMAIN Nothing
  /\ JobOk(ScanJob) /\ "at" \in DOMAIN ScanJob
  /\ ReportOk(NoReport)
<1>1. JobOk(Nothing) /\ "at" \in DOMAIN Nothing
  BY DEF JobOk, Nothing, Steps, IsExport
<1>2. IsScan(<<>>)
  <2>1. DOMAIN <<>> = {} /\ <<>> = [i \in {} |-> <<>>[i]]
    OBVIOUS
  <2> QED
    BY <2>1 DEF IsScan
<1>3. JobOk(ScanJob) /\ "at" \in DOMAIN ScanJob
  BY <1>2 DEF JobOk, ScanJob, Steps, IsExport
<1>4. ReportOk(NoReport)
  BY DEF ReportOk, NoReport
<1> QED
  BY <1>1, <1>3, <1>4

LEMMA HealthInit == Init => HealthInv
<1> SUFFICES ASSUME Init
             PROVE  HealthInv
  OBVIOUS
<1>1. ExportInv
  BY ExportInvInit
<1>2. \A m \in Modals : modals[m].job = Nothing
  BY DEF Init, Shut
<1>3. vault \in [Paths -> Notes]
  BY VaultIsOfNotes DEF Init
<1>4. second \in Ids /\ events \in 0 .. MaxEvents
  <2>1. 0 \in 0 .. MaxSecond /\ 0 \in 0 .. MaxEvents
    BY Bounds
  <2> QED
    BY <2>1 DEF Init, Ids
<1>5. shown = NoReport /\ latest = NoReport
  BY DEF Init
<1>6. changes \in Seq(RepairRecords) /\ DOMAIN files = {} /\ exports = {} /\ targets = {}
  BY DEF Init
<1> QED
  BY <1>1, <1>2, <1>3, <1>4, <1>5, <1>6, EasyJobs DEF HealthInv, LatestOk

(* The job a modal goes on to is in order, and so are those of the others.  *)
LEMMA JobsStep ==
  ASSUME ModalsOk, \A n \in Modals : JobOk(modals[n].job), NEW m \in Modals,
         NEW job, JobOk(job), "at" \in DOMAIN job, Does(m, job)
  PROVE  \A n \in Modals : JobOk(modals'[n].job)
<1>1. /\ modals'[m].job = job
      /\ \A n \in Modals \ {m} : modals'[n] = modals[n]
  BY JobOfModal
<1> QED
  BY <1>1

(* A report that is shown, or made of notes that were read, is in order.    *)
LEMMA MadeReport ==
  ASSUME NEW notes, IsScan(notes), NEW index, NEW id \in Ids
  PROVE  LET report == [id |-> id, findings |-> Findings(notes, index), index |-> index, of |-> notes]
         IN  /\ ReportOk(report)
             /\ IsScan(report.of) /\ report.findings = Findings(report.of, report.index)
BY FindingsAreAboutNotes DEF ReportOk

LEMMA OpenStep ==
  ASSUME HealthInv, NEW m \in Modals, Open(m) \/ Close(m) \/ Scan(m)
  PROVE  HealthInv'
<1>1. ExportInv'
  BY ScanInv DEF HealthInv
<1>2. \A n \in Modals : JobOk(modals'[n].job)
  <2>1. CASE Open(m)
    BY <2>1, JobOfOpened, EasyJobs DEF HealthInv, ExportInv
  <2>2. CASE Close(m)
    BY <2>2, JobOfClosed DEF HealthInv, ExportInv
  <2>3. CASE Scan(m)
    BY <2>3, JobsStep, EasyJobs DEF HealthInv, ExportInv, Scan
  <2> QED
    BY <2>1, <2>2, <2>3
<1>3. /\ shown' \in {shown, NoReport}
      /\ UNCHANGED <<vault, second, events, latest, changes, files, exports, targets>>
  BY DEF Open, Close, Scan
<1> QED
  BY <1>1, <1>2, <1>3, EasyJobs DEF HealthInv, LatestOk

LEMMA ScanNoteStep ==
  ASSUME HealthInv, NEW m \in Modals, ScanNote(m)
  PROVE  HealthInv'
<1>1. ExportInv'
  BY ScanInv DEF HealthInv
<1> DEFINE job == modals[m].job
<1>2. PICK p \in modals[m].job.todo, unread \in Unread, index \in Indexes :
        /\ events' = events + unread
        /\ LET kept == DOMAIN job.notes \cup IF unread = 1 THEN {} ELSE {p}
               notes == [q \in kept |-> IF q = p THEN vault[p] ELSE job.notes[q]]
               report == [id |-> second, findings |-> Findings(notes, index),
                          index |-> index, of |-> notes]
           IN  IF job.todo # {p} THEN
                   /\ Does(m, [job EXCEPT !.notes = notes, !.todo = @ \ {p}])
                   /\ UNCHANGED <<shown, latest>>
               ELSE IF ScanFails(notes) THEN
                   /\ Does(m, Nothing)
                   /\ shown' = NoReport
                   /\ UNCHANGED latest
               ELSE
                   /\ Does(m, Nothing)
                   /\ shown' = report
                   /\ latest' = report
  BY ZenonT(60) DEF ScanNote
<1> DEFINE kept == DOMAIN job.notes \cup IF unread = 1 THEN {} ELSE {p}
           notes == [q \in kept |-> IF q = p THEN vault[p] ELSE job.notes[q]]
           report == [id |-> second, findings |-> Findings(notes, index),
                      index |-> index, of |-> notes]
           next == [job EXCEPT !.notes = notes, !.todo = job.todo \ {p}]
<1>3. /\ job \in [at : {"scanning"}, notes : {job.notes}, todo : SUBSET Paths]
      /\ IsScan(job.notes)
  BY DEF HealthInv, JobOk, ScanNote, At
<1>4. IsScan(notes)
  <2>1. p \in Paths /\ vault[p] \in Notes
    BY <1>3 DEF HealthInv
  <2>2. kept \subseteq Paths /\ \A q \in kept : q = p \/ (q \in DOMAIN job.notes /\ job.notes[q] \in Notes)
    BY <1>3, <2>1 DEF IsScan
  <2> QED
    BY <2>1, <2>2 DEF IsScan
<1>5. /\ ReportOk(report)
      /\ IsScan(report.of) /\ report.findings = Findings(report.of, report.index)
  BY <1>4, MadeReport DEF HealthInv
<1>6. events' \in 0 .. MaxEvents
  <2>1. unread \in {0, 1} /\ events + unread <= MaxEvents /\ events \in 0 .. MaxEvents
    BY DEF Unread, HealthInv
  <2> QED
    BY <1>2, <2>1, Bounds
<1>7. JobOk(next) /\ "at" \in DOMAIN next
  <2>1. next \in [at : {"scanning"}, notes : {notes}, todo : SUBSET Paths]
    BY <1>3
  <2> HIDE DEF next, notes
  <2>2. next.at = "scanning" /\ next.notes = notes /\ "at" \in DOMAIN next
    BY <2>1
  <2> QED
    BY <1>4, <2>1, <2>2 DEF JobOk, Steps, IsExport
<1>8. /\ events' = events + unread
      /\ \/ Does(m, next) /\ UNCHANGED <<shown, latest>>
         \/ Does(m, Nothing) /\ shown' = NoReport /\ UNCHANGED latest
         \/ Does(m, Nothing) /\ shown' = report /\ latest' = report
  BY <1>2
<1> HIDE DEF kept, notes, report, next
<1>9. \A n \in Modals : JobOk(modals'[n].job)
  BY <1>7, <1>8, JobsStep, EasyJobs DEF HealthInv, ExportInv
<1>10. ReportOk(shown') /\ ReportOk(latest') /\ LatestOk'
  BY <1>5, <1>8, EasyJobs DEF HealthInv, LatestOk
<1>11. UNCHANGED <<vault, second, changes, files, exports, targets>>
  BY DEF ScanNote
<1> QED
  BY <1>1, <1>6, <1>9, <1>10, <1>11 DEF HealthInv

LEMMA ExportsStep ==
  ASSUME HealthInv, NEW m \in Modals, Export(m) \/ Look(m) \/ WriteEnds(m) \/ ExportThrows(m)
  PROVE  HealthInv'
<1>1. ExportInv'
  BY ExportInvNext DEF HealthInv, Next
<1>2. UNCHANGED <<vault, second, events, shown, latest, changes, targets>>
  BY DEF Export, Look, WriteEnds, ExportThrows, ExportEnds
<1>3. ModalsOk /\ \A n \in Modals : JobOk(modals[n].job)
  BY DEF HealthInv, ExportInv
<1>4. CASE Export(m)
  <2> DEFINE job == [at |-> "looking", report |-> shown]
  <2>1. shown.id \in Ids
    BY <1>4 DEF Export, HealthInv, ReportOk
  <2>2. JobOk(job) /\ "at" \in DOMAIN job
    BY <2>1 DEF JobOk, Steps, IsExport
  <2>3. /\ files' = files /\ exports' \subseteq exports \cup {shown.id}
        /\ Does(m, Nothing) \/ Does(m, job)
    BY <1>4 DEF Export
  <2> HIDE DEF job
  <2>4. \A n \in Modals : JobOk(modals'[n].job)
    BY <1>3, <2>2, <2>3, JobsStep, EasyJobs
  <2> QED
    BY <1>1, <1>2, <2>1, <2>3, <2>4 DEF HealthInv, LatestOk
<1>5. CASE ~Export(m)
  <2> DEFINE job == modals[m].job
             next == [job EXCEPT !.at = "writing"]
  <2>1. IsExport(job) /\ job.report.id \in Ids
    BY <1>3, <1>5 DEF Look, WriteEnds, ExportThrows, At, IsExport, JobOk
  <2>2. /\ exports' \subseteq exports
        /\ DOMAIN files' \subseteq DOMAIN files \cup {job.report.id}
        /\ Does(m, Nothing) \/ Does(m, next)
    BY <1>5 DEF Look, WriteEnds, ExportThrows, ExportEnds, Written
  <2>3. JobOk(next) /\ "at" \in DOMAIN next
    <3>1. job \in [at : {"looking", "writing"}, report : {job.report}]
      BY <2>1 DEF HealthInv, ExportInv, ExportOk
    <3>2. next.at = "writing" /\ next.report = job.report /\ "at" \in DOMAIN next
      BY <3>1
    <3> QED
      BY <2>1, <3>2 DEF JobOk, Steps, IsExport
  <2> HIDE DEF next
  <2>4. \A n \in Modals : JobOk(modals'[n].job)
    BY <1>3, <2>2, <2>3, JobsStep, EasyJobs
  <2> QED
    BY <1>1, <1>2, <2>1, <2>2, <2>4 DEF HealthInv, LatestOk
<1> QED
  BY <1>4, <1>5

LEMMA RepairStep ==
  ASSUME HealthInv, NEW m \in Modals,
         Stage(m) \/ ReadNotes(m) \/ BeginBuild(m) \/ RefuseBuild(m)
  PROVE  HealthInv'
<1>1. ExportInv'
  BY RepairInv DEF HealthInv
<1>2. UNCHANGED <<vault, second, shown, latest, changes, files, exports>>
  BY DEF Stage, ReadNotes, BeginBuild, RefuseBuild, RepairEnds
<1>3. ModalsOk /\ \A n \in Modals : JobOk(modals[n].job)
  BY DEF HealthInv, ExportInv
<1>4. CASE Stage(m)
  <2>1. PICK f \in shown.findings :
            f.kind = "missing-citation" /\ Does(m, [at |-> "reading", report |-> shown, finding |-> f])
    BY <1>4 DEF Stage
  <2> DEFINE job == [at |-> "reading", report |-> shown, finding |-> f]
  <2>2. AboutNotes(f)
    BY DEF HealthInv, ReportOk
  <2>3. JobOk(job) /\ "at" \in DOMAIN job
    BY <2>1, <2>2 DEF JobOk, Steps, IsExport
  <2>4. Does(m, job)
    BY <2>1
  <2> HIDE DEF job
  <2>5. \A n \in Modals : JobOk(modals'[n].job)
    BY <1>3, <2>3, <2>4, JobsStep
  <2>6. UNCHANGED <<events, targets>>
    BY <1>4 DEF Stage
  <2> QED
    BY <1>1, <1>2, <2>5, <2>6 DEF HealthInv, LatestOk
<1>5. CASE ReadNotes(m)
  <2> DEFINE job == modals[m].job
             next(note) == [at |-> "hashing", report |-> job.report, finding |-> job.finding,
                            before |-> note, list |-> Staged]
  <2>1. AboutNotes(job.finding) /\ job.finding.kind = "missing-citation"
    BY <1>3, <1>5 DEF ReadNotes, At, JobOk
  <2>2. PICK unread \in Unread :
          LET note == IF unread = 1 THEN None
                      ELSE Listed(job.finding.path, vault[job.finding.path])
              verdict == RepairVerdict(job.finding, job.report.findings, note, Staged)
          IN  /\ events' = events + unread
              /\ Does(m, Nothing) \/ (verdict = "stages" /\ Does(m, next(note)))
    BY <1>5 DEF ReadNotes
  <2> DEFINE note == IF unread = 1 THEN None
                     ELSE Listed(job.finding.path, vault[job.finding.path])
             verdict == RepairVerdict(job.finding, job.report.findings, note, Staged)
  <2>3. verdict = "stages" => note # None
    BY DEF RepairVerdict, CanRepair
  <2>4. note # None => note \in Notes
    BY <2>1 DEF HealthInv, AboutNotes, Listed
  <2>5. /\ events' = events + unread
        /\ Does(m, Nothing) \/ (note \in Notes /\ Does(m, next(note)))
    BY <2>2, <2>3, <2>4
  <2> HIDE DEF note, verdict
  <2>6. note \in Notes => JobOk(next(note)) /\ "at" \in DOMAIN next(note)
    BY <2>1 DEF JobOk, Steps, IsExport
  <2> HIDE DEF next
  <2>7. \A n \in Modals : JobOk(modals'[n].job)
    BY <1>3, <2>5, <2>6, JobsStep, EasyJobs
  <2>8. events' \in 0 .. MaxEvents
    <3>1. unread \in {0, 1} /\ events + unread <= MaxEvents /\ events \in 0 .. MaxEvents
      BY DEF Unread, HealthInv
    <3> QED
      BY <2>5, <3>1, Bounds
  <2>9. targets' = targets
    BY <1>5 DEF ReadNotes
  <2> QED
    BY <1>1, <1>2, <2>7, <2>8, <2>9 DEF HealthInv, LatestOk
<1>6. CASE BeginBuild(m)
  <2> DEFINE job == modals[m].job
             next == [job EXCEPT !.at = "building"]
  <2>1. /\ job \in [at : {"hashing", "building"}, report : {job.report},
                    finding : {job.finding}, before : Notes, list : {job.list}]
        /\ AboutNotes(job.finding) /\ job.finding.kind = "missing-citation"
    BY <1>3, <1>6 DEF BeginBuild, At, JobOk
  <2>2. /\ next \in [at : {"hashing", "building"}, report : {next.report},
                     finding : {next.finding}, before : Notes, list : {next.list}]
        /\ next.at = "building" /\ next.finding = job.finding /\ "at" \in DOMAIN next
    BY <2>1
  <2>3. /\ targets' \subseteq targets \cup {job.finding.path}
        /\ events' = events
        /\ Does(m, Nothing) \/ Does(m, next)
    BY <1>6 DEF BeginBuild, RepairEnds
  <2> HIDE DEF next
  <2>4. JobOk(next)
    BY <2>1, <2>2 DEF JobOk, Steps, IsExport
  <2>5. \A n \in Modals : JobOk(modals'[n].job)
    BY <1>3, <2>2, <2>3, <2>4, JobsStep, EasyJobs
  <2>6. targets' \subseteq Paths
    BY <2>1, <2>3 DEF AboutNotes, HealthInv
  <2> QED
    BY <1>1, <1>2, <2>3, <2>5, <2>6 DEF HealthInv, LatestOk
<1>7. CASE RefuseBuild(m)
  <2>1. Does(m, Nothing) /\ targets' \subseteq targets /\ events' = events
    BY <1>7 DEF RefuseBuild, RepairEnds
  <2>2. \A n \in Modals : JobOk(modals'[n].job)
    BY <1>3, <2>1, JobsStep, EasyJobs
  <2> QED
    BY <1>1, <1>2, <2>1, <2>2 DEF HealthInv, LatestOk
<1> QED
  BY <1>4, <1>5, <1>6, <1>7

LEMMA EndBuildStep ==
  ASSUME HealthInv, NEW m \in Modals, EndBuild(m)
  PROVE  HealthInv'
<1>1. ExportInv'
  BY RepairInv DEF HealthInv
<1>2. ModalsOk /\ \A n \in Modals : JobOk(modals[n].job)
  BY DEF HealthInv, ExportInv
<1> DEFINE job == modals[m].job
           record == Record(job, Staged)
<1>3. /\ job.before \in Notes /\ job.finding.path \in Paths
      /\ job.finding.sources \subseteq Paths \cup Outside
  BY <1>2 DEF EndBuild, At, JobOk, AboutNotes
<1>4. Repaired(job.finding, job.before) \in Notes
  BY <1>3 DEF Repaired, Notes, Lists
<1>5. record \in RepairRecords
  BY <1>3, <1>4 DEF Record, RepairRecords, ActiveStatuses
<1>6. changes' = Append(changes, record) /\ Does(m, Nothing) /\ targets' \subseteq targets
      /\ UNCHANGED <<vault, second, events, shown, latest, files, exports>>
  BY DEF EndBuild, RepairEnds
<1> HIDE DEF record
<1>7. changes' \in Seq(RepairRecords)
  BY <1>5, <1>6 DEF HealthInv
<1>8. \A n \in Modals : JobOk(modals'[n].job)
  BY <1>2, <1>6, JobsStep, EasyJobs
<1> QED
  BY <1>1, <1>6, <1>7, <1>8 DEF HealthInv, LatestOk

LEMMA OthersStep ==
  ASSUME HealthInv, Tick \/ (\E p \in Paths : Edit(p)) \/ (\E i \in DOMAIN changes : Decide(i))
  PROVE  HealthInv'
<1>1. ExportInv'
  BY ExportInvNext DEF HealthInv, Next
<1>2. UNCHANGED <<modals, shown, latest, files, exports, targets>>
  BY DEF Tick, Edit, Decide
<1>3. CASE Tick
  <2>1. second' \in Ids /\ UNCHANGED <<vault, events, changes>>
    BY <1>3, Bounds DEF Tick, Ids, HealthInv
  <2> QED
    BY <1>1, <1>2, <2>1 DEF HealthInv, LatestOk
<1>4. ASSUME NEW p \in Paths, Edit(p)
      PROVE  HealthInv'
  <2>1. vault' \in [Paths -> Notes]
    BY <1>4, TextsAreNotes DEF Edit, HealthInv
  <2>2. events' \in 0 .. MaxEvents /\ UNCHANGED <<second, changes>>
    BY <1>4, Bounds DEF Edit, HealthInv
  <2> QED
    BY <1>1, <1>2, <2>1, <2>2 DEF HealthInv, LatestOk
<1>5. ASSUME NEW i \in DOMAIN changes, Decide(i)
      PROVE  HealthInv'
  <2> DEFINE decided == [changes[i] EXCEPT !.status = "decided"]
  <2>1. changes \in Seq(RepairRecords) /\ changes[i] \in RepairRecords
    BY DEF HealthInv
  <2>2. decided \in RepairRecords
    BY <2>1 DEF RepairRecords
  <2>3. changes' = [changes EXCEPT ![i] = decided] /\ UNCHANGED <<second, events>>
    BY <1>5 DEF Decide
  <2> HIDE DEF decided
  <2>4. changes' \in Seq(RepairRecords)
    BY <2>1, <2>2, <2>3
  <2>5. vault' \in [Paths -> Notes]
    BY <1>5, <2>1 DEF Decide, HealthInv, RepairRecords
  <2> QED
    BY <1>1, <1>2, <2>3, <2>4, <2>5 DEF HealthInv, LatestOk
<1> QED
  BY <1>3, <1>4, <1>5

LEMMA HealthStep ==
  ASSUME HealthInv, [Next]_vars
  PROVE  HealthInv'
<1>1. CASE UNCHANGED vars
  <2>1. ExportInv'
    BY ExportInvNext DEF HealthInv
  <2> QED
    BY <1>1, <2>1 DEF vars, HealthInv, LatestOk
<1>2. CASE Next
  BY <1>2, OpenStep, ScanNoteStep, ExportsStep, RepairStep, EndBuildStep, OthersStep DEF Next
<1> QED
  BY <1>1, <1>2

(* Every state is of its type.                                              *)
THEOREM TypeCorrect == Spec => []TypeOK
<1>1. HealthInv => TypeOK
  <2> SUFFICES ASSUME HealthInv
               PROVE  TypeOK
    OBVIOUS
  <2>1. \A m \in Modals : modals[m].place \in {"new", "open", "closed"}
    BY DEF HealthInv, ExportInv, ModalsOk
  <2>2. ASSUME NEW c \in Staged
        PROVE  c.path \in Paths /\ c.status \in ActiveStatuses \cup {"decided"}
    <3>1. PICK i \in DOMAIN changes : c = changes[i]
      BY DEF Staged, Range
    <3>2. c \in RepairRecords
      BY <3>1 DEF HealthInv
    <3> QED
      BY <3>2 DEF RepairRecords
  <2> QED
    BY <2>1, <2>2 DEF HealthInv, TypeOK, JobOk, ReportOk
<1> QED
  BY <1>1, HealthInit, HealthStep, PTL DEF Spec

(* What the planner calls stageable is staged as long as the note is as it  *)
(* was scanned, for any notes, edits, reports and staged changes, exactly   *)
(* if its name does not end in .MD and its sources are all paths of a       *)
(* vault: planner and service judge by the same evidence and the same       *)
(* active changes, and differ in the paths they take.                       *)
THEOREM StageableStaged == Spec => []StageableIsStaged
<1>1. HealthInv => StageableIsStaged
  BY StageableOfInvariant
<1> QED
  BY <1>1, HealthInit, HealthStep, PTL DEF Spec

=============================================================================

---------------------------- MODULE RecoverSession ----------------------------
(***************************************************************************)
(* Session recovery: the command's guard against a second run              *)
(* (agent/runtime-command-handlers.ts), the read of the hot cache record   *)
(* and the state of the plugin it is joined with (main.ts), and the        *)
(* summary made of them (agent/recover-session-service.ts).                *)
(*                                                                         *)
(* The command reads while everything else goes on: changes are staged and *)
(* decided, the vault is scanned, the record is written, edited from       *)
(* outside or lost, time passes, and the plugin is unloaded or dies.  An   *)
(* instance of the plugin is named by the number of its load; a run of an  *)
(* unloaded instance goes on and finds its state cleared.                  *)
(*                                                                         *)
(* No caller in the plugin passes filters, other support records or        *)
(* ingestion recoveries, so those are left out.  An item stands for its    *)
(* texts, paths and command.                                               *)
(***************************************************************************)
EXTENDS Ranking

CONSTANTS
    ItemLimit,         \* RECOVERY_DEFAULT_ITEM_LIMIT
    DiagnosticLimit,   \* RECOVERY_DEFAULT_DIAGNOSTIC_LIMIT
    StaleAfter,        \* RECOVERY_STALE_AFTER_MS, in ticks
    MaxStaged,         \* bound: changes ever staged
    MaxLoads,          \* bound: loads of the plugin
    MaxNow             \* bound: ticks of the clock

ASSUME LimitsHold ==
    /\ ItemLimit \in Nat \ {0} /\ DiagnosticLimit \in Nat \ {0}
    /\ {StaleAfter, MaxStaged, MaxLoads, MaxNow} \subseteq Nat

Times == 0 .. MaxNow
Loads == 1 .. MaxLoads
ChangeIds == 1 .. MaxStaged

(* The sources of evidence and the diagnostics, in the order they are      *)
(* sorted in: by name, so errors come before information and that before   *)
(* warnings.  Within the hot cache, the commands decide.                   *)
SourceRank ==
    [s \in {"health-report", "hot-cache", "operation-log", "staged-change"} |->
        CASE s = "health-report" -> 1 [] s = "hot-cache" -> 2
          [] s = "operation-log" -> 3 [] s = "staged-change" -> 4]

AboutRank ==
    [a \in {"chat-thread", "report", "record", "change"} |->
        CASE a = "chat-thread" -> 1 [] a = "report" -> 2 [] a = "record" -> 3 [] a = "change" -> 4]

SeverityRank ==
    [s \in {"error", "info", "warning"} |->
        CASE s = "error" -> 1 [] s = "info" -> 2 [] s = "warning" -> 3]

CodeRank ==
    [c \in {"body-omitted", "bounded-output", "malformed-record", "missing-record",
            "read-failed", "secret-redacted", "stale-record"} |->
        CASE c = "body-omitted" -> 1 [] c = "bounded-output" -> 2
          [] c = "malformed-record" -> 3 [] c = "missing-record" -> 4
          [] c = "read-failed" -> 5 [] c = "secret-redacted" -> 6 [] c = "stale-record" -> 7]

(* of tells apart the changes and the log entries. *)
Items ==
    [source : DOMAIN SourceRank, about : DOMAIN AboutRank, of : 0 .. MaxStaged, at : Times]

Item(source, about, of, at) == [source |-> source, about |-> about, of |-> of, at |-> at]

(* What the record says: when it was made and what it lists. *)
Captures == [at : Times, entries : SUBSET Items]

Missing == [lost |-> "missing"]
Torn == [lost |-> "torn"]              \* does not parse
Malformed == [lost |-> "malformed"]    \* parses, and is no hot cache record
Leaky == [lost |-> "leaky"]            \* the same, with a field named like a secret
Null == [lost |-> "null"]              \* parses, to null
Foreign == {Missing, Malformed, Null}

VARIABLES
    now,       \* the clock
    loads,     \* loads so far; the last one is up or down
    up,        \* the plugin is loaded
    file,      \* the hot cache record on disk
    writing,   \* the capture being written, Missing when there is none
    memory,    \* hotCacheState, Missing for null
    changes,   \* ingestionStagedChanges: [id, at, open, body]
    report,    \* when latestHealthReport was made: a set of at most one time
    log,       \* stagedReviewAuditEntries: [of, at]
    run,       \* per load: where its recovery is
    shown      \* the summary the last step showed, NoSummary when it showed none

recoveryVars == <<now, loads, up, file, writing, memory, changes, report, log, run, shown>>

plugin == <<changes, report, log>>

(***************************************************************************)
(* The summary                                                             *)
(***************************************************************************)

Diagnostic(severity, code, source, about, of) ==
    [severity |-> severity, code |-> code, source |-> source, about |-> about, of |-> of]

ItemKey(i) == <<SourceRank[i.source], AboutRank[i.about], i.of>>

(* Mutant: diagnostics sorted by code first. *)
DiagnosticKeyByCode(d) ==
    <<CodeRank[d.code], SeverityRank[d.severity], SourceRank[d.source], AboutRank[d.about], d.of>>

DiagnosticKey(d) ==
    <<SeverityRank[d.severity], CodeRank[d.code], SourceRank[d.source], AboutRank[d.about], d.of>>

FileDiagnostic(severity, code) == Diagnostic(severity, code, "hot-cache", "record", 0)

IsCapture(value) == value \in Captures

(* value is what was read or remembered, Missing when there is nothing. *)
CacheItems(value) ==
    IF IsCapture(value)
    THEN {Item("hot-cache", "record", 0, value.at)}
         \cup {[e EXCEPT !.source = "hot-cache"] : e \in value.entries}
    ELSE {}

CacheDiagnostics(value) ==
    CASE IsCapture(value) -> {}
      [] value = Missing -> {FileDiagnostic("warning", "missing-record")}
      [] value = Malformed -> {FileDiagnostic("error", "malformed-record")}
      [] value = Leaky -> {FileDiagnostic("error", "malformed-record"),
                           FileDiagnostic("warning", "secret-redacted")}

ChangeItems(list) == {Item("staged-change", "change", c.id, c.at) : c \in list}

ReportItems(times) == {Item("health-report", "report", 0, t) : t \in times}

LogItems(entries) == {Item("operation-log", "change", e.of, e.at) : e \in entries}

BodyDiagnostics(list) ==
    {Diagnostic("info", "body-omitted", "staged-change", "change", c.id) :
        c \in {c \in list : c.body}}

IsStale(i, t) == t - i.at > StaleAfter

StaleDiagnostics(items, t) ==
    {Diagnostic("warning", "stale-record", i.source, i.about, i.of) :
        i \in {i \in items : IsStale(i, t)}}

(* Mutant: items are left out without a word. *)
BoundedSilently(items) == {}

(* A warning that says items were left out.  The one that says so of       *)
(* diagnostics is appended behind the limit and cut with the rest.         *)
Bounded(items) ==
    IF Cardinality(items) > ItemLimit THEN {FileDiagnostic("warning", "bounded-output")} ELSE {}

StatusFor(items, diagnostics) ==
    IF items = {}
    THEN IF \E d \in diagnostics : d.severity = "error" THEN "invalid" ELSE "missing"
    ELSE IF \E d \in diagnostics : d.severity # "info" THEN "partial" ELSE "ready"

ActionsFor(items) ==
    {<<"review-staged-change", i.of>> :
        i \in {i \in items : i.about = "change" /\ i.source # "operation-log"}}
    \cup {<<"inspect-report", 0>> : i \in {i \in items : i.about = "report"}}
    \cup {<<"refresh-cache", 0>> : i \in {i \in items : i.source = "hot-cache"}}
    \cup {<<"retry-command", AboutRank[i.about]>> : i \in items}

(* failed says that the record could not be read; evidence is a history    *)
(* field, what the summary was made of.                                    *)
Summary(value, failed, list, times, entries, t) ==
    LET evidence == CacheItems(value) \cup ChangeItems(list)
                        \cup ReportItems(times) \cup LogItems(entries)
        items == First(ItemLimit, evidence, ItemKey)
        diagnostics ==
            First(DiagnosticLimit,
                CacheDiagnostics(value) \cup BodyDiagnostics(list)
                    \cup (IF failed THEN {FileDiagnostic("error", "read-failed")} ELSE {})
                    \cup StaleDiagnostics(evidence, t) \cup Bounded(evidence),
                DiagnosticKey)
    IN  [status |-> StatusFor(items, diagnostics), items |-> items, diagnostics |-> diagnostics,
         actions |-> ActionsFor(items), at |-> t, evidence |-> evidence,
         sound |-> ~failed /\ (IsCapture(value) \/ value = Missing)]

NoSummary ==
    [status |-> "none", items |-> {}, diagnostics |-> {}, actions |-> {}, at |-> 0,
     evidence |-> {}, sound |-> TRUE]

(***************************************************************************)
(* The command                                                             *)
(***************************************************************************)

RecoveryInit ==
    /\ now = 0
    /\ loads = 0
    /\ up = FALSE
    /\ file = Missing
    /\ writing = Missing
    /\ memory = Missing
    /\ changes = {}
    /\ report = {}
    /\ log = {}
    /\ run = [l \in Loads |-> "idle"]
    /\ shown = NoSummary

(* buildRecoveryCommandOutcome refuses a second run; the commands of an    *)
(* unloaded plugin are gone.                                               *)
Recover ==
    /\ up
    /\ run[loads] = "idle"
    /\ run' = [run EXCEPT ![loads] = "looking"]
    /\ UNCHANGED <<now, loads, up, file, writing, memory, plugin>>
    /\ shown' = NoSummary

(* What the cleanup of onunload leaves an instance that went on. *)
ListOf(l) == IF up /\ l = loads THEN changes ELSE {}
ReportOf(l) == IF up /\ l = loads THEN report ELSE {}
LogOf(l) == IF up /\ l = loads THEN log ELSE {}
MemoryOf(l) == IF up /\ l = loads THEN memory ELSE Missing

(* The read over, runRecoverSession takes everything else as it is now; a  *)
(* record that was not read is replaced by the one in memory.              *)
Show(l, read, failed) ==
    LET value == IF read = Missing THEN MemoryOf(l) ELSE read
    IN  /\ shown' = Summary(value, failed, ListOf(l), ReportOf(l), LogOf(l), now)
        /\ run' = [run EXCEPT ![l] = "idle"]
        /\ UNCHANGED <<now, loads, up, file, writing, memory, plugin>>

Exists(l) ==
    /\ run[l] = "looking"
    /\ file # Missing
    /\ run' = [run EXCEPT ![l] = "reading"]
    /\ UNCHANGED <<now, loads, up, file, writing, memory, plugin>>
    /\ shown' = NoSummary

NoRecord(l) ==
    /\ run[l] = "looking"
    /\ file = Missing
    /\ Show(l, Missing, FALSE)

(* A record that is being written may be half written. *)
OnDisk == {file} \cup (IF writing # Missing THEN {Torn} ELSE {})

(* Whether a malformed record is a leaky one is left open until it is read; *)
(* null is taken for no record at all.                                     *)
Readable ==
    (OnDisk \ {Missing, Torn, Null})
        \cup (IF file = Malformed THEN {Leaky} ELSE {})
        \cup (IF file = Null THEN {Missing} ELSE {})

Read(l) ==
    /\ run[l] = "reading"
    /\ \E content \in Readable : Show(l, content, FALSE)

(* The record is gone again, or does not parse, or the adapter fails. *)
ReadFails(l) ==
    /\ run[l] \in {"looking", "reading"}
    /\ Show(l, Missing, TRUE)

(***************************************************************************)
(* What else goes on                                                       *)
(***************************************************************************)

(* A change lands on the list; a delete of a note that is gone has no body. *)
StageChange ==
    /\ up
    /\ \E id \in ChangeIds, body \in BOOLEAN :
           /\ \A c \in changes : c.id # id
           /\ changes' = changes \cup {[id |-> id, at |-> now, open |-> TRUE, body |-> body]}
    /\ UNCHANGED <<now, loads, up, file, writing, memory, report, log, run>>
    /\ shown' = NoSummary

(* A decision of a review stays on the list and on the log. *)
Decide ==
    /\ up
    /\ \E c \in changes :
           /\ c.open
           /\ changes' = (changes \ {c}) \cup {[c EXCEPT !.open = FALSE, !.at = now]}
           /\ log' = log \cup {[of |-> c.id, at |-> now]}
    /\ UNCHANGED <<now, loads, up, file, writing, memory, report, run>>
    /\ shown' = NoSummary

Scan ==
    /\ up
    /\ report' = {now}
    /\ UNCHANGED <<now, loads, up, file, writing, memory, changes, log, run>>
    /\ shown' = NoSummary

(* capture: the thread, the changes that are open and the report. *)
CaptureNow ==
    [at |-> now,
     entries |-> {Item("hot-cache", "chat-thread", 0, now)}
         \cup {Item("hot-cache", "change", c.id, c.at) : c \in {c \in changes : c.open}}
         \cup {Item("hot-cache", "report", 0, t) : t \in report}]

BeginWrite ==
    /\ up
    /\ writing = Missing
    /\ writing' = CaptureNow
    /\ UNCHANGED <<now, loads, up, file, memory, plugin, run>>
    /\ shown' = NoSummary

EndWrite ==
    /\ writing # Missing
    /\ file' = writing
    /\ memory' = writing
    /\ writing' = Missing
    /\ UNCHANGED <<now, loads, up, plugin, run>>
    /\ shown' = NoSummary

(* A failed write leaves the old record or a torn one. *)
FailWrite ==
    /\ writing # Missing
    /\ file' \in {file, Torn}
    /\ writing' = Missing
    /\ UNCHANGED <<now, loads, up, memory, plugin, run>>
    /\ shown' = NoSummary

(* A sync, a user or an older version changes the record. *)
EditRecord ==
    /\ file' \in Foreign \ {file}
    /\ UNCHANGED <<now, loads, up, writing, memory, plugin, run>>
    /\ shown' = NoSummary

Tick ==
    /\ now < MaxNow
    /\ now' = now + 1
    /\ UNCHANGED <<loads, up, file, writing, memory, plugin, run>>
    /\ shown' = NoSummary

(* restoreHotCacheRuntime keeps a record that it can read. *)
Load ==
    /\ ~up
    /\ loads < MaxLoads
    /\ loads' = loads + 1
    /\ up' = TRUE
    /\ memory' = IF IsCapture(file) THEN file ELSE Missing
    /\ UNCHANGED <<now, file, writing, plugin, run>>
    /\ shown' = NoSummary

Cleared ==
    /\ up
    /\ up' = FALSE
    /\ changes' = {}
    /\ report' = {}
    /\ log' = {}
    /\ memory' = Missing

(* A write that outlives its plugin is left to SessionMemory. *)
Unload ==
    /\ Cleared
    /\ writing = Missing
    /\ UNCHANGED <<now, loads, file, writing, run>>
    /\ shown' = NoSummary

(* The process dies: nothing goes on, and a write may be torn. *)
Crash ==
    /\ Cleared
    /\ file' \in OnDisk
    /\ writing' = Missing
    /\ run' = [l \in Loads |-> "idle"]
    /\ UNCHANGED <<now, loads>>
    /\ shown' = NoSummary

RecoveryNext ==
    \/ Recover
    \/ \E l \in Loads : Exists(l) \/ NoRecord(l) \/ Read(l) \/ ReadFails(l)
    \/ StageChange \/ Decide \/ Scan
    \/ BeginWrite \/ EndWrite \/ FailWrite \/ EditRecord \/ Tick \/ Load \/ Unload \/ Crash

RecoverySpec == RecoveryInit /\ [][RecoveryNext]_recoveryVars

(***************************************************************************)
(* Properties                                                              *)
(***************************************************************************)

(* The state is of the kind the comments above describe. *)
RecoveryTypeOK ==
    /\ now \in Times
    /\ loads \in 0 .. MaxLoads
    /\ up \in BOOLEAN
    /\ file \in Captures \cup Foreign \cup {Torn}
    /\ writing \in Captures \cup {Missing} /\ memory \in Captures \cup {Missing}
    /\ \A c \in changes : c.id \in ChangeIds /\ c.at \in Times /\ {c.open, c.body} \subseteq BOOLEAN
    /\ report \subseteq Times /\ Cardinality(report) <= 1
    /\ log \subseteq [of : ChangeIds, at : Times]
    /\ run \in [Loads -> {"idle", "looking", "reading"}]
    /\ shown.items \subseteq shown.evidence /\ shown.evidence \subseteq Items

(* However much there is to report and however much of it is cut off, a    *)
(* summary made without the record on disk, because it could not be read   *)
(* or is none, never calls itself ready, and never says that nothing was   *)
(* there.  A record of null is as good as missing: the one in memory takes *)
(* its place without a word.                                               *)
FailuresShow == ~shown.sound => shown.status \in {"partial", "invalid"}

(* Information that fills the limit hides the warnings behind it. *)
WarningsHidden ==
    Cardinality({d \in shown.diagnostics : d.severity = "info"}) = DiagnosticLimit

(* A summary that calls itself ready leaves nothing out and shows nothing  *)
(* stale, unless so many changes have bodies to omit that the warnings are *)
(* cut off.                                                                *)
ReadyTellsTheWhole ==
    (shown.status = "ready" /\ ~WarningsHidden) =>
        /\ shown.items = shown.evidence
        /\ \A i \in shown.evidence : ~IsStale(i, shown.at)

=============================================================================

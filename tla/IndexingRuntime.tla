--------------------------- MODULE IndexingRuntime ---------------------------
(***************************************************************************)
(* The lexical index of the vault: the service that builds it              *)
(* (vectorstore/indexing-runtime-service.ts), its note-by-note reading of  *)
(* the vault (vectorstore/obsidian-index-source.ts) and the sessions that  *)
(* ask for a rebuild after they have written staged changes and wait for   *)
(* it with a timeout (main.ts).                                            *)
(*                                                                         *)
(* A note is its path and a version, the number of the write that made it. *)
(* An index is the set of notes it was built from; parsing, chunks,        *)
(* progress, messages and the semantic index are left out.  A reader is a  *)
(* call that is reading the vault: a build, or a freshness check.  Notes   *)
(* are read one at a time, in any order (the code's is that of the paths), *)
(* while the user edits, cancels, changes the settings, applies staged     *)
(* changes or unloads the plugin.                                          *)
(***************************************************************************)
EXTENDS Integers, FiniteSets

CONSTANTS
    Paths,          \* vault paths of the notes that settings let the index take
    Readers,        \* bound: calls that may be reading at the same time
    Sessions,       \* apply sessions
    None,           \* no reader, no note
    InitialVaults,  \* vaults the plugin may find when it loads
    MaxWrites       \* bound: writes to the vault, by the user or a session

ASSUME NoneIsNoReader == None \notin Readers
ASSUME MaxWritesIsNatural == MaxWrites \in Nat

Absent == -1    \* the version of a note that is not there

Vaults == [Paths -> Nat \cup {Absent}]

ASSUME InitialVaultsAreVaults == \A v \in InitialVaults : v \in Vaults

Notes == [path : Paths, version : Nat]

ASSUME NoneIsNoNote == None \notin Notes

NoIndex == {None}   \* lexicalIndex = null, unlike any set of notes

VARIABLES
    vault,      \* version of each note
    writes,     \* number of writes so far
    enabled,    \* settings.indexing.isLexicalIndexEnabled
    disposed,   \* the plugin was unloaded
    index,      \* lexicalIndex
    report,     \* lexicalReport.status
    reader,     \* the calls in progress
    inFlight,   \* inFlightLexicalJob: the build that holds the place
    refresh     \* what each session asked for and learnt

vars == <<vault, writes, enabled, disposed, index, report, reader, inFlight, refresh>>

Statuses == {"missing", "building", "ready", "stale", "canceled", "error", "disabled"}

ReaderStates ==
    [kind : {"idle", "build", "check"}, todo : SUBSET Paths, notes : SUBSET Notes,
     aborted : BOOLEAN]

NoReader == [kind |-> "idle", todo |-> {}, notes |-> {}, aborted |-> FALSE]

Refreshes ==
    [pc : {"idle", "asking", "waiting", "done"}, attempt : 1 .. 2,
     job : Readers \cup {None}, applied : SUBSET Notes, ok : BOOLEAN]

NoRefresh == [pc |-> "idle", attempt |-> 1, job |-> None, applied |-> {}, ok |-> FALSE]

(* The report, the job in flight and the sessions stay in the states that   *)
(* types/indexing-runtime.ts and refreshIndexAfterStagedApply have for them; *)
(* a session asks for an index twice at most.                               *)
TypeOK ==
    /\ vault \in Vaults
    /\ writes \in Nat
    /\ enabled \in BOOLEAN
    /\ disposed \in BOOLEAN
    /\ index \in (SUBSET Notes) \cup {NoIndex}
    /\ report \in Statuses
    /\ reader \in [Readers -> ReaderStates]
    /\ inFlight \in Readers \cup {None}
    /\ refresh \in [Sessions -> Refreshes]

Init ==
    /\ vault \in InitialVaults
    /\ writes = 0
    /\ enabled \in BOOLEAN
    /\ disposed = FALSE
    /\ index = NoIndex
    /\ report = "missing"
    /\ reader = [j \in Readers |-> NoReader]
    /\ inFlight = None
    /\ refresh = [s \in Sessions |-> NoRefresh]

Reading(j) == reader[j].kind # "idle"

Building(j) == reader[j].kind = "build"

Existing == {p \in Paths : vault[p] # Absent}

-----------------------------------------------------------------------------
(* The user *)

Edit(p) ==
    /\ writes < MaxWrites
    /\ writes' = writes + 1
    /\ \/ vault' = [vault EXCEPT ![p] = writes + 1]
       \/ p \in Existing /\ vault' = [vault EXCEPT ![p] = Absent]
    /\ UNCHANGED <<enabled, disposed, index, report, reader, inFlight, refresh>>

(* The refresh of readiness that follows leaves report and index alone. *)
SaveSettings ==
    /\ ~disposed
    /\ enabled' = ~enabled
    /\ UNCHANGED <<vault, writes, disposed, index, report, reader, inFlight, refresh>>

-----------------------------------------------------------------------------
(* reindexLexical up to its first await: one of three things happens *)

TurnOff ==
    /\ ~enabled
    /\ index' = NoIndex
    /\ report' = "disabled"
    /\ UNCHANGED <<reader, inFlight>>

AlreadyRunning ==
    /\ enabled
    /\ inFlight # None
    /\ UNCHANGED <<index, report, reader, inFlight>>

StartBuild(j) ==
    /\ enabled
    /\ inFlight = None
    /\ ~Reading(j)
    /\ inFlight' = j
    /\ reader' = [reader EXCEPT ![j] = [NoReader EXCEPT !.kind = "build", !.todo = Existing]]
    /\ report' = "building"
    /\ UNCHANGED index

(* Asked for by the settings tab or, once, at startup.  The tab keeps its   *)
(* reference to the service, so it may ask after the plugin is unloaded.    *)
ReindexLexical ==
    /\ TurnOff \/ AlreadyRunning \/ \E j \in Readers : StartBuild(j)
    /\ UNCHANGED <<vault, writes, enabled, disposed, refresh>>

RetryLexical == inFlight = None /\ ReindexLexical

(* The build itself learns of it when it next looks at its signal. *)
CancelLexical ==
    /\ inFlight # None
    /\ reader' = [reader EXCEPT ![inFlight].aborted = TRUE]
    /\ report' = "canceled"
    /\ UNCHANGED <<vault, writes, enabled, disposed, index, inFlight, refresh>>

Abort(j) == [reader EXCEPT ![j].aborted = TRUE]

Dispose ==
    /\ ~disposed
    /\ disposed' = TRUE
    /\ reader' = IF inFlight = None THEN reader ELSE Abort(inFlight)
    /\ inFlight' = None
    /\ UNCHANGED <<vault, writes, enabled, index, report, refresh>>

-----------------------------------------------------------------------------
(* readMarkdownNotes, for a build with its signal, for a check without *)

ReadNote(j, p) ==
    /\ Reading(j)
    /\ ~reader[j].aborted
    /\ p \in reader[j].todo \cap Existing
    /\ reader' = [reader EXCEPT ![j].todo = @ \ {p},
                                ![j].notes = @ \cup {[path |-> p, version |-> vault[p]]}]
    /\ UNCHANGED <<vault, writes, enabled, disposed, index, report, inFlight, refresh>>

(* A note that cannot be read, or has grown too large, is left out. *)
SkipNote(j, p) ==
    /\ Reading(j)
    /\ ~reader[j].aborted
    /\ p \in reader[j].todo
    /\ reader' = [reader EXCEPT ![j].todo = @ \ {p}]
    /\ UNCHANGED <<vault, writes, enabled, disposed, index, report, inFlight, refresh>>

-----------------------------------------------------------------------------
(* The end of a build *)

(* Sessions that wait for build j learn whether it counts as accepted. *)
Settled(j, accepted) ==
    [s \in Sessions |->
        IF refresh[s].pc = "waiting" /\ refresh[s].job = j
        THEN [NoRefresh EXCEPT !.pc = "done", !.ok = accepted]
        ELSE refresh[s]]

(* Mutant: the place is given up whoever holds it. *)
GiveUpAnyPlace(j) == inFlight' = None

(* The finally block of reindexLexical *)
GiveUpPlace(j) == inFlight' = IF inFlight = j THEN None ELSE inFlight

EndBuild(j, accepted) ==
    /\ GiveUpPlace(j)
    /\ reader' = [reader EXCEPT ![j] = NoReader]
    /\ refresh' = Settled(j, accepted)
    /\ UNCHANGED <<vault, writes, enabled, disposed>>

(* Mutant: the signal is not passed to the parsing of the notes. *)
PublishDespiteCancel(j) ==
    /\ Building(j)
    /\ reader[j].todo = {}
    /\ index' = reader[j].notes
    /\ report' = IF reader[j].notes = {} THEN "missing" ELSE "ready"
    /\ EndBuild(j, TRUE)

(* From the last note read to here the code waits only for promises that    *)
(* are settled already.  A cancellation that came in between would be       *)
(* noticed by the parsing; that subscribers are told "ready" just before    *)
(* the index is replaced is left out, as nothing else can run between.      *)
Publish(j) ==
    /\ Building(j)
    /\ ~reader[j].aborted
    /\ reader[j].todo = {}
    /\ index' = reader[j].notes
    /\ report' = IF reader[j].notes = {} THEN "missing" ELSE "ready"
    /\ EndBuild(j, TRUE)

(* Mutant: the place is kept by a build that was canceled. *)
NoticeCancelKeepingPlace(j) ==
    /\ Building(j)
    /\ reader[j].aborted
    /\ index' = NoIndex
    /\ report' = "canceled"
    /\ reader' = [reader EXCEPT ![j] = NoReader]
    /\ refresh' = Settled(j, TRUE)
    /\ UNCHANGED <<vault, writes, enabled, disposed, inFlight>>

(* A canceled build counts as accepted. *)
NoticeCancel(j) ==
    /\ Building(j)
    /\ reader[j].aborted
    /\ index' = NoIndex
    /\ report' = "canceled"
    /\ EndBuild(j, TRUE)

(* The listing, a parse or the build throws. *)
Fail(j) ==
    /\ Building(j)
    /\ ~reader[j].aborted
    /\ index' = NoIndex
    /\ report' = "error"
    /\ EndBuild(j, FALSE)

-----------------------------------------------------------------------------
(* refreshLexicalFreshness, which the plugin does not call yet *)

(* The bound on readers leaves one for the next build. *)
StartCheck(j) ==
    /\ index # NoIndex
    /\ ~Reading(j)
    /\ inFlight # None \/ \E i \in Readers \ {j} : ~Reading(i)
    /\ reader' = [reader EXCEPT ![j] = [NoReader EXCEPT !.kind = "check", !.todo = Existing]]
    /\ UNCHANGED <<vault, writes, enabled, disposed, index, report, inFlight, refresh>>

Freshness(indexed, current) ==
    IF indexed = {} THEN "missing" ELSE IF indexed = current THEN "ready" ELSE "stale"

(* Mutant: the check goes on without an index. *)
EndCheckWithoutIndex(j) ==
    /\ reader[j].kind = "check"
    /\ reader[j].todo = {}
    /\ reader' = [reader EXCEPT ![j] = NoReader]
    /\ report' = IF index = NoIndex THEN "stale" ELSE Freshness(index, reader[j].notes)
    /\ UNCHANGED <<vault, writes, enabled, disposed, index, inFlight, refresh>>

(* The index is looked at again after the await: if it is gone by then the  *)
(* call throws and leaves the report alone.                                 *)
EndCheck(j) ==
    /\ reader[j].kind = "check"
    /\ reader[j].todo = {}
    /\ reader' = [reader EXCEPT ![j] = NoReader]
    /\ report' = IF index = NoIndex THEN report ELSE Freshness(index, reader[j].notes)
    /\ UNCHANGED <<vault, writes, enabled, disposed, index, inFlight, refresh>>

-----------------------------------------------------------------------------
(* An apply session and its refresh of the index *)

(* Session s writes notes ps and wants them indexed. *)
ApplyChanges(s, ps) ==
    /\ refresh[s].pc \in {"idle", "done"}
    /\ writes < MaxWrites
    /\ writes' = writes + 1
    /\ vault' = [p \in Paths |-> IF p \in ps THEN writes + 1 ELSE vault[p]]
    /\ refresh' = [refresh EXCEPT ![s] =
                      [NoRefresh EXCEPT !.pc = "asking",
                           !.applied = {[path |-> p, version |-> writes + 1] : p \in ps}]]
    /\ UNCHANGED <<enabled, disposed, index, report, reader, inFlight>>

GiveUpRefresh(s) == refresh' = [refresh EXCEPT ![s] = [NoRefresh EXCEPT !.pc = "done"]]

WaitFor(s, j) == refresh' = [refresh EXCEPT ![s].pc = "waiting", ![s].job = j]

(* Mutant: a session waits for the build that is running, if there is one. *)
RequestRefreshOrJoin(s) ==
    /\ refresh[s].pc = "asking"
    /\ \/ ~disposed /\ TurnOff /\ GiveUpRefresh(s)
       \/ ~disposed /\ AlreadyRunning /\ WaitFor(s, inFlight)
       \/ ~disposed /\ \E j \in Readers : StartBuild(j) /\ WaitFor(s, j)
       \/ disposed /\ GiveUpRefresh(s) /\ UNCHANGED <<index, report, reader, inFlight>>
    /\ UNCHANGED <<vault, writes, enabled, disposed>>

RequestRefresh(s) ==
    /\ refresh[s].pc = "asking"
    /\ \/ ~disposed /\ (TurnOff \/ AlreadyRunning) /\ GiveUpRefresh(s)
       \/ ~disposed /\ \E j \in Readers : StartBuild(j) /\ WaitFor(s, j)
       \/ disposed /\ GiveUpRefresh(s) /\ UNCHANGED <<index, report, reader, inFlight>>
    /\ UNCHANGED <<vault, writes, enabled, disposed>>

(* Mutant: the wait has no timeout. *)
NoTimeout(s) == FALSE

(* The first timeout asks once more; the build it waited for is still       *)
(* running.                                                                 *)
RefreshTimesOut(s) ==
    /\ refresh[s].pc = "waiting"
    /\ refresh' = [refresh EXCEPT ![s] =
                      IF @.attempt = 1
                      THEN [@ EXCEPT !.pc = "asking", !.attempt = 2, !.job = None]
                      ELSE [NoRefresh EXCEPT !.pc = "done"]]
    /\ UNCHANGED <<vault, writes, enabled, disposed, index, report, reader, inFlight>>

-----------------------------------------------------------------------------
ReaderStep(j) ==
    \/ \E p \in Paths : ReadNote(j, p) \/ SkipNote(j, p)
    \/ Publish(j) \/ NoticeCancel(j) \/ Fail(j)
    \/ EndCheck(j)

SessionStep(s) == RequestRefresh(s) \/ RefreshTimesOut(s)

Next ==
    \/ \E p \in Paths : Edit(p)
    \/ SaveSettings
    \/ ReindexLexical \/ RetryLexical \/ CancelLexical \/ Dispose
    \/ \E j \in Readers : ReaderStep(j) \/ StartCheck(j)
    \/ \E s \in Sessions :
          SessionStep(s) \/ \E ps \in (SUBSET Paths) \ {{}} : ApplyChanges(s, ps)

Spec == Init /\ [][Next]_vars

(* Timers fire and callbacks run.  That the disk answers is assumed only    *)
(* where a property says so.                                                *)
TimerSpec == Spec /\ \A s \in Sessions : WF_vars(SessionStep(s))

DiskAnswers == \A j \in Readers : WF_vars(ReaderStep(j))

-----------------------------------------------------------------------------
(* Properties *)

(* At most one build that was not aborted runs at a time, also when one     *)
(* aborted by an unload is still reading (inFlightLexicalJob and the        *)
(* finally block that frees it only for its own job).                       *)
OneBuild ==
    \A i, j \in Readers :
        Building(i) /\ Building(j) /\ i # j => reader[i].aborted \/ reader[j].aborted

(* Chat searches the index whenever the report says ready: there is one     *)
(* then, whatever a check that was reading meanwhile reports.               *)
ReadyHasIndex == report \in {"ready", "stale"} => index # NoIndex

(* When nothing is reading, report and index agree: notes are indexed       *)
(* exactly when the report says ready or stale, however the last build      *)
(* ended.                                                                   *)
QuietReportAgrees ==
    (\A j \in Readers : ~Reading(j)) =>
        (report \in {"ready", "stale"} <=> index \notin {NoIndex, {}})

(* What chat and the status view are told of the index is true, while        *)
(* something reads the vault and when nothing does.                          *)
ReportAgrees == ReadyHasIndex /\ QuietReportAgrees

(* Once a cancellation was accepted no build marks the index ready before   *)
(* another one has been started (a freshness check may).                    *)
CanceledStaysCanceled ==
    [][~disposed /\ report = "canceled" /\ report' = "ready" =>
          \E j \in Readers : reader[j].kind = "check" /\ reader'[j].kind = "idle"]_vars

(* A session told that its refresh is done is never left with an index that *)
(* holds a note older than what it applied.                                 *)
RefreshIsNotOlder ==
    [][\A s \in Sessions :
         /\ refresh[s].pc = "waiting" /\ refresh'[s].pc = "done"
         /\ refresh'[s].ok /\ index' # NoIndex
         => \A a \in refresh[s].applied, n \in index' :
               n.path = a.path => n.version >= a.version]_vars

(* A session's refresh ends even if the disk never answers: the timeouts of *)
(* refreshIndexAfterStagedApply suffice.                                    *)
RefreshEnds == \A s \in Sessions : refresh[s].pc = "asking" ~> refresh[s].pc = "done"

(* If the disk answers, the place of a build is free again some time, so a  *)
(* reindex is not refused for ever.                                         *)
PlaceIsFreed == DiskAnswers => (inFlight # None ~> inFlight = None)

-----------------------------------------------------------------------------
(* The inductive invariant: why the properties hold *)

(* inFlightLexicalJob is a build that has not ended, so a reindex is never  *)
(* refused for the sake of one that has.                                    *)
PlaceIsBuild == inFlight # None => Building(inFlight)

(* A build without the place was thrown out by an unload, and knows it.     *)
BuildHoldsPlace ==
    \A j \in Readers :
        Building(j) /\ inFlight # j => disposed /\ reader[j].aborted

(* Report and index may differ only for as long as a build goes on, which   *)
(* will set both.                                                           *)
BuildWillSettle ==
    (\A j \in Readers : ~Building(j)) =>
        (report \in {"ready", "stale"} <=> index \notin {NoIndex, {}})

(* While the plugin is loaded, a build that goes on after a cancellation    *)
(* was accepted has been told.                                              *)
CancelReaches ==
    ~disposed /\ report = "canceled" =>
        \A j \in Readers : Building(j) => reader[j].aborted

(* A session waits for a build, which has read no note from before the      *)
(* session's writes; nor will it, as the vault has none of them any more.   *)
ReadsNew(s) ==
    /\ refresh[s].pc \in {"asking", "waiting"} =>
          \A a \in refresh[s].applied :
             a.version <= writes /\ vault[a.path] \in {Absent} \cup (a.version .. writes)
    /\ refresh[s].pc = "waiting" =>
          /\ refresh[s].job # None
          /\ Building(refresh[s].job)
          /\ \A a \in refresh[s].applied, n \in reader[refresh[s].job].notes :
                n.path = a.path => n.version >= a.version

SessionsReadNew == \A s \in Sessions : ReadsNew(s)

PlaceInv ==
    PlaceIsBuild /\ BuildHoldsPlace /\ ReadyHasIndex /\ BuildWillSettle /\ CancelReaches

IndexInv == TypeOK /\ PlaceInv /\ SessionsReadNew

-----------------------------------------------------------------------------
(* What the documentation says and the code does not do *)

(* "Refresh failure is reported as retryable recovery context"              *)
(* (docs/staged-change-review-apply.md:47): a refresh reported as done has  *)
(* produced an index.                                                       *)
RefreshFailureReported ==
    [][\A s \in Sessions :
         refresh[s].pc = "waiting" /\ refresh'[s].pc = "done" /\ refresh'[s].ok
            => index' # NoIndex]_vars

(* "When paths or fingerprints change, the index is stale"                  *)
(* (docs/indexing-retrieval-foundation.md:37).                              *)
ReadyIndexIsCurrent ==
    report = "ready" => \A n \in index : vault[n.path] = n.version

=============================================================================

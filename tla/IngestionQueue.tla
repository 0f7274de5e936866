---------------------------- MODULE IngestionQueue ----------------------------
(***************************************************************************)
(* The batch queue of source ingestion: runs of the queue service          *)
(* (agent/source-ingestion-queue-service.ts), the staging of each item by  *)
(* the staging service with its provider attempts, abort signals and       *)
(* in-flight contents (agent/source-ingestion-staging-service.ts), the     *)
(* store the modal shows (stores/ingestion-queue-store.ts) and the list of *)
(* staged changes a run adds to when it ends (main.ts).                    *)
(*                                                                         *)
(* A source stands for its path; ContentOf and TargetsOf give its content  *)
(* hash and the notes it becomes.  An item is a position in the batch of a *)
(* run.  The workers of a run are counted, not named: one that is busy is  *)
(* the item it holds.  Rendering, citations, time stamps and messages are  *)
(* left out.                                                               *)
(***************************************************************************)
EXTENDS Integers, Sequences, FiniteSets, FiniteSetsExt

CONSTANTS
    Runs,          \* bound: calls of runQueue
    QueueIds,      \* queue ids, made of the second in which a run starts
    Sources,       \* source paths
    Contents,      \* content hashes
    Targets,       \* paths of the notes that sources become
    ContentOf,     \* the content hash of each source
    TargetsOf,     \* the notes each source becomes
    Asking,        \* sources whose plan asks for a provider
    Batches,       \* batches the user may submit, sequences of sources
    Shared,        \* bound: targets that other flows stage or the user decides
    Concurrency,   \* workers of a run
    MaxAttempts,   \* maxProviderAttempts
    HasExtractor,  \* a provider extractor is configured
    MaxFaults,     \* bound: calls that throw
    None           \* no run, no target, no queue id

ASSUME NoneIsNothing == None \notin Runs \cup Targets \cup QueueIds
ASSUME SourcesHaveContent == ContentOf \in [Sources -> Contents]
ASSUME SourcesHaveTargets == TargetsOf \in [Sources -> (SUBSET Targets) \ {{}}]
ASSUME BatchesOfSources == Batches \subseteq Seq(Sources) \ {<<>>}
ASSUME SharedAreTargets == Shared \subseteq Targets
ASSUME ConcurrencyInRange == Concurrency \in 1 .. 4
ASSUME AttemptsPositive == MaxAttempts \in Nat \ {0}
ASSUME MaxFaultsIsNatural == MaxFaults \in Nat
ASSUME HasExtractorIsBoolean == HasExtractor \in BOOLEAN

Positions == UNION {DOMAIN b : b \in Batches}

VARIABLES
    run,        \* the locals of each runQueue
    item,       \* the summary and the staging of each item
    active,     \* activeQueues: the run that holds each queue id
    inFlight,   \* inFlightFingerprints
    listed,     \* paths with an active change on the list in main.ts
    allowed,    \* the provider preflight allows, as settings are now
    store,      \* status of the store, and the run and status of its summary
    asked,      \* history: runs the user asked to cancel
    disposed,   \* the plugin was unloaded
    faults      \* calls that threw so far

vars == <<run, item, active, inFlight, listed, allowed, store, asked, disposed, faults>>

Phases == {"idle", "preparing", "running", "done", "refused", "rejected"}

RunStates ==
    [phase : Phases, batch : Batches \cup {<<>>}, id : QueueIds \cup {None},
     snapshot : SUBSET Targets, pending : SUBSET Positions, live : 0 .. 4,
     canceled : BOOLEAN, gathered : SUBSET Targets]

NoRun ==
    [phase |-> "idle", batch |-> <<>>, id |-> None, snapshot |-> {}, pending |-> {},
     live |-> 0, canceled |-> FALSE, gathered |-> {}]

ItemStatuses == {"none", "queued", "running", "staged", "failed", "canceled", "skipped"}

(* stage is "none" unless a worker holds the item. *)
ItemStates ==
    [status : ItemStatuses, stage : {"none", "preview", "provider", "backoff", "artifact"},
     aborted : BOOLEAN, calls : 0 .. MaxAttempts,
     decision : {"none", "allowed", "denied", "failed"},
     known : SUBSET Targets, todo : SUBSET Targets, current : Targets \cup {None}]

NoItem ==
    [status |-> "none", stage |-> "none", aborted |-> FALSE, calls |-> 0,
     decision |-> "none", known |-> {}, todo |-> {}, current |-> None]

QueueStatuses == {"idle", "running", "canceling", "completed", "failed", "canceled"}

Shows == [status : QueueStatuses, shown : Runs \cup {None}, summary : QueueStatuses]

ShowNothing == [status |-> "idle", shown |-> None, summary |-> "idle"]

(* Runs, items and the store stay in the states the queue has for them, and *)
(* no item is tried more often than maxProviderAttempts.                    *)
TypeOK ==
    /\ run \in [Runs -> RunStates]
    /\ item \in [Runs -> [Positions -> ItemStates]]
    /\ active \in [QueueIds -> Runs \cup {None}]
    /\ inFlight \subseteq Contents
    /\ listed \subseteq Targets
    /\ allowed \in BOOLEAN
    /\ store \in Shows
    /\ asked \subseteq Runs
    /\ disposed \in BOOLEAN
    /\ faults \in 0 .. MaxFaults

Init ==
    /\ run = [r \in Runs |-> NoRun]
    /\ item = [r \in Runs |-> [i \in Positions |-> NoItem]]
    /\ active = [q \in QueueIds |-> None]
    /\ inFlight = {}
    /\ listed = {}
    /\ allowed = TRUE
    /\ store = ShowNothing
    /\ asked = {}
    /\ disposed = FALSE
    /\ faults = 0

SourceAt(r, i) == run[r].batch[i]

(* Items held by a worker; those with a controller in the code. *)
Held(r) == {i \in Positions : item[r][i].stage # "none"}

(* withInFlight: targets for which a change is being built. *)
Building == {item[r][i].current : r \in Runs, i \in Positions} \ {None}

-----------------------------------------------------------------------------
(* What the store shows *)

(* statusFromCounts *)
QueueStatus(items, canceled) ==
    LET has(s) == \E i \in Positions : items[i].status = s
    IN  IF has("queued") \/ has("running") THEN IF canceled THEN "canceling" ELSE "running"
        ELSE IF has("failed") THEN "failed"
        ELSE IF has("canceled") THEN "canceled"
        ELSE "completed"

Show(r, status) == store' = [status |-> status, shown |-> r, summary |-> status]

(* emit, after the item has changed *)
Emit(r) == Show(r, QueueStatus(item'[r], run'[r].canceled))

-----------------------------------------------------------------------------
(* runQueue up to its workers *)

(* The modal tells its store that a run begins and calls runQueue.          *)
StartRun(r, b, q) ==
    /\ run[r].phase = "idle"
    /\ active[q] = None
    /\ run' = [run EXCEPT ![r] = [NoRun EXCEPT !.phase = "preparing", !.batch = b,
                                               !.id = q, !.snapshot = listed]]
    /\ active' = [active EXCEPT ![q] = r]
    /\ store' = [store EXCEPT !.status = "running"]
    /\ UNCHANGED <<item, inFlight, listed, allowed, asked, disposed, faults>>

(* Mutant: the early return is inside the try, whose finally block frees    *)
(* the queue id.                                                            *)
RefuseRunFreeingId(r, q) ==
    /\ run[r].phase = "idle"
    /\ active[q] # None
    /\ run' = [run EXCEPT ![r].phase = "refused", ![r].id = q]
    /\ active' = [active EXCEPT ![q] = None]
    /\ Show(r, "failed")
    /\ UNCHANGED <<item, inFlight, listed, allowed, asked, disposed, faults>>

(* A run with the same id, one started in the same second, is under way.    *)
RefuseRun(r, q) ==
    /\ run[r].phase = "idle"
    /\ active[q] # None
    /\ run' = [run EXCEPT ![r].phase = "refused", ![r].id = q]
    /\ Show(r, "failed")
    /\ UNCHANGED <<item, active, inFlight, listed, allowed, asked, disposed, faults>>

Unprepared(r) == {i \in DOMAIN run[r].batch : item[r][i].status = "none"}

(* Earlier items of the batch that were no duplicates; one that was denied  *)
(* a provider still counts.                                                 *)
Seen(r) ==
    {i \in DOMAIN run[r].batch :
        item[r][i].status = "queued" \/ item[r][i].decision = "denied"}

(* Mutant: target paths are not compared. *)
SameSourceInQueue(r, i) ==
    \E j \in Seen(r) :
        \/ SourceAt(r, j) = SourceAt(r, i)
        \/ ContentOf[SourceAt(r, j)] = ContentOf[SourceAt(r, i)]

(* queueDuplicateIssue *)
QueueDuplicate(r, i) ==
    \E j \in Seen(r) :
        \/ SourceAt(r, j) = SourceAt(r, i)
        \/ ContentOf[SourceAt(r, j)] = ContentOf[SourceAt(r, i)]
        \/ TargetsOf[SourceAt(r, j)] \cap TargetsOf[SourceAt(r, i)] # {}

(* An active change on the list as it was when the preview was asked for. *)
AlreadyListed(r, i) == TargetsOf[SourceAt(r, i)] \cap run[r].snapshot # {}

Asks(r, i) == SourceAt(r, i) \in Asking

Becomes(r, i, status, decision) ==
    item' = [item EXCEPT ![r][i] = [NoItem EXCEPT !.status = status, !.decision = decision]]

(* One round of the loop in prepareItems, after its preview was awaited:    *)
(* the input may be invalid, a duplicate, denied a provider, or accepted.   *)
(* The next round copies the list before it waits.                          *)
PrepareItem(r) ==
    /\ run[r].phase = "preparing"
    /\ Unprepared(r) # {}
    /\ LET i == Min(Unprepared(r))
           duplicate == AlreadyListed(r, i) \/ QueueDuplicate(r, i)
       IN  \/ Becomes(r, i, "failed", "none")
           \/ duplicate /\ Becomes(r, i, "skipped", "none")
           \/ ~duplicate /\ Asks(r, i) /\ ~allowed /\ Becomes(r, i, "failed", "denied")
           \/ /\ ~duplicate
              /\ Asks(r, i) => allowed
              /\ item' = [item EXCEPT ![r][i] =
                             [NoItem EXCEPT !.status = "queued", !.known = run[r].snapshot,
                                            !.decision = IF Asks(r, i) THEN "allowed" ELSE "none"]]
    /\ run' = [run EXCEPT ![r].snapshot = listed]
    /\ UNCHANGED <<active, inFlight, listed, allowed, store, asked, disposed, faults>>

StartWorkers(r) ==
    /\ run[r].phase = "preparing"
    /\ Unprepared(r) = {}
    /\ LET runnable == {i \in Positions : item[r][i].status = "queued"}
       IN  run' = [run EXCEPT ![r].phase = "running", ![r].snapshot = {},
                              ![r].pending = runnable,
                              ![r].live = Min({Concurrency, Cardinality(runnable)})]
    /\ UNCHANGED <<item, active, inFlight, listed, allowed, asked, disposed, faults>>
    /\ Emit(r)

-----------------------------------------------------------------------------
(* The end of an item, in staging and in runItem *)

(* Mutant: what was staged before a failure is kept. *)
GainsPartly(r, i, x, status) == TargetsOf[SourceAt(r, i)] \ x.todo

(* The changes of an item join those of its run when all are staged. *)
Gains(r, i, x, status) == IF status = "staged" THEN TargetsOf[SourceAt(r, i)] ELSE {}

EndItem(r, i, x, status) ==
    /\ item' = [item EXCEPT ![r][i] =
                   [x EXCEPT !.status = status, !.stage = "none", !.aborted = FALSE,
                             !.known = {}, !.todo = {}, !.current = None]]
    /\ run' = [run EXCEPT ![r].gathered = @ \cup Gains(r, i, x, status)]
    /\ Emit(r)

(* A failure of an aborted item counts as a cancellation. *)
Failure(x) == IF x.aborted THEN "canceled" ELSE "failed"

Claim(r, i) == inFlight' = inFlight \cup {ContentOf[SourceAt(r, i)]}

Release(r, i) == inFlight' = inFlight \ {ContentOf[SourceAt(r, i)]}

Finish(r, i, x, status) == EndItem(r, i, x, status) /\ Release(r, i)

-----------------------------------------------------------------------------
(* runItem and stageSource *)

CanPick(r) == run[r].pending # {} /\ Cardinality(Held(r)) < run[r].live

Pick(r) == run' = [run EXCEPT ![r].pending = @ \ {Min(@)}]

(* Any worker takes the next item, with a copy of the list as it is now.    *)
StartItem(r) ==
    /\ CanPick(r)
    /\ ~run[r].canceled
    /\ Pick(r)
    /\ LET i == Min(run[r].pending)
       IN  item' = [item EXCEPT ![r][i] =
                       [item[r][i] EXCEPT !.status = "running", !.stage = "preview",
                                          !.known = @ \cup listed \cup run[r].gathered]]
    /\ Emit(r)
    /\ UNCHANGED <<active, inFlight, listed, allowed, asked, disposed, faults>>

CancelUnstarted(r) ==
    /\ CanPick(r)
    /\ run[r].canceled
    /\ Pick(r)
    /\ item' = [item EXCEPT ![r][Min(run[r].pending)].status = "canceled"]
    /\ Emit(r)
    /\ UNCHANGED <<active, inFlight, listed, allowed, asked, disposed, faults>>

CanStage(r, i) ==
    /\ ~item[r][i].aborted
    /\ TargetsOf[SourceAt(r, i)] \cap item[r][i].known = {}
    /\ ContentOf[SourceAt(r, i)] \notin inFlight

(* Mutant: the check of the content in flight is inside the try, whose      *)
(* finally block releases it.                                               *)
RefuseSourceReleasing(r, i) ==
    /\ item[r][i].stage = "preview"
    /\ ~CanStage(r, i)
    /\ Finish(r, i, [item[r][i] EXCEPT !.decision = "none"], Failure(item[r][i]))
    /\ UNCHANGED <<active, listed, allowed, asked, disposed, faults>>

(* Canceled, a duplicate of the list, or its content is being staged.       *)
RefuseSource(r, i) ==
    /\ item[r][i].stage = "preview"
    /\ ~CanStage(r, i)
    /\ EndItem(r, i, [item[r][i] EXCEPT !.decision = "none"], Failure(item[r][i]))
    /\ UNCHANGED <<active, inFlight, listed, allowed, asked, disposed, faults>>

(* The loop over the artifacts from its head, in any order: all are staged, *)
(* the item was canceled, or the next one is taken, which fails if a change *)
(* of its target is being built.                                            *)
NextArtifact(r, i, x) ==
    \/ x.todo = {} /\ Finish(r, i, x, "staged")
    \/ x.todo # {} /\ x.aborted /\ Finish(r, i, x, "canceled")
    \/ ~x.aborted /\ x.todo \cap Building # {} /\ Finish(r, i, x, "failed")
    \/ /\ ~x.aborted
       /\ \E t \in x.todo \ Building :
             item' = [item EXCEPT ![r][i] = [x EXCEPT !.stage = "artifact", !.current = t,
                                                      !.todo = @ \ {t}]]
       /\ Claim(r, i)
       /\ UNCHANGED <<run, store>>

(* After the extraction: canceled, or its citations are invalid, or on to   *)
(* the artifacts.                                                           *)
Render(r, i, x) ==
    \/ Finish(r, i, x, Failure(x))
    \/ ~x.aborted /\ NextArtifact(r, i, x)

Call(r, i, x) ==
    /\ item' = [item EXCEPT ![r][i] = [x EXCEPT !.stage = "provider", !.calls = @ + 1]]
    /\ Claim(r, i)
    /\ UNCHANGED <<run, store>>

(* The preview was good: stageSource to the first await that follows.  The  *)
(* settings are asked again; without a provider the extraction is local.    *)
StageSource(r, i) ==
    /\ item[r][i].stage = "preview"
    /\ CanStage(r, i)
    /\ LET x == [item[r][i] EXCEPT !.todo = TargetsOf[SourceAt(r, i)], !.known = {}]
       IN  \/ ~Asks(r, i) /\ Render(r, i, x)
           \/ Asks(r, i) /\ ~allowed /\ Render(r, i, [x EXCEPT !.decision = "denied"])
           \/ Asks(r, i) /\ allowed /\ ~HasExtractor /\ Render(r, i, [x EXCEPT !.decision = "failed"])
           \/ Asks(r, i) /\ allowed /\ HasExtractor /\ Call(r, i, x)
    /\ UNCHANGED <<active, listed, allowed, asked, disposed, faults>>

-----------------------------------------------------------------------------
(* resolveProviderExtraction and the artifacts *)

ProviderAnswers(r, i) ==
    /\ item[r][i].stage = "provider"
    /\ ~item[r][i].aborted
    /\ Render(r, i, [item[r][i] EXCEPT !.decision = "allowed"])
    /\ UNCHANGED <<active, listed, allowed, asked, disposed, faults>>

(* Mutant: an attempt has no timeout. *)
AttemptNeverFails(r, i) == FALSE

(* The extractor throws or its time is up: wait and try again, or go on     *)
(* with the local extraction.                                               *)
AttemptFails(r, i) ==
    /\ item[r][i].stage = "provider"
    /\ ~item[r][i].aborted
    /\ \/ /\ item[r][i].calls < MaxAttempts
          /\ item' = [item EXCEPT ![r][i].stage = "backoff"]
          /\ UNCHANGED <<run, inFlight, store>>
       \/ /\ item[r][i].calls = MaxAttempts
          /\ Render(r, i, [item[r][i] EXCEPT !.decision = "failed"])
    /\ UNCHANGED <<active, listed, allowed, asked, disposed, faults>>

NoticeAbort(r, i) ==
    /\ item[r][i].stage = "provider"
    /\ item[r][i].aborted
    /\ Render(r, i, [item[r][i] EXCEPT !.decision = "failed"])
    /\ UNCHANGED <<active, listed, allowed, asked, disposed, faults>>

(* Mutant: the signal is not looked at before an attempt. *)
RetryDespiteAbort(r, i) ==
    /\ item[r][i].stage = "backoff"
    /\ Call(r, i, item[r][i])
    /\ UNCHANGED <<active, listed, allowed, asked, disposed, faults>>

(* The backoff itself does not hear the signal. *)
RetryProvider(r, i) ==
    /\ item[r][i].stage = "backoff"
    /\ \/ ~item[r][i].aborted /\ Call(r, i, item[r][i])
       \/ item[r][i].aborted /\ Render(r, i, [item[r][i] EXCEPT !.decision = "failed"])
    /\ UNCHANGED <<active, listed, allowed, asked, disposed, faults>>

CompleteArtifact(r, i) ==
    /\ item[r][i].stage = "artifact"
    /\ NextArtifact(r, i, [item[r][i] EXCEPT !.current = None])
    /\ UNCHANGED <<active, listed, allowed, asked, disposed, faults>>

(* It does not validate or has a conflict: the whole source is given up.    *)
ArtifactFails(r, i) ==
    /\ item[r][i].stage = "artifact"
    /\ Finish(r, i, item[r][i], Failure(item[r][i]))
    /\ UNCHANGED <<active, listed, allowed, asked, disposed, faults>>

-----------------------------------------------------------------------------
(* The end of a run *)

Aborted(items, rs) ==
    [r \in Runs |-> [i \in Positions |->
        [items[r][i] EXCEPT !.aborted = @ \/ (r \in rs /\ items[r][i].stage # "none")]]]

(* The finally block of runQueue frees the id whichever run holds it.       *)
FreeId(q) == active' = [active EXCEPT ![q] = None]

(* Everyone is done: what the run staged is listed, and reported.           *)
EndRun(r) ==
    /\ run[r].phase = "running"
    /\ run[r].pending = {}
    /\ Held(r) = {}
    /\ run' = [run EXCEPT ![r].phase = "done"]
    /\ item' = Aborted(item, {active[run[r].id]})
    /\ FreeId(run[r].id)
    /\ listed' = listed \cup run[r].gathered
    /\ Show(r, QueueStatus(item[r], FALSE))
    /\ UNCHANGED <<inFlight, allowed, asked, disposed, faults>>

Throw == faults < MaxFaults /\ faults' = faults + 1

(* The modal catches what runQueue throws and tells its store. *)
PreparationThrows(r) ==
    /\ run[r].phase = "preparing"
    /\ Unprepared(r) # {}
    /\ Throw
    /\ run' = [run EXCEPT ![r].phase = "rejected"]
    /\ item' = Aborted(item, {active[run[r].id]})
    /\ FreeId(run[r].id)
    /\ store' = [store EXCEPT !.status = "failed"]
    /\ UNCHANGED <<inFlight, listed, allowed, asked, disposed>>

(* stageSource throws.  Its worker is gone and its item stays running; the  *)
(* first time Promise.all rejects, the run is over for its caller, and the  *)
(* other workers go on.                                                     *)
ItemThrows(r, i) ==
    LET thrown == [NoItem EXCEPT !.status = "running", !.calls = item[r][i].calls,
                                 !.decision = item[r][i].decision]
        items == [item EXCEPT ![r][i] = thrown]
        status == QueueStatus(items[r], run[r].canceled)
    IN  /\ item[r][i].stage # "none"
        /\ Throw
        /\ IF item[r][i].stage = "preview" THEN UNCHANGED inFlight ELSE Release(r, i)
        /\ \/ /\ run[r].phase = "running"
              /\ run' = [run EXCEPT ![r].phase = "rejected", ![r].live = @ - 1]
              /\ item' = Aborted(items, {active[run[r].id]})
              /\ FreeId(run[r].id)
              /\ store' = [status |-> "failed", shown |-> r, summary |-> status]
           \/ /\ run[r].phase = "rejected"
              /\ run' = [run EXCEPT ![r].live = @ - 1]
              /\ item' = items
              /\ Show(r, status)
              /\ UNCHANGED active
        /\ UNCHANGED <<listed, allowed, asked, disposed>>

-----------------------------------------------------------------------------
(* cancelQueue and dispose *)

(* Held items are aborted; queued ones are canceled, unless the run is      *)
(* still being prepared: then its workers will find out.                    *)
CancelRuns(rs) ==
    /\ run' = [r \in Runs |-> [run[r] EXCEPT !.canceled = @ \/ r \in rs]]
    /\ item' = [r \in Runs |-> [i \in Positions |->
                   IF r \in rs /\ run[r].phase = "running" /\ item[r][i].status = "queued"
                   THEN [item[r][i] EXCEPT !.status = "canceled"]
                   ELSE Aborted(item, rs)[r][i]]]

(* Mutant: the button is never disabled while a summary is shown. *)
CancelAlwaysOffered == store.shown # None /\ run[store.shown].id # None

CancelOffered == store.summary \in {"running", "canceling"}

(* The button of the modal: the store is told first, then the queue whose   *)
(* summary is shown is canceled, if it is still active.                     *)
ClickCancel ==
    /\ CancelOffered
    /\ asked' = asked \cup {store.shown}
    /\ LET holder == active[run[store.shown].id]
       IN  /\ CancelRuns({holder} \ {None})
           /\ IF holder # None /\ run[holder].phase = "running"
              THEN Emit(holder)
              ELSE store' = [store EXCEPT !.status = "canceling"]
    /\ UNCHANGED <<active, inFlight, listed, allowed, disposed, faults>>

(* The unload of the plugin, which also clears the list and the store.      *)
Dispose ==
    /\ ~disposed
    /\ disposed' = TRUE
    /\ CancelRuns({active[q] : q \in QueueIds} \ {None})
    /\ active' = [q \in QueueIds |-> None]
    /\ listed' = {}
    /\ store' = ShowNothing
    /\ UNCHANGED <<inFlight, allowed, asked, faults>>

-----------------------------------------------------------------------------
(* The world around *)

SaveSettings ==
    /\ allowed' = ~allowed
    /\ UNCHANGED <<run, item, active, inFlight, listed, store, asked, disposed, faults>>

(* Another flow stages a change, or the user decides on one. *)
OthersChange(t) ==
    /\ listed' \in {listed \cup {t}, listed \ {t}}
    /\ UNCHANGED <<run, item, active, inFlight, allowed, store, asked, disposed, faults>>

-----------------------------------------------------------------------------
RunStep(r) ==
    PrepareItem(r) \/ StartWorkers(r) \/ StartItem(r) \/ CancelUnstarted(r) \/ EndRun(r)

ItemStep(r, i) ==
    \/ StageSource(r, i) \/ RefuseSource(r, i)
    \/ AttemptFails(r, i) \/ NoticeAbort(r, i) \/ RetryProvider(r, i)
    \/ CompleteArtifact(r, i) \/ ArtifactFails(r, i)

Next ==
    \/ \E r \in Runs, q \in QueueIds : RefuseRun(r, q) \/ \E b \in Batches : StartRun(r, b, q)
    \/ \E r \in Runs : RunStep(r) \/ PreparationThrows(r)
    \/ \E r \in Runs, i \in Positions :
          ItemStep(r, i) \/ ProviderAnswers(r, i) \/ ItemThrows(r, i)
    \/ ClickCancel \/ Dispose \/ SaveSettings
    \/ \E t \in Shared : OthersChange(t)

Spec == Init /\ [][Next]_vars

(* Local work is done and timers fire; a provider need not answer. *)
FairSpec ==
    /\ Spec
    /\ \A r \in Runs : WF_vars(RunStep(r))
    /\ \A r \in Runs, i \in Positions : WF_vars(ItemStep(r, i))

-----------------------------------------------------------------------------
(* Properties *)

Contract ==
    INSTANCE IngestionContract WITH
        batch <- [r \in Runs |-> run[r].batch],
        outcome <- [r \in Runs |-> [i \in Positions |->
                       IF item[r][i].status \in {"none", "queued", "running"}
                       THEN "open" ELSE item[r][i].status]],
        verdict <- [r \in Runs |->
                       CASE run[r].phase \in {"idle", "preparing", "running"} -> "open"
                         [] run[r].phase = "done" -> "published"
                         [] run[r].phase \in {"refused", "rejected"} -> "givenUp"]

(* What the documentation says of a batch: the outcome of an item is final, *)
(* and the changes of exactly its staged items reach the list, when all are *)
(* decided (runQueue, cancelQueue and the caller in main.ts).               *)
KeepsContract == Contract!Spec

(* After a cancellation no further item of the run is started and no        *)
(* further call to a provider is made for it, also when it arrived during   *)
(* the preparation or a backoff (the checks of cancelRequested and of the   *)
(* parent signal).                                                          *)
NothingStartsAfterCancel ==
    [][\A r \in Runs, i \in Positions :
          run[r].canceled =>
              /\ item'[r][i].calls = item[r][i].calls
              /\ item'[r][i].stage # "none" => item[r][i].stage # "none"]_vars

(* The items of a run never compete for a note: what is queued, running or  *)
(* staged has targets and contents of its own (queueDuplicateIssue), so no  *)
(* two workers stage the same path and the list gains no path twice.        *)
ItemsDoNotCompete ==
    \A r \in Runs, i, j \in Positions :
        /\ i # j
        /\ {item[r][i].status, item[r][j].status} \subseteq {"queued", "running", "staged"}
        => /\ TargetsOf[SourceAt(r, i)] \cap TargetsOf[SourceAt(r, j)] = {}
           /\ ContentOf[SourceAt(r, i)] # ContentOf[SourceAt(r, j)]

(* A content is in flight exactly while one item is staging it: a failure,  *)
(* a cancellation or a refusal of another item with the same content        *)
(* neither keeps it claimed for ever nor releases it too early.             *)
FingerprintsHeld ==
    LET staging == {x \in Runs \X Positions :
                       item[x[1]][x[2]].stage \in {"provider", "backoff", "artifact"}}
    IN  /\ inFlight = {ContentOf[SourceAt(x[1], x[2])] : x \in staging}
        /\ Cardinality(inFlight) = Cardinality(staging)

(* Until the plugin is unloaded a run that goes on can be canceled: its id  *)
(* leads to it, whatever other runs with that id were refused or have ended.*)
RunIsCancelable ==
    ~disposed =>
        \A r \in Runs : run[r].phase \in {"preparing", "running"} => active[run[r].id] = r

(* When no run goes on the store does not say that one does, unless a call  *)
(* threw: cancellations that come late, runs that end in any order.         *)
QuietStoreSettled ==
    /\ faults = 0
    /\ \A r \in Runs : run[r].phase \notin {"preparing", "running"}
    => {store.status, store.summary} \cap {"running", "canceling"} = {}

(* A run ends, also if the provider never answers (the timeout of each      *)
(* attempt and maxProviderAttempts).                                        *)
RunEnds ==
    \A r \in Runs :
        run[r].phase = "preparing" ~> run[r].phase \in {"done", "rejected"}

-----------------------------------------------------------------------------
(* What the documentation says and the code does not do *)

(* "Cancellation stops queued work"                                         *)
(* (docs/batch-source-ingestion-queue.md:17): no item of a run is started   *)
(* after the user asked to cancel it.                                       *)
CancelStopsQueuedWork ==
    [][\A r \in asked, i \in Positions :
          item'[r][i].stage # "none" => item[r][i].stage # "none"]_vars

=============================================================================

# Voidbrain in TLA+

TLA+ models of Voidbrain, an Obsidian plugin that answers questions about a vault of
notes and proposes changes to it: how proposed changes are staged, reviewed and
written, how the lexical index is rebuilt meanwhile, how batches of sources are
ingested, how the chat thread survives in the hot cache, how providers are set up,
tested, trusted and called, how the vault is scanned and repaired, how a session is
recovered and similar notes are suggested, and how the plugin is deployed. TLC checks
the models on small instances; every safety property the runs check is also proved
with TLAPS, for every value of the constants. Paths below are relative to the
repository, its plugin code being `src/`.

## The system

The plugin runs in one JavaScript thread. It proposes changes to notes, never
writes them itself, keeps the proposals in a list in memory, and writes them when
the user has reviewed them in a modal. Everything that touches the disk is an
`await`, and between two awaits any other callback may run: another command, the
same modal reopened, an edit of the user in the editor, the unload of the plugin.
That is where its hard behaviour lies.

| Part (source) | State it keeps | Operations | Talks to |
|---|---|---|---|
| Staged-change service (`agent/staged-change-service.ts`) | none but in-flight targets | build a proposal: conflicts, duplicate check, id | called by every staging flow |
| Review service (`agent/staged-change-review-service.ts`) | in-flight action keys | approve, reject, dismiss, retry, plan an apply, finalize it | vault (preflight), main |
| Plugin runtime (`main.ts`) | the staged list, the services, persisted data | staging, apply sessions, backup, index refresh, persist, restore | everything |
| Review modal and store (`views/staged-change-review-modal.ts`, `stores/...`) | busy flag, selection, outcome | offers the review actions | main |
| Staged-record validation (`utils/vault-validation.ts`) | none | rejects an ill-formed record by throwing | review service, ingestion |
| Lexical indexing runtime (`vectorstore/indexing-runtime-service.ts`) | index, report, job in flight | reindex, cancel, retry, freshness, dispose | vault source, chat, apply |
| Vault source (`vectorstore/obsidian-index-source.ts`) | none | reads notes one at a time, with an abort signal | Obsidian vault |
| Chat (`agent/grounded-vault-chat-service.ts`, `stores/chat-thread-store.ts`, `views/chat-view.ts`) | the thread, the question in flight, drafts | ask, retry, branch, commit with a save and a rollback | index, providers, hot cache |
| Hot cache (`agent/hot-cache-service.ts`, `stores/hot-cache-store.ts`) | the cache, two in-flight flags | capture, persist, restore, session summary | adapter, staged list |
| Ingestion queue and staging (`agent/source-ingestion-*.ts`) | items, workers, abort signals | prepare, run, cancel, retry with backoff, stage | providers, staged list |
| Vault health (`agent/vault-health*.ts`, `stores/vault-health-store.ts`, the modal) | the latest report, exports and repairs in flight | scan, export, stage a repair | index, staged list |
| Maintenance planner (`agent/maintenance-recommendation-planner.ts`) | none | ranks what a report and the list call for, stages some of it | vault health, staged list |
| Similar notes (`agent/similar-note-suggestion-service.ts`) | suggestions in flight | plan, stage | staged list; not wired into the plugin yet |
| Session recovery (`agent/recover-session-service.ts`) | none | summary of what can be resumed | hot cache record, list, report, log |
| Provider setup (`views/settings-tab.ts`, `utils/settings.ts`, `providers/*.ts`) | profiles, credentials (in memory), trust, test results | edit, test, trust, select, delete, save, load; preflight and reports | settings file |
| Provider invocation (`providers/provider-invocation.ts`) | keys in flight | call with a timer, retries, abort | HTTP |
| Status view (`agent/runtime-status.ts`) | none | one item per part, with a severity | everything |
| Deploy script (`scripts/deploy-obsidian-plugin.ts`, `utils/obsidian-install-workflow.ts`, `utils/release-artifacts.ts`) | files | build, plan, review, copy, compensate | a vault's plugin folder |
| Everything else (search, parsing, packaging, handoff, frameworks, surfaces) | none | pure functions over text and manifests | - |

`PROJECT.json` lists all of them with what is modelled of each, and the hazards
of the code, each at its line.

What makes each part correct, in short:

- *staging and review*: no proposal is lost but with the plugin; no sequence of
  review actions makes a record that validation rejects; a decision against a
  change is respected; the list tells what was done to the vault;
- *apply*: nothing is written before the whole selection passed its checks; what
  was checked holds at the write unless someone else intervened; a note that is
  deleted or moved is in a backup first; an apply ends whatever fails;
- *index*: one build at a time; the report never says ready without an index;
  a cancellation is not overtaken by a publication; an apply is never told that
  an index older than its own writes is up to date; nobody waits for ever;
- *ingestion queue*: the outcome of an item is decided once and what is staged is
  published whole; items of a batch do not compete for a note; a run that goes on
  can be canceled, starts nothing after that, and ends whatever the provider does;
- *chat and hot cache*: when the status view calls the cache ready, the file holds the
  thread; a turn is undone only by a save that failed; one summary for a target;
  nobody waits for something that is not under way;
- *providers*: no report says ready of what the preflight denies; trust stays with the
  endpoint it was given to; no call is started after its abort; each call ends;
- *health and suggestions*: exported reports are never overwritten; ready changes do
  not share a note; what is offered as stageable can be staged, but for what only the
  staging checks; what was applied and reads back is not offered again;
- *recovery*: what is cut off a summary is never the failure that made it partial;
- *deploy*: a folder reported as installed is whole and of one version; what a failed
  script copied is gone; a downgrade is reviewed first.

## The modules

| Module | Role |
|---|---|
| `StagedRecords` | the staged-change record and the functions on it: `Build` and its conflicts, the review transitions, `IsSelection`, `PreflightOk`, `Effect`. No variables. |
| `StagedReview`, `MCStagedReview` | the state machine: user, staging flows, review actions, apply sessions, unload and crash; properties and the inductive invariant. |
| `StagedReviewProofs` | lemmas about the operators of `StagedRecords`, type correctness, three inductive invariants and the safety theorems, proved. |
| `IndexingRuntime`, `MCIndexingRuntime` | the state machine of the lexical index, its readers of the vault and the sessions that wait for it. |
| `IndexingRuntimeProofs` | the inductive invariant of the index and its safety theorems, proved. |
| `IngestionContract` | abstract: what a batch of sources promises. |
| `IngestionQueue`, `MCIngestionQueue` | the state machine of the queue service, the staging of its items, the store and the modal's button; implements `IngestionContract`. |
| `IngestionQueueProofs` | its invariants, its safety theorems and the refinement of `IngestionContract`, proved. |
| `SessionMemory`, `MCSessionMemory` | chat views, thread store, chat service, hot cache service and store, and the file between two loads. |
| `SessionMemoryProofs` | the invariant of chat, store and file, and the safety theorems, proved. |
| `ProviderReadiness` | settings and profiles, the preflight, and the reports about both. No variables. |
| `ProviderInvocation` | the state machine of calls, one per key. |
| `ProviderSetup`, `MCProviderSetup` | composes the two: the settings tab, tests, saves, loads, and calls allowed by the preflight. |
| `ProviderSetupProofs` | the theorems about calls, reports and trust, proved. |
| `VaultHealth` | findings of a scan, repairs, and the planner. No variables. |
| `HealthCheck`, `MCHealthCheck` | modals, store, exports and repairs on top of it. |
| `HealthCheckProofs` | the theorems about exports, repairs and what is stageable, proved. |
| `Ranking` | the sort and the cut of a list, used by the next two. |
| `RecoverSession`, `MCRecoverSession` | the recovery command, and the state it is made of while that changes. |
| `SimilarNotes`, `MCSimilarNotes` | the suggestion service, and the vault it plans for and changes. |
| `RankingProofs` | lemmas about the sort and the cut, and the theorems about the two components that use them, proved. |
| `ObsidianInstall`, `MCObsidianInstall` | deploy scripts and the files they share. |
| `ObsidianInstallProofs` | the invariant of the scripts and the safety theorems, proved. |

An `MC` module holds the constants of a run. Operators whose comment begins with
"Mutant" or "A mutant" are wrong on purpose. No module uses them; `PROJECT.json` pairs
each with the definition it would replace and the property that then fails, which shows
that the property depends on the code.

### StagedReview

| Variable | In the code |
|---|---|
| `vault` | the markdown notes, as `createContentSha256` sees them |
| `backups` | `.voidbrain/staged-changes/<id>.backup.md` |
| `staged` | `ingestionStagedChanges` in `main.ts` |
| `plan[m]` | the locals of one run of `applySelectedStagedChanges`: records still to check, refused, checked, backed up, done, failed |
| `flow[f]` | the locals of one staging flow: the notes it read, the artifacts it built |
| `clock` | none: the number of proposals so far |
| `minute` | the minute in `createStagedChangeId`, advanced or not when a deletion is proposed |
| `touched`, `performed` | history: writes by others since a session's check, to notes and to backups; ids whose latest attempt wrote |
| `edits`, `restarts` | counters of the bounds |

| Action | In the code |
|---|---|
| `ReadNotes`, `StageChange` | a repair, suggestion or session summary: list the notes, then build and push one proposal |
| `BuildArtifact`, `PushArtifacts`, `AbandonFlow` | source ingestion: artifacts are built one by one and pushed together, or given up on the first conflict |
| `Approve`, `Reject`, `Dismiss`, `Retry` | `applyAction`, which replaces the list without an await |
| `StartApply`, `RefuseDuplicatePaths` | `planApply` up to its first await |
| `ChangePassesPreflight`, `ChangeFailsPreflight`, `PreflightFault` | `preflightRecord`, one record |
| `AcceptPlan`, `RefusePlan` | the end of `planApply` |
| `WriteBackup`, `BackupFault`, `ApplyEntry`, `EntryFails` | `executeStagedApplyEntry` |
| `Finalize` | `finalizeApplyPlan` and the merge into the list, after the index refresh |
| `UserEdit`, `Unload`, `Crash` | the world around |

An action is what the code does between two awaits of I/O. Choices made:

- A vault call that fails is taken to have changed nothing.
- Records that agree in every field are one. `selectRecords` picks, of the records
  with one id, the first by sort key; `IsSelection` is that rule. The service
  accepts any selection; the modal sends the ids of one group, a special case.
- All conflicts the code makes are blocking and nothing tells their kinds apart,
  so a record has `blocked` instead of a list.
- `AcceptPlan` is a step of its own although the code runs from the last check to
  the first write with settled promises only. It allows more interleavings than
  the code has, never fewer.
- A backup and its entry's vault call are two steps. The read of the current
  content that goes into the backup belongs to the preflight, as in the code.
- An unloaded plugin's session runs on (`orphan`): it writes the vault, and
  updates a list nobody reads. A crash ends it.
- Through `main.ts` only create-note and update-frontmatter proposals reach the
  list today. The review and apply code handles all five operations and its tests
  drive them; the model has them all, and a configuration chooses.
- Each path has an id segment of its own in the runs (`OwnSegment`); `PathSegment` and
  `ShortSegment` (a destination is cut at 24 characters) leave collisions open, and the
  proofs assume nothing about them.
- A change without content after it, that is a deletion, has the first twelve digits of
  its time in its id: the minute. Between two deletions a minute passes or it does not, so
  two of one path may share their id and with it their backup file. `WriteBackup` then
  replaces what is there. If a session has put another content into the backup of the
  change that a session is about to apply, `touched` says so, and `BackupBeforeLoss`
  exempts the deletion: there the code keeps only the content that was backed up last.
  The runtime's own flows stage no deletion, callers of the service may.

### IndexingRuntime

`vault` maps a path to a version, the number of the write that made it. `index`
is the set of notes the index was built from, `report` the status of
`lexicalReport`, `inFlight` the job in `inFlightLexicalJob`, `reader[j]` a call
that is reading the vault (a build or a freshness check), `refresh[s]` an apply
session in `refreshIndexAfterStagedApply`.

`ReindexLexical`, `RetryLexical`, `CancelLexical`, `Dispose`, `StartCheck` and
`EndCheck` are the methods of the service; `ReadNote` and `SkipNote` one round of
the loop in `readMarkdownNotes`; `Publish`, `NoticeCancel` and `Fail` the three
ends of `reindexLexical` with its `finally`; `ApplyChanges`, `RequestRefresh` and
`RefreshTimesOut` the session in `main.ts`. Choices made:

- From the last read to the end of a build the code awaits settled promises only.
  `Publish` is one step for that stretch. That subscribers hear of a ready
  progress just before the index is replaced is left out.
- A build removed by `Dispose` reads on until it looks at its signal. The settings
  tab keeps its reference to the service, so it may start another one after the
  unload; that is why two builds may exist and why `CanceledStaysCanceled` speaks
  of a plugin that is loaded.
- In the code the second request follows a timeout without another callback in
  between, so the first build still runs and the request is refused; in the model
  other steps may come in between, and then it may start a build.
- `refreshLexicalFreshness` is called by tests only today. It is modelled because
  it is part of the service and shares its state.
- Left out: timings, messages, warnings, the semantic index, chunking, scoring.

### IngestionQueue

| Variable | In the code |
|---|---|
| `run[r]` | the locals of a call of `runQueue`: batch, id, items not yet taken (`pending`), workers that are alive (`live`), `cancelRequested`, `stagedChanges` (`gathered`) |
| `item[r][i]` | the summary of an item and, while a worker holds it, where its staging is (`stage`), whether its signal is aborted, the attempts made, the notes still to stage |
| `active` | `activeQueues`: the run that an id leads to |
| `inFlight` | `inFlightFingerprints` of the staging service |
| `listed` | paths with an active change on `ingestionStagedChanges` |
| `allowed` | what the provider preflight says of the settings of the moment |
| `store` | `IngestionQueueStore`: its status, and the run and status of its summary |
| `asked`, `disposed`, `faults` | history: runs the user asked to cancel; the unload; the bound on calls that throw |

`StartRun`, `RefuseRun`, `PrepareItem`, `StartWorkers` and `EndRun` are `runQueue`;
`StartItem` and `CancelUnstarted` one round of a worker; `RefuseSource` and
`StageSource` the two ways `stageSource` goes on after its preview; `ProviderAnswers`,
`AttemptFails`, `NoticeAbort` and `RetryProvider` the loop of
`resolveProviderExtraction`; `CompleteArtifact` and `ArtifactFails` one proposal of
the loop over the notes; `PreparationThrows` and `ItemThrows` an exception out of a
preview or out of `stageSource`; `ClickCancel` and `Dispose` the two callers of
`cancelQueue`. `Render`, `NextArtifact` and `Finish` are what runs before the next
await and are parts of the actions. Choices made:

- Workers are counted, not named: one is busy with an item or about to take one.
- The notes of a source are staged in any order; the code has a fixed one.
- Each item is prepared against a copy of the list, which the code takes before the
  await of its preview (`snapshot`), and is staged against that copy, the list
  and what the run gathered when a worker takes it (`known`).
- The run reads the notes of the vault once, and nothing in the plugin writes them
  without a review: a conflict with a note is one of the causes of `ArtifactFails`.
- An id stands for a second. Two runs need two modals, as a modal is busy while it
  runs one.
- A run whose `Promise.all` has rejected is over for its caller (`rejected`), but its
  other workers go on: their steps need only that they are alive.
- The plugin configures no extractor today (`main.ts:376`), so an allowed provider
  leads to the local extraction. The service and its tests have one; a constant,
  `HasExtractor`, chooses.
- The store's persistence is an assignment in `main.ts` and cannot fail.

`IngestionContract` is the promise without workers, signals and providers: an
outcome once decided stays; the notes of exactly the staged items are published, in
one step, when all outcomes are known, or the run is given up. `IngestionQueue`
implements it under the mapping in its `Contract` instance: an item that is not
prepared, queued or running is open; a run that is done is published, one that was
refused or rejected is given up.

### SessionMemory

`chat` is the state of the thread store, `view[v]` the leaf of a chat view (open,
where its submit is, what it asks), `asking` the service's `inFlightThreads`, `store`
the hot cache store, `write` the write in flight with what it writes and the commit
it serves, `building` the summaries under way, `file` the support record, `late` the
writes of an unloaded plugin.

`Type`, `Submit`, `Ask`, `ProviderAnswers`, `Retry`, `Branch`, `Apply` and `Close`
are what a view does with the store and the service; `Commit` and `Persist` are
`commit` of the store and `persistHotCache` of `main.ts`, `WriteLands` and `WriteFails`
the end of its write, `StageSummary` and its ends the session summary, and then
`Unload`, `Crash` and `Load`. Choices made:

- `main.ts` configures no chat transport today; `HasTransport` chooses, and the run
  has one as the tests do.
- A commit whose persist is refused, as a write is in flight, resolves at once and is
  reported as saved. So at most one commit waits. `behind` remembers that a capture
  was refused since the last write; the exemption it makes in `QuietMeansPersisted` is
  the loss of `main.ts:1300`.
- A failed write rolls the thread back to the state before *its* commit, with
  everything that was committed since. `OnlyFailedSavesUndo` says that nothing else
  undoes a turn.
- `beginSummaryStaging` clears the message of a write that failed, so while a summary
  is staged the status view says that context is persisted when it is not.
- The write of an unloaded plugin may land after the next one's.

### ProviderReadiness, ProviderInvocation, ProviderSetup

`settings` are those in memory, `disk` those in the file, `saving` the one save that
may be under way (a second is dropped with a notice), `secrets` the credentials in
memory, `tests` the tests in course with the profile and the credential each was started with, `calls`
the calls in flight. `SaveProfile`, `DeleteReference`, `DeleteProfile`, `Test`,
`Retest`, `ToggleTrust`, `ToggleCloud`, `SelectProvider`, `SelectModel` and the two
resets are the controls of the tab. `Ask` starts a call when `PreflightProviderSetup`
allows it. Choices made:

- An endpoint is on this machine or not; a model is the set of roles it has.
- The form always sends a model for chat and one for embeddings, and a remote profile
  is parsed before it has a reference to its credential, and is refused. So a remote
  profile gets into the settings by hand only, and one run starts from such a file.
- The probe of a remote profile calls nobody: it looks for the credential.
- Results of a test are "passed" or not; a timeout and a missing secret are failures.
- The tests of one action run one after the other and each asks for its credential when
  it begins, as `runProviderAuthTest` does; `Begun` asks anew for all that are left when
  one ends, since any of them may be the next.
- `getSemanticSnapshot` is not configured in `main.ts`; what is known of a semantic
  index is a choice, and the reports must be right for all of them.
- A transport that lost its race goes on, and its answer is ignored.

### VaultHealth, HealthCheck

A note is what its parser says of it. `modals[m]` is the place of a modal and the job it
is at (a scan, an export, a repair, each with its awaits), `shown` the report of the
store, `latest` that of `main.ts`, `files` the exported reports, `changes` the repairs
on the list. A report's id, and so its file, is the second it was made in. A modal
takes the keyboard, so one is open at a time; what a closed one has begun goes on, and
its result lands in the store of the next one.

The scan takes what a note lists as its sources as it stands, URLs and paths out of the
vault too (`Outside`), and reads notes that end in `.MD` (`Unlisted`); the staging
normalises the first (`RefuseBuild`) and does not list the second (`Listed`). So the planner
calls some findings stageable that staging refuses on an unchanged vault, and
`StageableIsStaged` says which: exactly these.

### RecoverSession

(Its specification is `RecoverySpec`, so that one module can have theorems about it and
about `SimilarNotes`.) `run[l]` is the recovery command of the l-th instance of the
plugin; `file`, `writing` and `memory` the hot cache record on disk, under way and in
memory; `changes`, `report` and `log` what the command joins with it; `shown` the latest
summary. `Show` is the whole of `buildSummary`: the evidence, its ranking (`Ranking`),
the limits on items and on diagnostics, status and actions. The record may be torn,
edited, lost, `null` (which counts as lost, without a diagnostic), or carry a field
named like a secret.

### SimilarNotes

`vault` and `list` are the notes and the staged changes, `plan` the suggestions of the
last plan, `building` the changes under way, `applied` the suggestions whose change
was applied to a note that has not been touched since. Nothing in the plugin calls the
service yet, so its callers do as `main.ts` does with repairs. A word is what the
tokeniser, the frontmatter writer and the parser make of it (`Tokens`, `Split`,
`Texts`, `LinkOf`), so that what is written is compared with what is read back. Scores are
whole ten-thousandths, rounded as the code rounds. Choices made:

- Paths are written as words are, unquoted in a list that is cut at commas when it is read,
  so the related notes and sources of a note are what `Split` left of them. `Upserted`
  writes a list anew: items that were whole before are cut, too.
- The plan reads the wikilinks of the body (`links`), the staging looks for the name in the
  whole text, frontmatter and all (`mentions`).
- A target or a destination that is a support record or does not end in `.md` is planned for
  and refused (`Unstageable`).
- A list of sources that was one text instead of a list is left out: the chunks of such a
  note name the note itself as well.

### ObsidianInstall

`repo`, `built` and `stray` are the checkout and the build output, `vault` and `plugin`
the folders of the vault, `run[d]` one run of the script: its options, its release,
its plan, the actions still to do and done. The build empties its folder (`EmptyOutput`) and writes it
again file by file (`WriteOutput`); when it fails or is killed, the folder stays as it is by
then, and whoever reads it meanwhile, a second script or one with `--skip-build`, finds
files that are absent or not whole. Each file operation is a step and may fail;
a copy that fails may leave the file whole, broken or as it was. A script may be
killed and another one started beside it: the in-flight guard is one of a process.

## The runs

Each row is a run of `PROJECT.json`; its configuration is `<module>.cfg` or
`<module>_<suffix>.cfg`. Every state machine of the code has a `TypeOK` (`RecoveryTypeOK` in
`RecoverSession`), which is proved; any of them can be added to a configuration.

| Run | Shows |
|---|---|
| `review_single` | One modal. Flows, user and session in every order, with a batch of two: what was checked holds at the write, whatever the rest of the batch wrote (`ChecksStillHold`); a refused selection writes nothing (`AllOrNothing`); nothing leaves the list (`NoStagedChangeLost`); the list tells what happened (`OutcomesMatchVault`); a decision against a change is respected (`DecisionsRespected`); every session ends (`ApplyEnds`). |
| `review_concurrent` | Two sessions at once, with an unload, a crash and two deletions of one note that may share their id: `BackupBeforeLoss`, with the one exception it names, and records stay well formed (`WellFormedRecords`). |
| `indexing` | `OneBuild`, `ReportAgrees`, `CanceledStaysCanceled`, `RefreshIsNotOlder` with a build, a check or an orphan of an unload beside it, and a session; its refresh ends even if the disk never answers (`RefreshEnds`); if it does, the place of a build is freed (`PlaceIsFreed`). |
| `ingestion_single` | One run of three items, two of which compete for a note, two workers, a provider with two attempts, a call that throws: items never compete (`ItemsDoNotCompete`), `IngestionContract` is implemented (`KeepsContract`), nothing starts after an accepted cancellation (`NothingStartsAfterCancel`), the run ends (`RunEnds`). |
| `ingestion_concurrent` | Two runs of batches that cross, ids shared or not: `FingerprintsHeld`, `RunIsCancelable`, `QuietStoreSettled`. |
| `ingestion_doc_cancel` | Refuted: "Cancellation stops queued work" (`docs/batch-source-ingestion-queue.md:17`). After a worker has thrown, the run shown cannot be canceled and goes on. |
| `session_memory` | Two views on one thread, two loads: `OneSummaryPerTarget`, `QuietMeansPersisted`, `NobodyIsForgotten`, `OnlyFailedSavesUndo`. |
| `providers` | A provider of the user beside one of the registry: `ReadyMeansAllowed`, `TrustIsForTheCloud`, `NoCallAfterAbort`, `InvocationEnds`. |
| `install` | Two scripts, one build folder, a fault or a kill at any step: `SuccessMeansWhole`, `OnlyReviewedReplacements`, `FailureUndoesCopies`. |
| `health` | The modal opened twice: `NoReportOverwritten`, `OneReadyRepair`, and `StageableIsStaged`, with a note that is not listed for staging and a source that is a URL. |
| `recovery` | Limits small enough to cut: `FailuresShow`, `ReadyTellsTheWhole`. |
| `similar_notes` | Plan, stage, apply, plan again: `AppliedSettles`, `StageableStages`, `OneReadyForNote`, with a path that has a comma, a tag that reads as a truth value, a link in the frontmatter and a note that ends in `.MD`. |

Two properties do not hold with two sessions, and `review_concurrent` leaves them
out: a second modal may reject what the first session is about to write
(`DecisionsRespected`), and a session that failed to write a change may end after
another one that wrote it, so that its outcome replaces the other's
(`OutcomesMatchVault`). Both follow from the busy flag living in the modal, which
"hazards" lists; no documentation promises either.

### Statements of the documentation that the code does not keep

Each is a definition of the module named; added to the configuration given, in place
of its properties, TLC shows the trace.

| Property | Says, and where | Configuration |
|---|---|---|
| `CancelStopsQueuedWork` | "Cancellation stops queued work" (`docs/batch-source-ingestion-queue.md:17`): after a worker has thrown, the run shown cannot be canceled and goes on | run `ingestion_doc_cancel` |
| `StagedReview!RevalidatedAtMutation` | "The runtime revalidates every selected record immediately before mutation" (`docs/staged-change-review-apply.md:23`): all records are checked first and written later | `MCStagedReview_single.cfg` without `SYMMETRY` |
| `StagedReview!DuplicatesBlocked` | "Duplicate active changes touching the same target or destination are blocked" (line 32): the check is made when a proposal is built, not when a batch is pushed or a record retried | the same |
| `StagedReview!ReviewedRecordIsChecked` | line 23 again: of two records with one id the decided one is taken and the reviewed one never checked | the same |
| `IndexingRuntime!RefreshFailureReported` | "Refresh failure is reported as retryable recovery context" (line 47): a canceled build is reported as done | `MCIndexingRuntime.cfg` |
| `IndexingRuntime!ReadyIndexIsCurrent` | "When paths or fingerprints change, the index is stale" (`docs/indexing-retrieval-foundation.md:37`): nothing in the plugin compares the index with the vault | `MCIndexingRuntime.cfg` |
| `ProviderSetup!DocumentedProfileIsSaved` | an OpenAI-compatible provider is set up by entering an endpoint and a credential and saving (`docs/provider-setup.md:101-106`): the form refuses every remote one | `MCProviderSetup.cfg` |

Other things the models show, which no document speaks of: the summary of a session
with as many omitted bodies as there is room for diagnostics hides its warnings and says
"ready" (`WarningsHidden` in `RecoverSession`); a suggestion of a path, tag
or alias with a comma, or of one that reads as a number, is made for ever (but for a source
path, whose pieces fill the list), a plan calls stageable what has no frontmatter, what the
frontmatter links already and what does not end in `.md`, and two changes may move to one
destination (`SimilarNotes`); two deletions of one path within a minute share a backup, in
which the second content replaces the first (`StagedReview`); the planner calls a repair
stageable whose sources staging refuses (`HealthCheck`); a failed
update leaves no plugin at all, as what was overwritten or cleaned is not put back, and
after a build that was killed `--skip-build` installs what it left, torn or not, and
reports success (`ObsidianInstall`); an export cut off half way blocks every later export of its second
(`HealthCheck`); a test result is saved with a profile that was replaced while it ran,
a credential is lost when its deletion is refused by the settings, and a "passed"
stays after a restart has lost the credential (`ProviderSetup`).

### Bounds

- `review_single`: 2 paths, 2 contents, 1 command, 1 flow, 1 session, 2 proposals
  (`MaxStagings`), 1 edit (`MaxEdits`), no restart; create, update and move. Two
  records are the least that can share a path, an id or a batch; two paths the
  least a move needs; one edit is enough to invalidate any check. One path holds the
  note of the start (`OneNote`), since paths are interchangeable; a symmetry set would
  not do for a liveness property. `update-note` stands for `update-frontmatter` too, of
  which the model says the same.
- `review_concurrent`: 1 path, 2 deletions, 2 sessions, 1 edit, 1 restart: the least with
  two contents lost under one id, and with the exception of `BackupBeforeLoss` reached
  (without the restart it is not, even with two edits). `NothingDeclined` leaves out
  behaviours in which the user rejects a deletion, which `review_single` has for the other
  kinds; sessions are symmetric. Moves, batches and more paths beside a second session
  are left to the theorems.
- `indexing`: 2 paths, 2 readers, 1 session, 1 write (`MaxWrites`). Two
  readers are a build beside a check, or beside one orphaned by an unload. `StartCheck`
  leaves a reader for the next build, so that the bound never keeps a build from
  starting. One write, of the session or of the user, tells old from new; two were
  checked for the safety properties when the module was written.
- `ingestion_single`: three items are the least with two workers, one item waiting
  and two that share a note; two attempts the least with a backoff; one fault
  (`MaxFaults`) leaves a worker alive. One target (`Shared`) comes and goes on the list
  by other flows.
- `ingestion_concurrent`: one worker per run, no extractor and no fault; the two runs
  are workers of each other. Runs and ids are symmetric.
- `session_memory`: two views, so that one may be closed on a question or commit beside
  the other; two drafts, one of which a capture shortens; one turn (`MaxTurns`) and two
  loads (`MaxLoads`): a second turn differs from the first by its number only.
- `providers`: one profile of the user, which every hazard is about, and one of the
  registry for the rules that prefer it; two endpoints, here and away; two models, as
  the form sends two; two attempts; one credential in memory (`MaxRefs`) and one of a
  file; one test in course at a time (`MaxTests`).
- `install`: an older and a newer version and a label; the plugin folder empty, current or
  labelled at first, the build folder with each file there, gone or torn; two scripts, one
  fault, kill or change of the repository (`MaxFaults`).
- `health`: two notes, a source, which may become a summary that is not listed for staging,
  and the summary that cites it, whose sources may become a URL; two modals, one edit
  (`MaxEvents`), two seconds, two staged changes.
- `recovery`: one change, two loads, one tick, and limits of three items and one diagnostic:
  what is cut off is then as easily reached as it is with the real limits of 24 and 24 (`types/recovery.ts:5,7`).
- `similar_notes`: a note in the inbox, one in a folder whose path has a comma, the place the
  first would be moved to, and a note that ends in `.MD`; four words, two of which share a
  token; two tags, one of which is read as a truth value; two callers, one edit.
- The refuted property uses a small instance of its model.

`CHECK_DEADLOCK FALSE` is set in the runs of `StagedReview`: when the bound on
proposals is reached, nothing is on the list and no session runs, the system may
rest, as the plugin does when the user does nothing. The runs of the newer modules set
it for the same reason: scripts have ended, loads, edits and changes are used up.
`IndexingRuntime` and `IngestionQueue` never stop: settings can always be saved.

### Fairness

`FairSpec` gives each session weak fairness of its own steps: a session is an
async function, every vault call it awaits settles (with a result or an error, both
are steps), and its wait for the index ends after two timeouts, which is what
`RefreshEnds` shows of that wait. `TimerSpec` assumes of the index only that timers
fire and callbacks run, not that the disk answers; `PlaceIsFreed` adds
`DiskAnswers` as an antecedent, since the code has no timeout there. The user is
never obliged to do anything. `IngestionQueue`'s `FairSpec` has the steps of each run
and each item, timeouts and backoffs among them, but not `ProviderAnswers`: the
provider may stay silent, and `RunEnds` holds by the timeouts. `ProviderSetup`'s
`FairSpec` has the two timers of `ProviderInvocation`, the one of an attempt and the
pause, and not the transport. The other modules state safety only: a write, a scan or
a file operation that never returns is not something their code guards against.

## The proofs

Every safety property a passing run checks, invariant, action property or refinement, is
stated by a theorem here, for all values of the constants, from nothing but the
assumptions that the modules name. Three theorems have a hypothesis of their own, which the
sections below state and explain. Each inductive invariant was checked with TLC before it
was proved. The pattern is the same throughout: the initial states satisfy the invariant,
a lemma per action (or group of actions that share an effect) shows that it is kept, and
the property follows from it, or, if it is about steps, from it and the actions.

### StagedReview

`StagedReviewProofs` proves, for all sets of paths,
contents, commands, sessions and flows, all bounds and all operation kinds, from
`NoPathIsNoPath`, `AbsentIsNoContent`, `EmptyIsContent`, `SegmentsOfPaths`,
`OperationsAreKinds`, `InitialVaultsAreVaults`, `BackupsAreNoNotes` and `BoundsAreNaturals`:

| Theorem | Says |
|---|---|
| `TypeCorrect` | `Spec => []TypeOK` |
| `RecordsWellFormed` | `Spec => []WellFormedRecords`: `assertValidRecord` never throws out of a review action or of `finalizeApplyPlan` |
| `ChecksHoldAtWrite` | `Spec => []ChecksStillHold`: no write of a batch invalidates a check of another entry |
| `PlansAreAllOrNothing` | `Spec => AllOrNothing` |
| `StagedChangesAreKept` | `Spec => NoStagedChangeLost` |
| `LossesAreBackedUp` | `Spec => BackupBeforeLoss`: by the time a session deletes or moves a note away, the content it had is in a backup, unless it deletes and another session replaced the backup of that id |
| `OutcomesAreTrue` | `OneSession /\ Spec => []OutcomesMatchVault` |
| `DecisionsHold` | `OneSession /\ Spec => DecisionsRespected` |

The argument of `ChecksHoldAtWrite`: a check looks at the paths of its record only
(`PreflightIsLocal`), a write changes the paths of its record only
(`EffectIsLocal`), and no two records of a selection share a path. The last fact is
established once, by `findDuplicateApplyPaths`, and must survive every step of the
session, so `ChecksStillHold` is not inductive by itself. The inductive invariant is

    IInv == TypeOK /\ SessionsOk /\ WellFormedRecords /\ ArtifactsWellFormed /\ ChecksStillHold

with `SessionsOk` the conjunction, per session, of `PhaseInOrder` (which parts of the
plan each phase uses: without it an executing session might have records still
to check), `BatchDisjoint` (no shared path, and no record in two parts of the plan) and
`PlanWellFormed` (what will be marked applied, failed or conflicted stays well
formed, because it was well formed and had an applyable status when chosen).
`ArtifactsWellFormed` is the same for what a flow will push. There is one lemma per
group of actions, one step per action in it. `PlansAreAllOrNothing` follows from
`PhaseInOrder`, once it is known that only `ApplyEntry` adds to what a session has
written; `StagedChangesAreKept` needs that replacing records by id keeps ids.

`LossesAreBackedUp` relates four places that hold a content: the record, the session's
entry, the backup and the note. `BackupInv` adds to `IInv` that a record keeps what it was
made from through every review and apply, that a delete or a move of an absent note is
blocked for ever (`Origins`), that an entry which deletes or moves has read what its record says
(`CurrentIsBefore`), and that an open entry has a backup with that content (`BackedUp`).
The backup may be another session's, and two records may have one id and so one backup.
For a move that does no harm, because the id of a move tells the content it was made from.
The id of a deletion tells a minute only: two deletions of one note in one minute have
one id and one backup though they found different contents, and the second to write its
backup displaces the first's. So `BackedUp` lets an open deletion be without its backup
where `touched` records that another session wrote one under its id, and the theorem has
the same exception. `touched` holds paths and ids; `BackupsAreNoNotes` keeps them apart.

`OutcomesAreTrue` and `DecisionsHold` assume `OneSession`, and not for want of a proof: with two
sessions TLC refutes both (see above). The user who never closes the modal on a running
apply has one session. `OutcomeInv` is what then holds: a decision or an outcome replaces
all records of its id, so that of two records with one id one is as staging made it
(`ListPairs`); while a session runs, the list says nothing final of what it may still
write (`ListWaits`); a session takes an id once (`IdsApart`).

### IndexingRuntime

`IndexingRuntimeProofs` proves, for any number of notes, readers, sessions and writes,
from `NoneIsNoReader`, `NoneIsNoNote` and `InitialVaultsAreVaults`:

| Theorem | Says |
|---|---|
| `TypeCorrect` | `Spec => []TypeOK` |
| `BuildsDoNotOverlap` | `Spec => []OneBuild` |
| `ReportTellsTheIndex` | `Spec => []ReportAgrees` |
| `CancellationIsKept` | `Spec => CanceledStaysCanceled` |
| `RefreshedIsNotOlder` | `Spec => RefreshIsNotOlder` |

All follow from `IndexInv` (theorem `IndexInvariant`), none of whose parts can be missed:

- `PlaceIsBuild` and `BuildHoldsPlace`: the place belongs to a build that goes on, and a
  build without it was thrown out by an unload and aborted. `OneBuild` is a consequence,
  but not inductive: it says nothing of who may free the place.
- `BuildWillSettle`: report and index may differ only while a build goes on, which sets
  both when it ends. A cancellation is the case that needs it: the report says so at once,
  the index goes when the build notices; with `PlaceIsBuild` there is such a build.
- `CancelReaches`: after an accepted cancellation every build that goes on is aborted.
- `SessionsReadNew`: a session waits for a build, which has read no note older than what
  the session wrote, and the vault has none any more.

The proof has one lemma per kind of step that several actions share (a build starts, a
build ends, readers go on), and the actions are cases of these.

### IngestionQueue

`IngestionQueueProofs` proves, for any sources, batches, runs, workers, attempts and faults:

| Theorem | Says |
|---|---|
| `TypeCorrect` | `Spec => []TypeOK` |
| `StoreSettles` | `Spec => []QuietStoreSettled` |
| `RunsCancelable` | `Spec => []RunIsCancelable` |
| `CanceledRunsStartNothing` | `Spec => NothingStartsAfterCancel` |
| `NoCompetition` | `Spec => []ItemsDoNotCompete` |
| `ClaimsHeld` | `Spec => []FingerprintsHeld` |
| `QueueKeepsContract` | `Spec => KeepsContract`, the refinement |

`RunsInv` says where a run and its items are together: only items of the batch do anything,
what a worker holds is running and what runs is held unless a call threw (`ItemOk`), a
worker holds one item (`WorkersOk`), a run has gathered exactly the notes of its staged
items (`GatheredOk`), and who holds a queue id goes on and has that id (`ActiveOk`).
`ItemsDoNotCompete` is kept because preparation looks at all items before it, and
nothing later makes an item live again. `ClaimsOk` says of `inFlight` that it is exactly the
contents of the items that are being staged and that no two of these share one: without
the second half, an item that ends could give up the claim of another.

The refinement maps a run to its batch, an item to its status once that is final and to
"open" before, and a run to published, given up or open by its phase. One lemma per action
shows that the mapped step is `Submit`, `DecideItems`, `Publish`, `GiveUp` or `Unload` of the
contract, or a stutter; `GatheredOk` is what makes a published run publish what its items
staged.

### SessionMemory

`SessionMemoryProofs` proves, for any finite number of views and any drafts, evidence and
loads:

| Theorem | Says |
|---|---|
| `ChatsAreServed` | `Spec => []NobodyIsForgotten` |
| `SummariesAreSingle` | `Spec => []OneSummaryPerTarget` |
| `ReadyIsPersisted` | `Spec => []QuietMeansPersisted` |
| `TurnsOutliveSaves` | `Spec => OnlyFailedSavesUndo` |
| `TypeCorrect` | `Spec => []TypeOK` |

The first four follow from `MemoryInv`. Its parts need each other: the flag of the store is up
exactly while there is a write (`WriteIsKnown`), the write in flight is of the thread as it
is unless a save was refused since (`WriteIsOfThread`), and an unloaded plugin has neither
(`DownIsEmpty`). Why a refused save does not falsify "persisted" is in `behind`; why a restored
draft does not is in `KeptArePreviews`: what was captured is the preview of itself
(assumption `PreviewsAreKept`, that cutting a cut text changes nothing). `OneSummary` adds to
"at most one is on the list" that one is built at a time, and while none is there.

`TypeCorrect` bounds the thread, and that takes counting: every view may have a question out
that was asked when there was room. `ThreadIsBounded` counts turns and questions together; a
rollback must make no thread longer (`UndoIsShorter`).

### ProviderSetup

`ProviderSetupProofs` proves, for any roles, ids, profiles, texts, credentials and attempts:

| Theorem | Says |
|---|---|
| `TypeCorrect` | `Spec => []TypeOK` |
| `AbortedCallsStay` | `Spec => NoCallAfterAbort` |
| `ReportsTellTheTruth` | `Spec => []ReadyMeansAllowed` |
| `TrustStays` | `FilesTrustSoundly /\ Spec => []TrustIsForTheCloud` |

The invariant `CallInv` says that a call that was aborted is in a pause (any other one ends at
once), and that a call pauses only when it has an attempt left, without which the type
would not hold after `WakeUp`. `SetupInv` adds that the settings in memory, and those of
the save under way, are what a parse leaves (`Sound`): valid profiles, and roles whose
provider is registered. Reports and preflight then read the same settings, and
`ReportsTellTheTruth` is a theorem about two functions of them.

`FilesTrustSoundly` says of the settings files the plugin may find that whom they trust may be
trusted. It is a hypothesis because `parsePluginSettings` checks only that trusted ids are
known: a file edited by hand could trust a local provider, and no step would take that
back. Every file the plugin itself wrote satisfies it, which is part of what `TrustInv` shows.

### HealthCheck

`HealthCheckProofs` proves, for any number of modals, notes and seconds:

| Theorem | Says |
|---|---|
| `TypeCorrect` | `Spec => []TypeOK` |
| `ReportsAreKept` | `Spec => NoReportOverwritten` |
| `RepairsDoNotCompete` | `Spec => []OneReadyRepair` |
| `StageableStaged` | `Spec => []StageableIsStaged` |

`ReportsAreKept` needs `ExportInv`: an export holds the id of its report from before the look
for the file until after the write, no two exports have one id, and one that writes found
no file. `RepairsDoNotCompete` is inductive once the list is known to be a sequence of
records. `StageableStaged` needs `HealthInv`: the latest report is what a scan of the notes it
names has found, and a finding that can be repaired is about a note that lacks citations
and about the sources it names, so that what the planner concluded from the report is what
the repair concludes from the note, as long as that has not changed. The theorem is an
equivalence: of what is called stageable, exactly that is staged which is about a
note with a listed name (`Unlisted`) and with sources that are all paths of a vault, the two
checks that staging makes and neither the scan nor the planner does.

### SimilarNotes

`RankingProofs` proves, for any notes, search results, limits, callers and edits:

| Theorem | Says |
|---|---|
| `TypeCorrect` | `Spec => []TypeOK` |
| `AppliedStaysSettled` | `Spec => []AppliedSettles` |
| `StageableIsKept` | `Spec => []StageableStages` |
| `ReadyIsSingle` | `Spec => []OneReadyForNote` |

`SimilarInv` says that a change is what its suggestion makes of the note before it, that a
plan is of the notes and the list as long as nothing changed (`fresh`), and that the value
of an applied suggestion is in its note (`AppliedOk`): other suggestions add to a note and
take nothing from it. A plan never suggests what a note has (`ValuesAreNew`); for the one
suggestion of a kind that is chosen among several this rests on there being a least rank,
which is the well-foundedness of the naturals (`LeastOfNaturals`). That a value is read
back as it was written is in both statements (`ReadsBack`), since some are not: paths and
words with a comma, tags and words that read as numbers, names that a wikilink cuts.
`StageableIsKept` is an equivalence: what is called stageable is staged except where the
plan does not look, which is at the name of the target, at whether there is a frontmatter
and at mentions outside the body.

### RecoverSession

`RankingProofs` also has the theorems about the other component that ranks and cuts, for
any limits above zero, any changes, loads and times:

| Theorem | Says |
|---|---|
| `FailuresAlwaysShow` | `RecoverySpec => []FailuresShow` |
| `ReadyIsTheWhole` | `RecoverySpec => []ReadyTellsTheWhole` |
| `RecoveryTypeCorrect` | `RecoverySpec => []RecoveryTypeOK` |

Both properties are about what a cut leaves, so the work is in lemmas about `First`. The keys
of diagnostics are a total order (`PrecedesIsTotal`), in which an error comes before all
that is none; so if there is one, one is kept (`ErrorsAreKept`). Of a set of which anything
is cut off at n, exactly n are kept (`CutKeepsAll`, by counting along the order); so fewer
diagnostics than the limit means that none is hidden, and items no more than their limit
are all kept (`FewItemsAreKept`). `SummaryOk` puts these together for every summary, and
`RecoveryInv` says that every summary shown was made of values of the right kind.

### ObsidianInstall

`ObsidianInstallProofs` proves, for any versions, checkouts, folders, invocations, number of
scripts and of faults:

| Theorem | Says |
|---|---|
| `TypeCorrect` | `Spec => []TypeOK` |
| `SuccessIsWhole` | `Spec => []SuccessMeansWhole` |
| `ReplacementsAreReviewed` | `Spec => []OnlyReviewedReplacements` |
| `FailuresUndoCopies` | `Spec => []FailureUndoesCopies` |

`InstallInv` (theorem `InstallInvariant`) has two layers. `TodoOk` and `RunOk` hold of every
script whatever the others do: copies come last, and a script at work has judged the release it
installs against the manifest it found. `Settled` holds of a script that nobody
disturbed: while it builds, what it has written already is of the version of the checkout
(`unwritten` is the rest); from then on, if it built at all, the output is whole; each file
of the folder is the one of the release or is still to be copied; after a failure each is as
it was, or gone, or stuck, or still to be removed. A build that was killed or failed leaves
its folder empty or torn, and `SuccessIsWhole` promises a whole bundle to the script
that built it only: with `--skip-build` the bundle is what lay in the folder.

### Only model-checked

Liveness: `ApplyEnds`, `RefreshEnds`, `PlaceIsFreed`, `RunEnds` and `InvocationEnds`. Fairness and
ENABLED are out of the prover's reach. So is induction over data, except as far as the
facts about finite sets and the well-foundedness of the naturals give it; no theorem
needs more. The statements of the documentation that the code does not keep are refuted by
TLC, and the modules that are composed (`ProviderInvocation` under `ProviderSetup`) are proved
about in the composition only.

## What is not modelled, and why

- Text: rendering, parsing, diffs, citations, messages. Where what is written is read back
  (the aliases and tags of `SimilarNotes`) the model has what the conversion does.
- The contents of the lexical and semantic index (tokens, chunks, scores, vectors): what
  a search finds is a choice in `SessionMemory`, and `IndexingRuntime` knows an index by
  the notes it was built from.
- Source ingestion intake and citations: pure functions of one text, whose verdict is a
  choice of `IngestionQueue` (`RefuseSource`).
- Pure validators over manifests and fixtures (packaging, ecosystem handoff, framework
  preview, surfaces, scans): one call, no state, nothing that runs beside them. The
  release checks of the deploy script are there, because its steps depend on them.
- Path normalisation and the shape checks of input, except for the rules that relate two
  fields of a staged record, and for the checks by which staging refuses what a plan has
  accepted (`HealthCheck`, `SimilarNotes`).
- Views, except for what keeps state across an await: the busy flags of the modals, the
  places of a chat view, the actions in flight of the settings tab. Status items, except
  those of the hot cache, the providers and the recovery, which properties speak of.
- What providers and HTTP answer: an answer, a failure or silence.

## Plan

Done: the state machines of the table above, their runs, and the proofs of every safety
property the runs check. Left, in this order:

1. `ReviewContract`: an abstract specification (a change is proposed, decided, and
   written at most once per attempt), implemented by `StagedReview` under a refinement
   mapping, checked as a property and proved step by step.
2. The compatibility of a stored semantic index with the settings, a pure decision that the
   reports of `ProviderReadiness` now take as given.

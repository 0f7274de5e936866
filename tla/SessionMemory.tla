---------------------------- MODULE SessionMemory -----------------------------
(***************************************************************************)
(* The chat thread and the hot cache that remembers it: the chat view      *)
(* (views/chat-view.ts), the grounded chat service                         *)
(* (agent/grounded-vault-chat-service.ts), the thread store with its save  *)
(* and its rollback (stores/chat-thread-store.ts), the hot cache service   *)
(* and store, and the write, the restore and the session summary that      *)
(* main.ts makes of them.  The plugin may be unloaded, or the process may  *)
(* die, at any moment.                                                     *)
(*                                                                         *)
(* There is one thread, whose branches are left out.  A draft stands for   *)
(* its text and context chips, an evidence for what the index and the      *)
(* settings give a question.  A commit of the store whose save is refused, *)
(* because a write is in flight, resolves at once; so at most one commit   *)
(* waits, and it waits for the write.                                      *)
(***************************************************************************)
EXTENDS Integers, Sequences, FiniteSets

CONSTANTS
    Views,         \* chat views; the leaves are there when the plugin is loaded
    Drafts,        \* texts and context chips of a draft
    Typed,         \* bound: drafts a user types, None to clear the draft
    PreviewOf,     \* the redacted and shortened text a capture keeps of a draft
    Evidence,      \* what a question may meet, a subset of AllEvidence
    HasTransport,  \* a provider transport is configured
    MaxTurns,      \* bound: a question is asked while the thread has fewer turns
    MaxLoads,      \* bound: loads of the plugin
    None           \* no text, no view

ASSUME ViewsAreFinite == IsFiniteSet(Views)
ASSUME NoneIsNothing == None \notin Views \cup Drafts
ASSUME PreviewsAreDrafts == PreviewOf \in [Drafts \cup {None} -> Drafts \cup {None}]
ASSUME PreviewOfNothing == PreviewOf[None] = None
ASSUME PreviewsAreKept == \A d \in Drafts : PreviewOf[PreviewOf[d]] = PreviewOf[d]
ASSUME TypedAreTexts == Typed \subseteq Drafts \cup {None}
ASSUME HasTransportIsBoolean == HasTransport \in BOOLEAN
ASSUME BoundsAreNatural == MaxTurns \in Nat /\ MaxLoads \in Nat

Texts == Drafts \cup {None}

(* What decides a question: the index, what the search found, the preflight. *)
AllEvidence ==
    [index : {"absent", "not-ready", "ready"}, found : {"error", "weak", "strong"},
     allowed : BOOLEAN]

ASSUME EvidenceIsEvidence == Evidence \subseteq AllEvidence

VARIABLES
    chat,      \* the state of the thread store
    view,      \* per view: open, where its submit is, what it asks, its summary
    asking,    \* inFlightThreads: the view whose question is with a provider
    store,     \* the hot cache store: status, isWriteInFlight, isSummaryInFlight,
               \* and whether it has a cacheState
    write,     \* the write in flight: what it writes, and the commit it serves
    building,  \* the views whose summary the service builds; its flag is that there is one
    staged,    \* active changes for the note of the summary, on the list of main.ts
    file,      \* the support record on disk
    late,      \* captures that an unloaded plugin is still writing
    loads,     \* loads so far
    up,        \* the plugin is loaded
    behind     \* history: since the last capture, a save was refused or a late write landed

vars == <<chat, view, asking, store, write, building, staged, file, late, loads, up, behind>>

TurnStatuses == {"weak-retrieval", "provider-denied", "answer-ready", "failed"}

Turns ==
    [question : Drafts, status : TurnStatuses, retryable : BOOLEAN]

Chats ==
    [draft : Texts, turns : UNION {[1 .. n -> Turns] : n \in 0 .. MaxTurns + Cardinality(Views)}]

NewChat == [draft |-> None, turns |-> <<>>]

Captures == [draft : Texts]

(* The thread entry sorts before every other kind, so the entry limit spares it. *)
Capture(c) == [draft |-> PreviewOf[c.draft]]

(* Turns are not restored. *)
Restored(f) == [draft |-> f.draft, turns |-> <<>>]

Missing == [lost |-> "missing"]
Torn == [lost |-> "torn"]
NoWrite == [captured |-> Missing, undo |-> <<>>, by |-> None]

(* undo is the state to go back to, <<>> when no commit waits for the write. *)
Writes ==
    [captured : Captures \cup {Missing}, undo : {<<>>} \cup {<<c>> : c \in Chats},
     by : Views \cup {None}]

StoreStates ==
    [status : {"idle", "capturing", "persisted", "restored", "staging-summary", "failed"},
     writing : BOOLEAN, summing : BOOLEAN, cached : BOOLEAN]

NewStore == [status |-> "idle", writing |-> FALSE, summing |-> FALSE, cached |-> FALSE]

(* What the status view says of the cache (runtime-status.ts), the age of   *)
(* the cache apart.  Every failure has a message, and only a failure.       *)
HotCacheSeverity ==
    CASE store.status = "failed" -> "error"
      [] store.status # "failed" /\ store.writing -> "warning"
      [] store.status # "failed" /\ ~store.writing ->
            IF store.cached THEN "ready" ELSE "missing"

ViewStates ==
    [open : BOOLEAN, pc : {"idle", "saving", "asking", "applying"},
     text : Texts, summing : BOOLEAN]

NewView == [open |-> TRUE, pc |-> "idle", text |-> None, summing |-> FALSE]

Idle(w) == [w EXCEPT !.pc = "idle", !.text = None]

Init ==
    /\ chat = NewChat
    /\ view = [v \in Views |-> NewView]
    /\ asking = None
    /\ store = NewStore
    /\ write = NoWrite
    /\ building = {}
    /\ staged = 0
    /\ file = Missing
    /\ late = {}
    /\ loads = 0
    /\ up = FALSE
    /\ behind = FALSE

-----------------------------------------------------------------------------
(* The write of the hot cache *)

(* beginCapture and capture: refused while a write is in flight, and then   *)
(* nobody is told.                                                          *)
Persist(next, undo, by, s) ==
    IF s.writing
    THEN /\ store' = s
         /\ behind' = TRUE
         /\ UNCHANGED write
    ELSE /\ store' = [s EXCEPT !.status = "capturing", !.writing = TRUE]
         /\ write' = [captured |-> Capture(next), undo |-> undo, by |-> by]
         /\ behind' = FALSE

(* Mutant: the save is asked for before the state is replaced. *)
CommitSavingFirst(next, by) ==
    /\ chat' = next
    /\ Persist(chat, <<chat>>, by, store)

(* A commit of the thread store; its caller waits if the save is not refused. *)
Commit(next, by) ==
    /\ chat' = next
    /\ Persist(next, <<chat>>, by, store)

(* Whoever persists for another reason: settings, index, ingestion, review, health. *)
PersistInBackground ==
    /\ up
    /\ Persist(chat, <<>>, None, store)
    /\ UNCHANGED <<chat, view, asking, building, staged, file, late, loads, up>>

EndWrite ==
    /\ write # NoWrite
    /\ write' = NoWrite
    /\ view' = [v \in Views |->
                  IF v = write.by /\ view[v].pc = "applying" THEN Idle(view[v]) ELSE view[v]]
    /\ UNCHANGED <<asking, building, staged, late, loads, up, behind>>

WriteLands ==
    /\ EndWrite
    /\ file' = write.captured
    /\ store' = [store EXCEPT !.status = "persisted", !.writing = FALSE, !.cached = TRUE]
    /\ UNCHANGED chat

(* The folder or the file cannot be written: fail clears both flags, and the  *)
(* commit goes back to the state before it.                                   *)
WriteFails ==
    /\ EndWrite
    /\ store' = [store EXCEPT !.status = "failed", !.writing = FALSE, !.summing = FALSE]
    /\ chat' = IF write.undo = <<>> THEN chat ELSE write.undo[1]
    /\ UNCHANGED file

-----------------------------------------------------------------------------
(* The view and the thread *)

CanUse(v) == up /\ view[v].open /\ view[v].pc = "idle"

(* What the view awaits goes on without it. *)
Close(v) ==
    /\ up
    /\ view[v].open
    /\ view' = [view EXCEPT ![v].open = FALSE]
    /\ UNCHANGED <<chat, asking, store, write, building, staged, file, late, loads, up, behind>>

Type(v, d) ==
    /\ CanUse(v)
    /\ d # chat.draft
    /\ Commit([chat EXCEPT !.draft = d], None)
    /\ UNCHANGED <<view, asking, building, staged, file, late, loads, up>>

(* handleSubmit: the draft is saved first; the answer of the save is not read. *)
Submit(v) ==
    /\ CanUse(v)
    /\ chat.draft # None
    /\ Len(chat.turns) < MaxTurns
    /\ Commit(chat, v)
    /\ view' = [view EXCEPT ![v].pc = "saving", ![v].text = chat.draft]
    /\ UNCHANGED <<asking, building, staged, file, late, loads, up>>

(* What becomes of a question before a provider is called; "synthesizing" calls it. *)
Verdict(e) ==
    CASE e.index # "ready" -> "failed"
      [] e.index = "ready" /\ e.found = "error" -> "failed"
      [] e.index = "ready" /\ e.found = "weak" -> "weak-retrieval"
      [] e.index = "ready" /\ e.found = "strong" /\ ~e.allowed -> "provider-denied"
      [] OTHER -> "synthesizing"

(* An index that is being built is "not-ready" and cannot be retried; nor can *)
(* a search that the query itself made fail.                                  *)
RetryableAfter(e) ==
    \/ e.index = "absent"
    \/ e.index = "ready" /\ e.found # "error"

Turn(v, status, retryable) ==
    [question |-> view[v].text, status |-> status, retryable |-> retryable]

(* Mutant: the turns are taken from the state that comes with the result. *)
ApplyStateOfResult(v, new) ==
    IF ~view[v].open
    THEN /\ view' = [view EXCEPT ![v] = Idle(@)]
         /\ UNCHANGED <<chat, store, write, behind>>
    ELSE /\ Commit([chat EXCEPT !.turns = new], v)
         /\ view' = [view EXCEPT ![v] =
                IF store.writing THEN Idle(@) ELSE [Idle(@) EXCEPT !.pc = "applying"]]

(* applyActionResult, unless the view was closed meanwhile: then the result is lost. *)
Apply(v, new) ==
    IF ~view[v].open
    THEN /\ view' = [view EXCEPT ![v] = Idle(@)]
         /\ UNCHANGED <<chat, store, write, behind>>
    ELSE /\ Commit([chat EXCEPT
                      !.turns = @ \o new,
                      !.draft = IF \E i \in DOMAIN new : new[i].status = "answer-ready"
                                THEN None ELSE @], v)
         /\ view' = [view EXCEPT ![v] =
                IF store.writing THEN Idle(@) ELSE [Idle(@) EXCEPT !.pc = "applying"]]

(* ask: one question of a thread at a time is with a provider. *)
Ask(v, e) ==
    /\ up
    /\ view[v].pc = "saving"
    /\ write.by # v
    /\ IF asking # None
       THEN Apply(v, <<>>) /\ UNCHANGED asking
       ELSE IF Verdict(e) # "synthesizing"
       THEN Apply(v, <<Turn(v, Verdict(e), RetryableAfter(e))>>) /\ UNCHANGED asking
       ELSE /\ asking' = v
            /\ view' = [view EXCEPT ![v].pc = "asking"]
            /\ UNCHANGED <<chat, store, write, behind>>
    /\ UNCHANGED <<building, staged, file, late, loads, up>>

(* A transport that is not configured fails once and for all; a response must *)
(* have a text and cite only what was retrieved.  The view passes no signal,  *)
(* so nothing is canceled.                                                    *)
Outcomes ==
    {<<"failed", FALSE>>} \cup
    (IF HasTransport
     THEN {<<"answer-ready", FALSE>>, <<"failed", TRUE>>} ELSE {})

(* Mutant: the thread is not given free. *)
ProviderAnswersKeepingThread(v, o) ==
    /\ up
    /\ view[v].pc = "asking"
    /\ o \in Outcomes
    /\ Apply(v, <<Turn(v, o[1], o[2])>>)
    /\ UNCHANGED <<asking, building, staged, file, late, loads, up>>

ProviderAnswers(v, o) ==
    /\ up
    /\ view[v].pc = "asking"
    /\ o \in Outcomes
    /\ asking' = None
    /\ Apply(v, <<Turn(v, o[1], o[2])>>)
    /\ UNCHANGED <<building, staged, file, late, loads, up>>

(* Retrying a turn and branching from it put its question back in the draft.  *)
Retry(v, i) ==
    /\ CanUse(v)
    /\ i \in DOMAIN chat.turns
    /\ chat.turns[i].retryable
    /\ Commit([chat EXCEPT !.draft = chat.turns[i].question], None)
    /\ UNCHANGED <<view, asking, building, staged, file, late, loads, up>>

Branch(v, i) ==
    /\ CanUse(v)
    /\ i \in DOMAIN chat.turns
    /\ Commit([chat EXCEPT !.draft = chat.turns[i].question], None)
    /\ UNCHANGED <<view, asking, building, staged, file, late, loads, up>>

-----------------------------------------------------------------------------
(* The session summary *)

CanSummarize(v) == CanUse(v) /\ ~view[v].summing /\ chat.turns # <<>>

SummaryRefused(s) == [s EXCEPT !.status = "failed", !.summing = FALSE]

(* Mutant: the service has no flag of its own. *)
StageSummaryTrustingStore(v) ==
    /\ CanSummarize(v)
    /\ IF store.summing \/ staged > 0
       THEN store' = SummaryRefused(store) /\ UNCHANGED <<view, building>>
       ELSE /\ store' = [store EXCEPT !.status = "staging-summary", !.summing = TRUE]
            /\ building' = building \cup {v}
            /\ view' = [view EXCEPT ![v].summing = TRUE]
    /\ UNCHANGED <<chat, asking, write, staged, file, late, loads, up, behind>>

(* The flag of the store and the flag of the service are asked in turn, and   *)
(* the list for an active change of the note.  A refusal clears the flag of   *)
(* the store, whoever set it.                                                 *)
StageSummary(v) ==
    /\ CanSummarize(v)
    /\ IF store.summing \/ building # {} \/ staged > 0
       THEN store' = SummaryRefused(store) /\ UNCHANGED <<view, building>>
       ELSE /\ store' = [store EXCEPT !.status = "staging-summary", !.summing = TRUE]
            /\ building' = building \cup {v}
            /\ view' = [view EXCEPT ![v].summing = TRUE]
    /\ UNCHANGED <<chat, asking, write, staged, file, late, loads, up, behind>>

(* No source path, or a build that fails. *)
SummaryFails(v) ==
    /\ up
    /\ v \in building
    /\ building' = building \ {v}
    /\ view' = [view EXCEPT ![v].summing = FALSE]
    /\ store' = SummaryRefused(store)
    /\ UNCHANGED <<chat, asking, write, staged, file, late, loads, up, behind>>

SummaryStaged(v) ==
    /\ up
    /\ v \in building
    /\ building' = building \ {v}
    /\ view' = [view EXCEPT ![v].summing = FALSE]
    /\ staged' = staged + 1
    /\ Persist(chat, <<>>, None, [store EXCEPT !.status = "persisted", !.summing = FALSE])
    /\ UNCHANGED <<chat, asking, file, late, loads, up>>

(* The user applies or rejects it. *)
SummaryDecided ==
    /\ up
    /\ staged > 0
    /\ staged' = 0
    /\ UNCHANGED <<chat, view, asking, store, write, building, file, late, loads, up, behind>>

-----------------------------------------------------------------------------
(* Loading and unloading *)

Load ==
    /\ ~up
    /\ loads < MaxLoads
    /\ loads' = loads + 1
    /\ up' = TRUE
    /\ chat' = IF file \in {Missing, Torn} THEN NewChat ELSE Restored(file)
    /\ store' = [NewStore EXCEPT
                    !.status = CASE file = Missing -> "idle"
                                 [] file = Torn -> "failed"
                                 [] file \in Captures -> "restored",
                    !.cached = (file \in Captures)]
    /\ UNCHANGED <<view, asking, write, building, staged, file, late, behind>>

Forget ==
    /\ up
    /\ up' = FALSE
    /\ chat' = NewChat
    /\ view' = [v \in Views |-> NewView]
    /\ asking' = None
    /\ store' = NewStore
    /\ write' = NoWrite
    /\ building' = {}
    /\ staged' = 0
    /\ behind' = FALSE
    /\ UNCHANGED loads

(* A write in flight goes on and may land after the next load. *)
Unload ==
    /\ Forget
    /\ late' = IF write = NoWrite THEN late ELSE late \cup {write.captured}
    /\ UNCHANGED file

(* The process dies: the file is the old one, the new one or a part of it. *)
Crash ==
    /\ Forget
    /\ late' = {}
    /\ file' \in IF write = NoWrite /\ late = {} THEN {file}
                 ELSE {file, Torn} \cup late \cup ({write.captured} \ {Missing})

LateWriteEnds(c) ==
    /\ c \in late
    /\ late' = late \ {c}
    /\ file' \in {file, c}
    /\ behind' = (behind \/ up)
    /\ UNCHANGED <<chat, view, asking, store, write, building, staged, loads, up>>

-----------------------------------------------------------------------------
Next ==
    \/ Load
    \/ Unload
    \/ Crash
    \/ \E c \in late : LateWriteEnds(c)
    \/ PersistInBackground
    \/ WriteLands
    \/ WriteFails
    \/ SummaryDecided
    \/ \E v \in Views :
         \/ Close(v)
         \/ \E d \in Typed : Type(v, d)
         \/ Submit(v)
         \/ \E e \in Evidence : Ask(v, e)
         \/ \E o \in Outcomes : ProviderAnswers(v, o)
         \/ \E i \in DOMAIN chat.turns : Retry(v, i) \/ Branch(v, i)
         \/ StageSummary(v)
         \/ SummaryFails(v)
         \/ SummaryStaged(v)

Spec == Init /\ [][Next]_vars

-----------------------------------------------------------------------------
(* Properties *)

(* Types, and the write flag of the store mirrors the write. *)
TypeOK ==
    /\ chat \in Chats
    /\ view \in [Views -> ViewStates]
    /\ asking \in Views \cup {None}
    /\ store \in StoreStates
    /\ write.captured \in Captures \cup {Missing}
    /\ write.undo = <<>> \/ write.undo[1] \in Chats
    /\ write.by \in Views \cup {None}
    /\ store.writing = (write # NoWrite)
    /\ building \subseteq Views
    /\ staged \in Nat
    /\ file \in Captures \cup {Missing, Torn}
    /\ late \subseteq Captures
    /\ loads \in 0 .. MaxLoads
    /\ up \in BOOLEAN
    /\ behind \in BOOLEAN

(* However the two summary flags are cleared, and by whom, the list never has *)
(* two active changes for the note of the summary                             *)
(* (hot-cache-service.ts, stageSessionSummary).                               *)
OneSummaryPerTarget == staged <= 1

(* When the status view says that recent context is persisted, and no save   *)
(* was refused since, the file holds what a reload needs of the thread as it  *)
(* is, rollbacks included (main.ts, persistHotCache).  While a summary is     *)
(* being staged it may say so without: beginSummaryStaging takes back the     *)
(* message of a write that failed.                                            *)
QuietMeansPersisted ==
    up /\ HotCacheSeverity = "ready" /\ store.status # "staging-summary" /\ ~behind
        => file = Capture(chat)

(* A turn that reached the thread is lost only to a save that failed or to    *)
(* the end of the plugin (chat-thread-store.ts, commit).                      *)
OnlyFailedSavesUndo ==
    [][\A i \in DOMAIN chat.turns :
         \/ i \in DOMAIN chat'.turns /\ chat'.turns[i] = chat.turns[i]
         \/ ~up'
         \/ store.writing /\ store'.status = "failed"]_vars

(* Whoever waits, waits for something that is under way: a view for the       *)
(* write of its commit or for the provider, the thread for a view, the        *)
(* service for a view.  So no failure or refusal leaves a chat busy for ever  *)
(* (chat-view.ts, handleSubmit; grounded-vault-chat-service.ts, ask).         *)
NobodyIsForgotten ==
    /\ \A v \in Views :
         /\ view[v].pc = "applying" => write.by = v /\ write # NoWrite
         /\ view[v].pc = "asking" <=> asking = v
         /\ view[v].summing <=> v \in building
    /\ store.summing => building # {}

=============================================================================

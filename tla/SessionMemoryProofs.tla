------------------------- MODULE SessionMemoryProofs -------------------------
(***************************************************************************)
(* Theorems about SessionMemory: for any number of views and of loads,     *)
(* whatever is typed and asked, and whichever saves fail or are refused.   *)
(***************************************************************************)
EXTENDS SessionMemory, SequenceTheorems, FiniteSetTheorems, TLAPS

(* A thread of any length: how long one becomes is left to TypeOK.          *)
Threads == [draft : Texts, turns : Seq(Turns)]

ThreadWrites ==
    [captured : Captures, undo : {<<>>} \cup {<<c>> : c \in Threads}, by : Views \cup {None}]

(* A view that has asked has something to ask.                              *)
AskViews ==
    {w \in ViewStates : w.pc \in {"saving", "asking"} => w.text \in Drafts}

Files == Captures \cup {Missing, Torn}

MemoryTypes ==
    /\ chat \in Threads
    /\ view \in [Views -> AskViews]
    /\ asking \in Views \cup {None}
    /\ store \in StoreStates
    /\ write \in ThreadWrites \cup {NoWrite}
    /\ building \subseteq Views
    /\ staged \in Nat
    /\ file \in Files
    /\ late \subseteq Captures
    /\ loads \in 0 .. MaxLoads
    /\ up \in BOOLEAN
    /\ behind \in BOOLEAN

(* The flag of the store is up while there is a write.                      *)
WriteIsKnown == store.writing = (write # NoWrite)

(* An unloaded plugin has no thread and no write of its own.                *)
DownIsEmpty == ~up => chat = NewChat /\ write = NoWrite

(* A summary is built for one view, and while none is staged.               *)
OneSummary ==
    /\ \A v, w \in building : v = w
    /\ building # {} => staged = 0
    /\ staged <= 1

(* What was captured is the preview of itself: a restored draft is captured *)
(* as it was found.                                                         *)
IsPreview(c) == c \in Captures => PreviewOf[c.draft] = c.draft

KeptArePreviews ==
    /\ IsPreview(file)
    /\ IsPreview(write.captured)
    /\ \A c \in late : IsPreview(c)

(* Unless a save was refused since, the write in flight is of the thread as *)
(* it is: a rollback ends the write it belongs to.                          *)
WriteIsOfThread == write # NoWrite /\ ~behind => write.captured = Capture(chat)

(* What the memory of the thread has to satisfy, its types apart.           *)
Remembered ==
    WriteIsKnown /\ DownIsEmpty /\ KeptArePreviews /\ WriteIsOfThread /\ QuietMeansPersisted

MemoryInv == MemoryTypes /\ Remembered /\ NobodyIsForgotten /\ OneSummary

-----------------------------------------------------------------------------
(* Captures and writes *)

(* A record of a thread is never the absence of one.                        *)
LEMMA CaptureIsNotLost ==
  ASSUME NEW c \in Captures
  PROVE  c # Missing /\ c # Torn
<1>1. "draft" \in DOMAIN c
  BY DEF Captures
<1>2. "draft" \notin DOMAIN Missing /\ "draft" \notin DOMAIN Torn
  BY DEF Missing, Torn
<1> QED
  BY <1>1, <1>2

(* What is captured of a thread is a capture, and the preview of itself.    *)
LEMMA CaptureIsPreview ==
  ASSUME NEW c, c.draft \in Texts
  PROVE  Capture(c) \in Captures /\ IsPreview(Capture(c))
<1>1. PreviewOf[c.draft] \in Texts
  BY PreviewsAreDrafts DEF Texts
<1>2. PreviewOf[PreviewOf[c.draft]] = PreviewOf[c.draft]
  BY PreviewsAreKept, PreviewOfNothing DEF Texts
<1> QED
  BY <1>1, <1>2 DEF Capture, Captures, IsPreview

LEMMA NothingIsCaptured == NoWrite.captured = Missing
BY DEF NoWrite

LEMMA MissingIsPreview == IsPreview(Missing) /\ IsPreview(Torn)
BY CaptureIsNotLost DEF IsPreview

LEMMA NewStateIsTyped ==
  /\ NewChat \in Threads
  /\ NewView \in AskViews
  /\ NewView.pc = "idle" /\ NewView.summing = FALSE
  /\ NewStore \in StoreStates
  /\ NewStore.summing = FALSE /\ NewStore.writing = FALSE /\ NewStore.cached = FALSE
BY DEF NewChat, Threads, NewView, AskViews, ViewStates, NewStore, StoreStates, Texts

(* What a view is after its question: idle, what it summarizes untouched.   *)
LEMMA IdleIsTyped ==
  ASSUME NEW w \in AskViews
  PROVE  /\ Idle(w) \in AskViews
         /\ Idle(w).pc = "idle" /\ Idle(w).summing = w.summing
BY DEF Idle, AskViews, ViewStates, Texts

(* The cache is well only when it is written, and nothing is being written. *)
LEMMA ReadySeverity ==
  HotCacheSeverity = "ready" => store.status # "failed" /\ ~store.writing /\ store.cached
BY DEF HotCacheSeverity

LEMMA ReadySeverityNext ==
  HotCacheSeverity' = "ready" => store'.status # "failed" /\ ~store'.writing /\ store'.cached
BY DEF HotCacheSeverity

(* A store that is well and not writing is what the severity calls ready.   *)
LEMMA SeverityReady ==
  ASSUME store.status # "failed", ~store.writing, store.cached
  PROVE  HotCacheSeverity = "ready"
BY DEF HotCacheSeverity

LEMMA PersistEffect ==
  ASSUME MemoryTypes, WriteIsKnown, NEW next \in Threads,
         NEW undo \in {<<>>} \cup {<<c>> : c \in Threads},
         NEW by \in Views \cup {None}, NEW s \in StoreStates,
         s.writing = store.writing, Persist(next, undo, by, s)
  PROVE  /\ store' \in StoreStates /\ write' \in ThreadWrites
         /\ behind' \in BOOLEAN
         /\ store'.writing /\ write' # NoWrite
         /\ store'.summing = s.summing
         /\ behind' \/ write'.captured = Capture(next)
         /\ write'.captured \in {write.captured, Capture(next)}
         /\ IF store.writing THEN write' = write /\ write # NoWrite
            ELSE write'.by = by /\ write = NoWrite
<1>1. next.draft \in Texts
  BY DEF Threads
<1>2. CASE s.writing
  <2>1. write # NoWrite /\ write \in ThreadWrites
    BY <1>2 DEF MemoryTypes, WriteIsKnown, StoreStates
  <2> QED
    BY <1>2, <2>1 DEF Persist
<1>3. CASE ~s.writing
  <2>1. write = NoWrite
    BY <1>3 DEF WriteIsKnown
  <2>2. /\ write' = [captured |-> Capture(next), undo |-> undo, by |-> by]
        /\ store' = [s EXCEPT !.status = "capturing", !.writing = TRUE]
        /\ behind' = FALSE
    BY <1>3 DEF Persist
  <2>3. Capture(next) \in Captures /\ Capture(next) # Missing
    BY <1>1, CaptureIsPreview, CaptureIsNotLost
  <2>4. write' # NoWrite
    BY <2>2, <2>3, NothingIsCaptured
  <2>5. write' \in ThreadWrites
    BY <2>2, <2>3 DEF ThreadWrites
  <2>6. /\ store' \in StoreStates /\ store'.writing = TRUE /\ store'.summing = s.summing
    BY <2>2 DEF StoreStates
  <2>7. write'.captured = Capture(next) /\ write'.by = by
    BY <2>2
  <2> QED
    BY <1>3, <2>1, <2>2, <2>4, <2>5, <2>6, <2>7
<1> QED
  BY <1>2, <1>3

(* A save, begun or refused, of the thread as it is from now on.            *)
LEMMA PersistRemembers ==
  ASSUME MemoryTypes, Remembered, NEW next \in Threads,
         NEW undo \in {<<>>} \cup {<<c>> : c \in Threads},
         NEW by \in Views \cup {None}, NEW s \in StoreStates,
         s.writing = store.writing, Persist(next, undo, by, s),
         chat' = next, up, up' = up, file' = file, late' = late
  PROVE  Remembered'
<1>1. /\ store' \in StoreStates /\ store'.writing /\ write' # NoWrite
      /\ behind' \/ write'.captured = Capture(next)
      /\ write'.captured \in {write.captured, Capture(next)}
  BY PersistEffect DEF Remembered
<1>2. WriteIsKnown'
  BY <1>1 DEF WriteIsKnown, StoreStates
<1>3. DownIsEmpty'
  BY DEF DownIsEmpty
<1>4. KeptArePreviews'
  <2>1. IsPreview(Capture(next))
    BY CaptureIsPreview DEF Threads
  <2> QED
    BY <1>1, <2>1 DEF Remembered, KeptArePreviews
<1>5. WriteIsOfThread'
  BY <1>1 DEF WriteIsOfThread
<1>6. QuietMeansPersisted'
  BY <1>1, ReadySeverityNext DEF QuietMeansPersisted
<1> QED
  BY <1>2, <1>3, <1>4, <1>5, <1>6 DEF Remembered

(* A step that leaves the thread, the write and the record alone, and the   *)
(* store no better than it was.                                             *)
LEMMA StillRemembers ==
  ASSUME Remembered, UNCHANGED <<chat, write, file, late, up, behind>>,
         store'.writing = store.writing,
         \/ store'.status \in {"failed", "staging-summary"}
         \/ store' = store
  PROVE  Remembered'
<1>1. WriteIsKnown' /\ DownIsEmpty' /\ KeptArePreviews' /\ WriteIsOfThread'
  BY DEF Remembered, WriteIsKnown, DownIsEmpty, KeptArePreviews, WriteIsOfThread
<1>2. QuietMeansPersisted'
  <2>1. CASE store' = store
    BY <2>1 DEF Remembered, QuietMeansPersisted, HotCacheSeverity
  <2>2. CASE store'.status \in {"failed", "staging-summary"}
    BY <2>2, ReadySeverityNext DEF QuietMeansPersisted
  <2> QED
    BY <2>1, <2>2
<1> QED
  BY <1>1, <1>2 DEF Remembered

-----------------------------------------------------------------------------
(* The steps of the write *)

(* One view changes, and whoever waits for a write or a provider still has  *)
(* it.                                                                      *)
LEMMA ViewWaits ==
  ASSUME MemoryTypes, NobodyIsForgotten, NEW v \in Views, NEW w \in AskViews,
         view' = [view EXCEPT ![v] = w],
         w.pc = "applying" => write'.by = v /\ write' # NoWrite,
         \A u \in Views \ {v} : view[u].pc = "applying" =>
             write'.by = u /\ write' # NoWrite,
         \A u \in Views \ {v} : asking' = u <=> asking = u,
         w.pc = "asking" <=> asking' = v,
         \A u \in Views \ {v} : u \in building' <=> u \in building,
         w.summing <=> v \in building',
         store'.summing => building' # {}
  PROVE  NobodyIsForgotten'
<1>1. /\ view'[v] = w
      /\ \A u \in Views \ {v} : view'[u] = view[u]
  BY DEF MemoryTypes
<1> QED
  BY <1>1 DEF NobodyIsForgotten

(* A save for another view, or refused, takes no write from who waits.      *)
LEMMA WaitingKeepWrite ==
  ASSUME MemoryTypes, WriteIsKnown, NobodyIsForgotten,
         store.writing => write' = write, NEW u \in Views, view[u].pc = "applying"
  PROVE  write'.by = u /\ write' # NoWrite
BY DEF WriteIsKnown, NobodyIsForgotten

LEMMA PersistInBackgroundInv ==
  ASSUME MemoryInv, PersistInBackground
  PROVE  MemoryInv'
<1>1. MemoryTypes /\ Remembered /\ WriteIsKnown /\ chat \in Threads /\ store \in StoreStates
  BY DEF MemoryInv, Remembered, MemoryTypes
<1>2. /\ up /\ Persist(chat, <<>>, None, store)
      /\ UNCHANGED <<chat, view, asking, building, staged, file, late, loads, up>>
  BY DEF PersistInBackground
<1>3. Remembered'
  BY <1>1, <1>2, PersistRemembers
<1>4. /\ store' \in StoreStates /\ write' \in ThreadWrites /\ behind' \in BOOLEAN
      /\ store'.summing = store.summing
      /\ store.writing => write' = write
  BY <1>1, <1>2, PersistEffect
<1>5. MemoryTypes'
  BY <1>1, <1>2, <1>4 DEF MemoryTypes
<1>6. NobodyIsForgotten'
  <2>1. \A u \in Views : view[u].pc = "applying" => write'.by = u /\ write' # NoWrite
    BY <1>1, <1>4, WaitingKeepWrite DEF MemoryInv
  <2> QED
    BY <1>2, <1>4, <2>1 DEF MemoryInv, NobodyIsForgotten
<1>7. OneSummary'
  BY <1>2 DEF MemoryInv, OneSummary
<1> QED
  BY <1>3, <1>5, <1>6, <1>7 DEF MemoryInv

(* The end of a write, whichever way: the view that waited for it is idle.  *)
LEMMA EndWriteEffect ==
  ASSUME MemoryInv, EndWrite
  PROVE  /\ view' \in [Views -> AskViews]
         /\ \A v \in Views : view'[v].pc # "applying"
         /\ \A v \in Views : view'[v].pc = "asking" <=> view[v].pc = "asking"
         /\ \A v \in Views : view'[v].summing = view[v].summing
<1> SUFFICES ASSUME NEW v \in Views
             PROVE  /\ view'[v] \in AskViews
                    /\ view'[v].pc # "applying"
                    /\ view'[v].pc = "asking" <=> view[v].pc = "asking"
                    /\ view'[v].summing = view[v].summing
  BY DEF EndWrite
<1>1. view[v] \in AskViews
  BY DEF MemoryInv, MemoryTypes
<1>2. view'[v] = IF v = write.by /\ view[v].pc = "applying" THEN Idle(view[v]) ELSE view[v]
  BY DEF EndWrite
<1>3. view[v].pc = "applying" => write.by = v
  BY DEF MemoryInv, NobodyIsForgotten
<1> QED
  BY <1>1, <1>2, <1>3, IdleIsTyped

LEMMA EndWriteInv ==
  ASSUME MemoryInv, EndWrite, store' \in StoreStates, chat' \in Threads, file' \in Files,
         store'.summing => store.summing
  PROVE  MemoryTypes' /\ NobodyIsForgotten' /\ OneSummary'
<1>1. /\ write' = NoWrite
      /\ UNCHANGED <<asking, building, staged, late, loads, up, behind>>
  BY DEF EndWrite
<1>2. MemoryTypes'
  BY <1>1, EndWriteEffect DEF MemoryInv, MemoryTypes
<1>3. NobodyIsForgotten'
  BY <1>1, EndWriteEffect DEF MemoryInv, NobodyIsForgotten
<1>4. OneSummary'
  BY <1>1 DEF MemoryInv, OneSummary
<1> QED
  BY <1>2, <1>3, <1>4

LEMMA WriteIsCapture ==
  ASSUME MemoryTypes, write # NoWrite
  PROVE  write \in ThreadWrites /\ write.captured \in Captures
BY DEF MemoryTypes, ThreadWrites

LEMMA WriteLandsInv ==
  ASSUME MemoryInv, WriteLands
  PROVE  MemoryInv'
<1>1. /\ EndWrite /\ write # NoWrite /\ write' = NoWrite
      /\ file' = write.captured /\ chat' = chat
      /\ store' = [store EXCEPT !.status = "persisted", !.writing = FALSE, !.cached = TRUE]
      /\ UNCHANGED <<late, up, behind>>
  BY DEF WriteLands, EndWrite
<1>2. /\ write.captured \in Captures /\ chat \in Threads /\ store \in StoreStates
  BY <1>1, WriteIsCapture DEF MemoryInv, MemoryTypes
<1>3. store' \in StoreStates /\ store'.summing = store.summing /\ store'.writing = FALSE
  BY <1>1, <1>2 DEF StoreStates
<1>4. MemoryTypes' /\ NobodyIsForgotten' /\ OneSummary'
  BY <1>1, <1>2, <1>3, EndWriteInv DEF Files
<1>5. WriteIsKnown' /\ WriteIsOfThread'
  BY <1>1, <1>3 DEF WriteIsKnown, WriteIsOfThread
<1>6. DownIsEmpty'
  BY <1>1 DEF MemoryInv, Remembered, DownIsEmpty
<1>7. KeptArePreviews'
  BY <1>1, NothingIsCaptured, MissingIsPreview DEF MemoryInv, Remembered, KeptArePreviews
<1>8. QuietMeansPersisted'
  BY <1>1 DEF MemoryInv, Remembered, WriteIsOfThread, QuietMeansPersisted, Capture
<1> QED
  BY <1>4, <1>5, <1>6, <1>7, <1>8 DEF MemoryInv, Remembered

LEMMA WriteFailsInv ==
  ASSUME MemoryInv, WriteFails
  PROVE  MemoryInv'
<1>1. /\ EndWrite /\ write # NoWrite /\ write' = NoWrite /\ file' = file
      /\ store' = [store EXCEPT !.status = "failed", !.writing = FALSE, !.summing = FALSE]
      /\ chat' = IF write.undo = <<>> THEN chat ELSE write.undo[1]
      /\ UNCHANGED <<late, up, behind>>
  BY DEF WriteFails, EndWrite
<1>2. /\ write \in ThreadWrites /\ chat \in Threads /\ store \in StoreStates /\ file \in Files
  BY <1>1, WriteIsCapture DEF MemoryInv, MemoryTypes
<1>3. /\ store' \in StoreStates /\ store'.summing = FALSE /\ store'.writing = FALSE
      /\ store'.status = "failed"
  BY <1>1, <1>2 DEF StoreStates
<1>4. chat' \in Threads
  <2>1. write.undo \in {<<>>} \cup {<<c>> : c \in Threads}
    BY <1>2 DEF ThreadWrites
  <2>2. CASE write.undo = <<>>
    BY <1>1, <1>2, <2>2
  <2>3. CASE write.undo # <<>>
    <3>1. PICK c \in Threads : write.undo = <<c>>
      BY <2>1, <2>3
    <3> QED
      BY <1>1, <2>3, <3>1
  <2> QED
    BY <2>2, <2>3
<1>5. MemoryTypes' /\ NobodyIsForgotten' /\ OneSummary'
  BY <1>1, <1>2, <1>3, <1>4, EndWriteInv
<1>6. WriteIsKnown' /\ WriteIsOfThread'
  BY <1>1, <1>3 DEF WriteIsKnown, WriteIsOfThread
<1>7. DownIsEmpty'
  BY <1>1 DEF MemoryInv, Remembered, DownIsEmpty
<1>8. KeptArePreviews'
  BY <1>1, NothingIsCaptured, MissingIsPreview DEF MemoryInv, Remembered, KeptArePreviews
<1>9. QuietMeansPersisted'
  BY <1>3, ReadySeverityNext DEF QuietMeansPersisted
<1> QED
  BY <1>5, <1>6, <1>7, <1>8, <1>9 DEF MemoryInv, Remembered

-----------------------------------------------------------------------------
(* The steps of the thread *)

(* A commit: the thread is typed if what it becomes is, and it is saved, or *)
(* the save is refused.                                                     *)
LEMMA CommitEffect ==
  ASSUME MemoryTypes, Remembered, NEW next \in Threads, NEW by \in Views \cup {None},
         Commit(next, by), up, up' = up, file' = file, late' = late
  PROVE  /\ Remembered'
         /\ chat' \in Threads /\ store' \in StoreStates /\ write' \in ThreadWrites
         /\ behind' \in BOOLEAN
         /\ store'.summing = store.summing
         /\ store.writing => write' = write
         /\ ~store.writing => write'.by = by
         /\ write' # NoWrite
<1>1. chat \in Threads /\ store \in StoreStates /\ WriteIsKnown
  BY DEF MemoryTypes, Remembered
<1>2. <<chat>> \in {<<>>} \cup {<<c>> : c \in Threads}
  BY <1>1
<1>3. chat' = next /\ Persist(next, <<chat>>, by, store)
  BY DEF Commit
<1>4. Remembered'
  BY <1>1, <1>2, <1>3, PersistRemembers
<1>5. /\ store' \in StoreStates /\ write' \in ThreadWrites /\ behind' \in BOOLEAN
      /\ store'.summing = store.summing /\ write' # NoWrite
      /\ IF store.writing THEN write' = write /\ write # NoWrite
         ELSE write'.by = by /\ write = NoWrite
  BY <1>1, <1>2, <1>3, PersistEffect
<1> QED
  BY <1>3, <1>4, <1>5

(* A commit that no view waits for.                                         *)
LEMMA CommitForNobodyInv ==
  ASSUME MemoryInv, up, NEW next \in Threads, Commit(next, None),
         UNCHANGED <<view, asking, building, staged, file, late, loads, up>>
  PROVE  MemoryInv'
<1>1. MemoryTypes /\ Remembered /\ WriteIsKnown /\ NobodyIsForgotten
  BY DEF MemoryInv, Remembered
<1>2. /\ Remembered'
      /\ chat' \in Threads /\ store' \in StoreStates /\ write' \in ThreadWrites
      /\ behind' \in BOOLEAN
      /\ store'.summing = store.summing
      /\ store.writing => write' = write
  BY <1>1, CommitEffect
<1>3. MemoryTypes'
  BY <1>1, <1>2 DEF MemoryTypes
<1>4. NobodyIsForgotten'
  <2>1. \A u \in Views : view[u].pc = "applying" => write'.by = u /\ write' # NoWrite
    BY <1>1, <1>2, WaitingKeepWrite
  <2> QED
    BY <1>1, <1>2, <2>1 DEF NobodyIsForgotten
<1>5. OneSummary'
  BY DEF MemoryInv, OneSummary
<1> QED
  BY <1>2, <1>3, <1>4, <1>5 DEF MemoryInv

LEMMA TypeInv ==
  ASSUME MemoryInv, NEW v \in Views, NEW d \in Typed, Type(v, d)
  PROVE  MemoryInv'
<1>1. [chat EXCEPT !.draft = d] \in Threads
  BY TypedAreTexts DEF MemoryInv, MemoryTypes, Threads, Texts
<1> QED
  BY <1>1, CommitForNobodyInv DEF Type, CanUse

(* The question of a turn is put back in the draft.                         *)
LEMMA QuestionAgainInv ==
  ASSUME MemoryInv, up, NEW i \in DOMAIN chat.turns,
         Commit([chat EXCEPT !.draft = chat.turns[i].question], None),
         UNCHANGED <<view, asking, building, staged, file, late, loads, up>>
  PROVE  MemoryInv'
<1>1. chat \in Threads
  BY DEF MemoryInv, MemoryTypes
<1>2. chat.turns[i].question \in Texts
  <2>1. chat.turns \in Seq(Turns)
    BY <1>1 DEF Threads
  <2>2. chat.turns[i] \in Turns
    BY <2>1, ElementOfSeq
  <2> QED
    BY <2>2 DEF Turns, Texts
<1>3. [chat EXCEPT !.draft = chat.turns[i].question] \in Threads
  BY <1>1, <1>2 DEF Threads
<1> QED
  BY <1>3, CommitForNobodyInv

LEMMA RetryInv ==
  ASSUME MemoryInv, NEW v \in Views, NEW i \in DOMAIN chat.turns, Retry(v, i)
  PROVE  MemoryInv'
BY QuestionAgainInv DEF Retry, CanUse

LEMMA BranchInv ==
  ASSUME MemoryInv, NEW v \in Views, NEW i \in DOMAIN chat.turns, Branch(v, i)
  PROVE  MemoryInv'
BY QuestionAgainInv DEF Branch, CanUse

LEMMA SubmitInv ==
  ASSUME MemoryInv, NEW v \in Views, Submit(v)
  PROVE  MemoryInv'
<1>1. MemoryTypes /\ Remembered /\ WriteIsKnown /\ NobodyIsForgotten
  BY DEF MemoryInv, Remembered
<1>2. /\ up /\ view[v].pc = "idle" /\ chat.draft # None /\ Commit(chat, v)
      /\ view' = [view EXCEPT ![v].pc = "saving", ![v].text = chat.draft]
      /\ UNCHANGED <<asking, building, staged, file, late, loads, up>>
  BY DEF Submit, CanUse
<1>3. chat \in Threads /\ chat.draft \in Texts /\ view \in [Views -> AskViews]
  BY <1>1 DEF MemoryTypes, Threads
<1>4. /\ Remembered'
      /\ chat' \in Threads /\ store' \in StoreStates /\ write' \in ThreadWrites
      /\ behind' \in BOOLEAN
      /\ store'.summing = store.summing
      /\ store.writing => write' = write
  BY <1>1, <1>2, <1>3, CommitEffect
<1> DEFINE w == [view[v] EXCEPT !.pc = "saving", !.text = chat.draft]
<1>5. w \in AskViews /\ w.pc = "saving" /\ w.summing = view[v].summing
  BY <1>2, <1>3 DEF Texts, AskViews, ViewStates
<1>6. view' = [view EXCEPT ![v] = w]
  BY <1>2
<1> HIDE DEF w
<1>7. MemoryTypes'
  BY <1>1, <1>2, <1>3, <1>4, <1>5, <1>6 DEF MemoryTypes
<1>8. NobodyIsForgotten'
  <2>1. \A u \in Views : view[u].pc = "applying" => write'.by = u /\ write' # NoWrite
    BY <1>1, <1>4, WaitingKeepWrite
  <2>2. asking # v /\ (view[v].summing <=> v \in building)
    BY <1>1, <1>2 DEF NobodyIsForgotten
  <2>3. store'.summing => building # {}
    BY <1>1, <1>4 DEF NobodyIsForgotten
  <2>4. \A u \in Views \ {v} :
            /\ view[u].pc = "applying" => write'.by = u /\ write' # NoWrite
            /\ asking' = u <=> asking = u
            /\ u \in building' <=> u \in building
    BY <1>2, <2>1
  <2>5. /\ w.pc = "asking" <=> asking' = v
        /\ w.summing <=> v \in building'
        /\ w.pc # "applying"
        /\ store'.summing => building' # {}
    BY <1>2, <1>5, <2>2, <2>3
  <2> QED
    BY <1>1, <1>5, <1>6, <2>4, <2>5, ViewWaits
<1>9. OneSummary'
  BY <1>2 DEF MemoryInv, OneSummary
<1> QED
  BY <1>4, <1>7, <1>8, <1>9 DEF MemoryInv

LEMMA CloseInv ==
  ASSUME MemoryInv, NEW v \in Views, Close(v)
  PROVE  MemoryInv'
<1>1. /\ UNCHANGED <<chat, asking, store, write, building, staged, file, late, loads, up, behind>>
      /\ view' = [view EXCEPT ![v].open = FALSE]
  BY DEF Close
<1>2. MemoryTypes
  BY DEF MemoryInv
<1> DEFINE w == [view[v] EXCEPT !.open = FALSE]
<1>3. w \in AskViews /\ w.pc = view[v].pc /\ w.summing = view[v].summing
  BY <1>2 DEF MemoryTypes, AskViews, ViewStates
<1>4. view' = [view EXCEPT ![v] = w]
  BY <1>1
<1> HIDE DEF w
<1>5. MemoryTypes'
  BY <1>1, <1>2, <1>3, <1>4 DEF MemoryTypes
<1>6. \A u \in Views : view'[u].pc = view[u].pc /\ view'[u].summing = view[u].summing
  BY <1>2, <1>3, <1>4 DEF MemoryTypes
<1>7. NobodyIsForgotten'
  BY <1>1, <1>6 DEF MemoryInv, NobodyIsForgotten
<1>8. Remembered'
  BY <1>1, StillRemembers DEF MemoryInv
<1>9. OneSummary'
  BY <1>1 DEF MemoryInv, OneSummary
<1> QED
  BY <1>5, <1>7, <1>8, <1>9 DEF MemoryInv

(* The result of a question reaches a view that no write serves.            *)
LEMMA ApplyEffect ==
  ASSUME MemoryTypes, Remembered, NobodyIsForgotten, NEW v \in Views,
         NEW new \in Seq(Turns), Apply(v, new), view[v].pc \in {"saving", "asking"},
         up, up' = up, file' = file, late' = late,
         UNCHANGED <<building, staged, loads>>,
         asking' \in Views \cup {None}, asking' # v,
         \A u \in Views \ {v} : asking' = u <=> asking = u
  PROVE  MemoryTypes' /\ Remembered' /\ NobodyIsForgotten'
<1>1. /\ view[v] \in AskViews /\ chat \in Threads /\ store \in StoreStates
      /\ view \in [Views -> AskViews]
  BY DEF MemoryTypes
<1>2. Idle(view[v]) \in AskViews /\ Idle(view[v]).pc = "idle"
      /\ Idle(view[v]).summing = view[v].summing
  BY <1>1, IdleIsTyped
<1>3. view[v].summing <=> v \in building
  BY DEF NobodyIsForgotten
<1>4. \A u \in Views : view[u].pc = "applying" => write.by = u /\ write # NoWrite
  BY DEF NobodyIsForgotten
<1>5. store.summing => building # {}
  BY DEF NobodyIsForgotten
<1>6. CASE ~view[v].open
  <2>1. /\ view' = [view EXCEPT ![v] = Idle(view[v])]
        /\ UNCHANGED <<chat, store, write, behind>>
    BY <1>6 DEF Apply
  <2>2. MemoryTypes'
    BY <1>1, <1>2, <2>1 DEF MemoryTypes
  <2>3. Remembered'
    BY <2>1, StillRemembers
  <2>4. NobodyIsForgotten'
    <3>1. \A u \in Views \ {v} :
            /\ view[u].pc = "applying" => write'.by = u /\ write' # NoWrite
            /\ asking' = u <=> asking = u
            /\ u \in building' <=> u \in building
      BY <1>4, <2>1
    <3>2. /\ Idle(view[v]).pc = "asking" <=> asking' = v
          /\ Idle(view[v]).summing <=> v \in building'
          /\ Idle(view[v]).pc # "applying"
          /\ store'.summing => building' # {}
      BY <1>2, <1>3, <1>5, <2>1
    <3> QED
      BY <1>2, <2>1, <3>1, <3>2, ViewWaits
  <2> QED
    BY <2>2, <2>3, <2>4
<1>7. CASE view[v].open
  <2> DEFINE next == [chat EXCEPT
                      !.turns = @ \o new,
                      !.draft = IF \E i \in DOMAIN new : new[i].status = "answer-ready"
                                THEN None ELSE @]
             w == IF store.writing THEN Idle(view[v]) ELSE [Idle(view[v]) EXCEPT !.pc = "applying"]
  <2>1. Commit(next, v) /\ view' = [view EXCEPT ![v] = w]
    BY <1>7 DEF Apply
  <2>2. next \in Threads
    <3>1. chat.turns \o new \in Seq(Turns)
      BY <1>1 DEF Threads
    <3>2. chat.draft \in Texts /\ None \in Texts
      BY <1>1 DEF Threads, Texts
    <3> QED
      BY <1>1, <3>1, <3>2 DEF Threads
  <2>3. /\ w \in AskViews /\ w.summing = view[v].summing
        /\ w.pc = IF store.writing THEN "idle" ELSE "applying"
    BY <1>2 DEF AskViews, ViewStates
  <2> HIDE DEF next, w
  <2>4. /\ Remembered'
        /\ chat' \in Threads /\ store' \in StoreStates /\ write' \in ThreadWrites
        /\ behind' \in BOOLEAN
        /\ store'.summing = store.summing
        /\ store.writing => write' = write
        /\ ~store.writing => write'.by = v
        /\ write' # NoWrite
    BY <2>1, <2>2, CommitEffect
  <2>5. MemoryTypes'
    BY <1>1, <2>1, <2>3, <2>4 DEF MemoryTypes
  <2>6. NobodyIsForgotten'
    <3>1. WriteIsKnown
      BY DEF Remembered
    <3>2. \A u \in Views \ {v} :
            /\ view[u].pc = "applying" => write'.by = u /\ write' # NoWrite
            /\ asking' = u <=> asking = u
            /\ u \in building' <=> u \in building
      BY <2>4, <3>1, WaitingKeepWrite
    <3>3. /\ w.pc = "asking" <=> asking' = v
          /\ w.summing <=> v \in building'
          /\ w.pc = "applying" => write'.by = v /\ write' # NoWrite
          /\ store'.summing => building' # {}
      BY <1>3, <1>5, <2>3, <2>4
    <3> QED
      BY <2>1, <2>3, <3>2, <3>3, ViewWaits
  <2> QED
    BY <2>4, <2>5, <2>6
<1> QED
  BY <1>6, <1>7

LEMMA TurnIsTurn ==
  ASSUME NEW v \in Views, view[v].text \in Drafts, NEW s \in TurnStatuses, NEW r \in BOOLEAN
  PROVE  <<Turn(v, s, r)>> \in Seq(Turns)
BY DEF Turn, Turns

(* A question that no provider is asked becomes a turn at once.             *)
LEMMA VerdictIsTurn ==
  ASSUME NEW v \in Views, view[v].text \in Drafts, NEW e, Verdict(e) # "synthesizing"
  PROVE  <<Turn(v, Verdict(e), RetryableAfter(e))>> \in Seq(Turns)
<1>1. Verdict(e) \in TurnStatuses
  BY DEF Verdict, TurnStatuses
<1>2. RetryableAfter(e) \in BOOLEAN
  BY DEF RetryableAfter
<1> QED
  BY <1>1, <1>2, TurnIsTurn

(* And so does what a provider makes of it.                                 *)
LEMMA OutcomeIsTurn ==
  ASSUME NEW o \in Outcomes
  PROVE  o[1] \in TurnStatuses /\ o[2] \in BOOLEAN
<1>1. \/ o = <<"failed", FALSE>>
      \/ o = <<"answer-ready", FALSE>>
      \/ o = <<"failed", TRUE>>
  BY DEF Outcomes
<1>2. CASE o = <<"failed", FALSE>>
  BY <1>2 DEF TurnStatuses
<1>3. CASE o = <<"answer-ready", FALSE>>
  BY <1>3 DEF TurnStatuses
<1>4. CASE o = <<"failed", TRUE>>
  BY <1>4 DEF TurnStatuses
<1> QED
  BY <1>1, <1>2, <1>3, <1>4

(* An active change of the summary does not depend on the thread.           *)
LEMMA SummaryUntouched ==
  ASSUME OneSummary, UNCHANGED <<building, staged>>
  PROVE  OneSummary'
BY DEF OneSummary

LEMMA AskInv ==
  ASSUME MemoryInv, NEW v \in Views, NEW e \in Evidence, Ask(v, e)
  PROVE  MemoryInv'
<1>1. MemoryTypes /\ Remembered /\ WriteIsKnown /\ NobodyIsForgotten /\ OneSummary
  BY DEF MemoryInv, Remembered
<1>2. /\ up /\ view[v].pc = "saving"
      /\ UNCHANGED <<building, staged, file, late, loads, up>>
  BY DEF Ask
<1>3. /\ view \in [Views -> AskViews] /\ view[v].text \in Drafts
      /\ asking \in Views \cup {None} /\ asking # v
  BY <1>1, <1>2 DEF MemoryTypes, AskViews, NobodyIsForgotten
<1>4. OneSummary'
  BY <1>1, <1>2, SummaryUntouched
<1>5. CASE \E new \in Seq(Turns) : Apply(v, new) /\ asking' = asking
  <2>1. PICK new \in Seq(Turns) : Apply(v, new) /\ asking' = asking
    BY <1>5
  <2> QED
    BY <1>1, <1>2, <1>3, <1>4, <2>1, ApplyEffect DEF MemoryInv
<1>6. CASE /\ asking = None /\ asking' = v
           /\ view' = [view EXCEPT ![v].pc = "asking"]
           /\ UNCHANGED <<chat, store, write, behind>>
  <2> DEFINE w == [view[v] EXCEPT !.pc = "asking"]
  <2>1. w \in AskViews /\ w.pc = "asking" /\ w.summing = view[v].summing
    BY <1>3 DEF AskViews, ViewStates
  <2>2. view' = [view EXCEPT ![v] = w]
    BY <1>6
  <2> HIDE DEF w
  <2>3. MemoryTypes'
    BY <1>1, <1>2, <1>6, <2>1, <2>2 DEF MemoryTypes
  <2>4. Remembered'
    BY <1>1, <1>2, <1>6, StillRemembers
  <2>5. NobodyIsForgotten'
    <3>1. \A u \in Views \ {v} :
            /\ view[u].pc = "applying" => write'.by = u /\ write' # NoWrite
            /\ asking' = u <=> asking = u
            /\ u \in building' <=> u \in building
      BY <1>1, <1>2, <1>6, NoneIsNothing DEF NobodyIsForgotten
    <3>2. /\ w.pc = "asking" <=> asking' = v
          /\ w.summing <=> v \in building'
          /\ w.pc # "applying"
          /\ store'.summing => building' # {}
      BY <1>1, <1>2, <1>6, <2>1 DEF NobodyIsForgotten
    <3> QED
      BY <1>1, <2>1, <2>2, <3>1, <3>2, ViewWaits
  <2> QED
    BY <1>4, <2>3, <2>4, <2>5 DEF MemoryInv
<1>7. /\ <<>> \in Seq(Turns)
      /\ Verdict(e) # "synthesizing"
            => <<Turn(v, Verdict(e), RetryableAfter(e))>> \in Seq(Turns)
  BY <1>3, VerdictIsTurn
<1> QED
  BY <1>5, <1>6, <1>7 DEF Ask

LEMMA ProviderAnswersInv ==
  ASSUME MemoryInv, NEW v \in Views, NEW o \in Outcomes, ProviderAnswers(v, o)
  PROVE  MemoryInv'
<1>1. MemoryTypes /\ Remembered /\ NobodyIsForgotten /\ OneSummary
  BY DEF MemoryInv
<1>2. /\ up /\ view[v].pc = "asking" /\ asking' = None
      /\ Apply(v, <<Turn(v, o[1], o[2])>>)
      /\ UNCHANGED <<building, staged, file, late, loads, up>>
  BY DEF ProviderAnswers
<1>3. view[v].text \in Drafts /\ asking = v
  BY <1>1, <1>2 DEF MemoryTypes, AskViews, NobodyIsForgotten
<1>4. <<Turn(v, o[1], o[2])>> \in Seq(Turns)
  BY <1>3, OutcomeIsTurn, TurnIsTurn
<1>5. /\ asking' \in Views \cup {None} /\ asking' # v
      /\ \A u \in Views \ {v} : asking' = u <=> asking = u
  BY <1>2, <1>3, NoneIsNothing
<1>6. MemoryTypes' /\ Remembered' /\ NobodyIsForgotten'
  BY <1>1, <1>2, <1>4, <1>5, ApplyEffect
<1> QED
  BY <1>1, <1>2, <1>6, SummaryUntouched DEF MemoryInv

-----------------------------------------------------------------------------
(* The steps of the summary *)

LEMMA RefusedStore ==
  ASSUME NEW s \in StoreStates
  PROVE  /\ SummaryRefused(s) \in StoreStates
         /\ SummaryRefused(s).status = "failed" /\ SummaryRefused(s).summing = FALSE
         /\ SummaryRefused(s).writing = s.writing
BY DEF SummaryRefused, StoreStates

LEMMA StageSummaryInv ==
  ASSUME MemoryInv, NEW v \in Views, StageSummary(v)
  PROVE  MemoryInv'
<1>1. MemoryTypes /\ Remembered /\ NobodyIsForgotten /\ OneSummary
  BY DEF MemoryInv
<1>2. store \in StoreStates /\ view \in [Views -> AskViews] /\ building \subseteq Views
  BY <1>1 DEF MemoryTypes
<1>3. UNCHANGED <<chat, asking, write, staged, file, late, loads, up, behind>>
  BY DEF StageSummary
<1>4. CASE store.summing \/ building # {} \/ staged > 0
  <2>1. store' = SummaryRefused(store) /\ UNCHANGED <<view, building>>
    BY <1>4 DEF StageSummary
  <2>2. store' \in StoreStates /\ store'.status = "failed" /\ store'.summing = FALSE
        /\ store'.writing = store.writing
    BY <1>2, <2>1, RefusedStore
  <2>3. MemoryTypes'
    BY <1>1, <1>3, <2>1, <2>2 DEF MemoryTypes
  <2>4. Remembered'
    BY <1>1, <1>3, <2>2, StillRemembers
  <2>5. NobodyIsForgotten' /\ OneSummary'
    BY <1>1, <1>3, <2>1, <2>2 DEF NobodyIsForgotten, OneSummary
  <2> QED
    BY <2>3, <2>4, <2>5 DEF MemoryInv
<1>5. CASE ~(store.summing \/ building # {} \/ staged > 0)
  <2>1. /\ store' = [store EXCEPT !.status = "staging-summary", !.summing = TRUE]
        /\ building' = building \cup {v} /\ building = {}
        /\ view' = [view EXCEPT ![v].summing = TRUE]
        /\ ~(staged > 0)
    BY <1>5 DEF StageSummary
  <2>2. store' \in StoreStates /\ store'.status = "staging-summary"
        /\ store'.writing = store.writing
    BY <1>2, <2>1 DEF StoreStates
  <2> DEFINE w == [view[v] EXCEPT !.summing = TRUE]
  <2>3. w \in AskViews /\ w.pc = view[v].pc /\ w.summing = TRUE
    BY <1>2 DEF AskViews, ViewStates
  <2>4. view' = [view EXCEPT ![v] = w]
    BY <2>1
  <2> HIDE DEF w
  <2>5. MemoryTypes'
    BY <1>1, <1>2, <1>3, <2>1, <2>2, <2>3, <2>4 DEF MemoryTypes
  <2>6. Remembered'
    BY <1>1, <1>3, <2>2, StillRemembers
  <2>7. NobodyIsForgotten'
    BY <1>1, <1>2, <1>3, <2>1, <2>3, <2>4 DEF NobodyIsForgotten
  <2>8. OneSummary'
    <3>1. staged = 0 /\ staged' = staged
      BY <1>1, <1>3, <2>1 DEF MemoryTypes
    <3> QED
      BY <2>1, <3>1 DEF OneSummary
  <2> QED
    BY <2>5, <2>6, <2>7, <2>8 DEF MemoryInv
<1> QED
  BY <1>4, <1>5

(* A view whose summary is no longer built.                                 *)
LEMMA SummaryEndsEffect ==
  ASSUME MemoryTypes, NobodyIsForgotten, OneSummary, NEW v \in building,
         building' = building \ {v}, view' = [view EXCEPT ![v].summing = FALSE],
         store'.summing = FALSE, asking' = asking,
         \A u \in Views : view[u].pc = "applying" => write'.by = u /\ write' # NoWrite
  PROVE  /\ view' \in [Views -> AskViews] /\ building' \subseteq Views /\ building' = {}
         /\ NobodyIsForgotten'
<1>1. view \in [Views -> AskViews] /\ building \subseteq Views
  BY DEF MemoryTypes
<1> DEFINE w == [view[v] EXCEPT !.summing = FALSE]
<1>2. w \in AskViews /\ w.pc = view[v].pc /\ w.summing = FALSE
  BY <1>1 DEF AskViews, ViewStates
<1>3. view' = [view EXCEPT ![v] = w]
  OBVIOUS
<1> HIDE DEF w
<1>4. view' \in [Views -> AskViews] /\ building' \subseteq Views
  BY <1>1, <1>2, <1>3
<1>5. building' = {}
  BY DEF OneSummary
<1>6. NobodyIsForgotten'
  BY <1>1, <1>2, <1>3 DEF NobodyIsForgotten
<1> QED
  BY <1>4, <1>5, <1>6

LEMMA SummaryFailsInv ==
  ASSUME MemoryInv, NEW v \in Views, SummaryFails(v)
  PROVE  MemoryInv'
<1>1. MemoryTypes /\ Remembered /\ NobodyIsForgotten /\ OneSummary
  BY DEF MemoryInv
<1>2. /\ v \in building /\ building' = building \ {v}
      /\ view' = [view EXCEPT ![v].summing = FALSE]
      /\ store' = SummaryRefused(store)
      /\ UNCHANGED <<chat, asking, write, staged, file, late, loads, up, behind>>
  BY DEF SummaryFails
<1>3. store' \in StoreStates /\ store'.status = "failed" /\ store'.summing = FALSE
      /\ store'.writing = store.writing
  BY <1>1, <1>2, RefusedStore DEF MemoryTypes
<1>4. \A u \in Views : view[u].pc = "applying" => write'.by = u /\ write' # NoWrite
  BY <1>1, <1>2 DEF NobodyIsForgotten
<1>5. /\ view' \in [Views -> AskViews] /\ building' \subseteq Views /\ building' = {}
      /\ NobodyIsForgotten'
  BY <1>1, <1>2, <1>3, <1>4, SummaryEndsEffect
<1>6. MemoryTypes'
  BY <1>1, <1>2, <1>3, <1>5 DEF MemoryTypes
<1>7. Remembered'
  BY <1>1, <1>2, <1>3, StillRemembers
<1>8. OneSummary'
  BY <1>1, <1>2, <1>5 DEF OneSummary
<1> QED
  BY <1>5, <1>6, <1>7, <1>8 DEF MemoryInv

LEMMA SummaryStagedInv ==
  ASSUME MemoryInv, NEW v \in Views, SummaryStaged(v)
  PROVE  MemoryInv'
<1>1. MemoryTypes /\ Remembered /\ WriteIsKnown /\ NobodyIsForgotten /\ OneSummary
  BY DEF MemoryInv, Remembered
<1> DEFINE s == [store EXCEPT !.status = "persisted", !.summing = FALSE]
<1>2. /\ up /\ v \in building /\ building' = building \ {v}
      /\ view' = [view EXCEPT ![v].summing = FALSE]
      /\ staged' = staged + 1
      /\ Persist(chat, <<>>, None, s)
      /\ UNCHANGED <<chat, asking, file, late, loads, up>>
  BY DEF SummaryStaged
<1>3. /\ s \in StoreStates /\ s.writing = store.writing /\ s.summing = FALSE
      /\ chat \in Threads
  BY <1>1 DEF MemoryTypes, StoreStates
<1> HIDE DEF s
<1>4. Remembered'
  BY <1>1, <1>2, <1>3, PersistRemembers
<1>5. /\ store' \in StoreStates /\ write' \in ThreadWrites /\ behind' \in BOOLEAN
      /\ store'.summing = FALSE
      /\ store.writing => write' = write
  BY <1>1, <1>2, <1>3, PersistEffect
<1>6. \A u \in Views : view[u].pc = "applying" => write'.by = u /\ write' # NoWrite
  BY <1>1, <1>5, WaitingKeepWrite
<1>7. /\ view' \in [Views -> AskViews] /\ building' \subseteq Views /\ building' = {}
      /\ NobodyIsForgotten'
  BY <1>1, <1>2, <1>5, <1>6, SummaryEndsEffect
<1>8. staged' = 1
  BY <1>1, <1>2 DEF OneSummary
<1>9. MemoryTypes'
  BY <1>1, <1>2, <1>5, <1>7, <1>8 DEF MemoryTypes
<1>10. OneSummary'
  BY <1>7, <1>8 DEF OneSummary
<1> QED
  BY <1>4, <1>7, <1>9, <1>10 DEF MemoryInv

LEMMA SummaryDecidedInv ==
  ASSUME MemoryInv, SummaryDecided
  PROVE  MemoryInv'
<1>1. /\ staged' = 0
      /\ UNCHANGED <<chat, view, asking, store, write, building, file, late, loads, up, behind>>
  BY DEF SummaryDecided
<1>2. Remembered'
  BY <1>1, StillRemembers DEF MemoryInv
<1>3. MemoryTypes'
  BY <1>1 DEF MemoryInv, MemoryTypes
<1>4. NobodyIsForgotten' /\ OneSummary'
  BY <1>1 DEF MemoryInv, NobodyIsForgotten, OneSummary
<1> QED
  BY <1>2, <1>3, <1>4 DEF MemoryInv

-----------------------------------------------------------------------------
(* Loading and unloading *)

LEMMA LoadInv ==
  ASSUME MemoryInv, Load
  PROVE  MemoryInv'
<1>1. MemoryTypes /\ Remembered /\ NobodyIsForgotten /\ OneSummary
  BY DEF MemoryInv
<1>2. /\ ~up /\ loads < MaxLoads /\ loads' = loads + 1 /\ up' = TRUE
      /\ chat' = IF file \in {Missing, Torn} THEN NewChat ELSE Restored(file)
      /\ UNCHANGED <<view, asking, write, building, staged, file, late, behind>>
  BY DEF Load
<1>3. file \in Files /\ loads \in 0 .. MaxLoads
  BY <1>1 DEF MemoryTypes
<1> DEFINE status == CASE file = Missing -> "idle"
                       [] file = Torn -> "failed"
                       [] file \in Captures -> "restored"
       cached == file \in Captures
<1>4. store' = [NewStore EXCEPT !.status = status, !.cached = cached]
  BY DEF Load
<1>5. /\ file = Missing => file \notin Captures /\ status = "idle"
      /\ file = Torn => file \notin Captures /\ status = "failed"
      /\ file \in Captures => file \notin {Missing, Torn} /\ status = "restored"
  <2>1. Missing # Torn
    BY DEF Missing, Torn
  <2> QED
    BY <2>1, CaptureIsNotLost
<1>6. /\ status \in {"idle", "failed", "restored"}
      /\ cached \in BOOLEAN /\ (cached <=> file \in Captures)
  BY <1>3, <1>5 DEF Files
<1> HIDE DEF status, cached
<1>7. /\ store' \in StoreStates /\ store'.writing = FALSE /\ store'.summing = FALSE
      /\ store'.cached = cached
  BY <1>4, <1>6 DEF NewStore, StoreStates
<1>8. write = NoWrite
  BY <1>1, <1>2 DEF Remembered, DownIsEmpty
<1>9. chat' \in Threads /\ (file \in Captures => Capture(chat') = file)
  <2>1. CASE file \in {Missing, Torn}
    BY <1>2, <1>5, <2>1, NewStateIsTyped
  <2>2. CASE file \in Captures
    <3>1. chat' = [draft |-> file.draft, turns |-> <<>>]
      BY <1>2, <1>5, <2>2 DEF Restored
    <3>2. file = [draft |-> file.draft] /\ file.draft \in Texts
      BY <2>2 DEF Captures
    <3>3. PreviewOf[file.draft] = file.draft
      BY <1>1, <2>2 DEF Remembered, KeptArePreviews, IsPreview
    <3>4. Capture(chat') = [draft |-> file.draft]
      BY <3>1, <3>3 DEF Capture
    <3>5. chat' \in Threads
      BY <3>1, <3>2 DEF Threads
    <3> QED
      BY <3>2, <3>4, <3>5
  <2> QED
    BY <1>3, <2>1, <2>2 DEF Files
<1>10. MemoryTypes'
  <2>1. loads' \in 0 .. MaxLoads
    BY <1>2, <1>3, BoundsAreNatural
  <2> QED
    BY <1>1, <1>2, <1>7, <1>9, <2>1 DEF MemoryTypes
<1>11. WriteIsKnown' /\ WriteIsOfThread'
  BY <1>2, <1>7, <1>8 DEF WriteIsKnown, WriteIsOfThread
<1>12. DownIsEmpty' /\ KeptArePreviews'
  BY <1>1, <1>2 DEF Remembered, DownIsEmpty, KeptArePreviews
<1>13. QuietMeansPersisted'
  <2>1. HotCacheSeverity' = "ready" => file' = Capture(chat')
    BY <1>2, <1>6, <1>7, <1>9, ReadySeverityNext
  <2> QED
    BY <2>1 DEF QuietMeansPersisted, Capture
<1>14. NobodyIsForgotten' /\ OneSummary'
  BY <1>1, <1>2, <1>7 DEF NobodyIsForgotten, OneSummary
<1> QED
  BY <1>10, <1>11, <1>12, <1>13, <1>14 DEF MemoryInv, Remembered

(* Whatever becomes of the record, an unloaded plugin leaves nothing else.  *)
LEMMA ForgetInv ==
  ASSUME MemoryInv, Forget, file' \in Files, IsPreview(file'),
         late' \subseteq Captures, \A c \in late' : IsPreview(c)
  PROVE  MemoryInv'
<1>1. /\ up' = FALSE /\ chat' = NewChat /\ view' = [v \in Views |-> NewView]
      /\ asking' = None /\ store' = NewStore /\ write' = NoWrite
      /\ building' = {} /\ staged' = 0 /\ behind' = FALSE /\ loads' = loads
  BY DEF Forget
<1>2. MemoryTypes'
  BY <1>1, NewStateIsTyped DEF MemoryInv, MemoryTypes
<1>3. NobodyIsForgotten'
  BY <1>1, NewStateIsTyped, NoneIsNothing DEF NobodyIsForgotten
<1>4. OneSummary'
  BY <1>1 DEF OneSummary
<1>5. WriteIsKnown' /\ DownIsEmpty' /\ WriteIsOfThread' /\ QuietMeansPersisted'
  BY <1>1, NewStateIsTyped DEF WriteIsKnown, DownIsEmpty, WriteIsOfThread, QuietMeansPersisted
<1>6. KeptArePreviews'
  BY <1>1, NothingIsCaptured, MissingIsPreview DEF KeptArePreviews
<1> QED
  BY <1>2, <1>3, <1>4, <1>5, <1>6 DEF MemoryInv, Remembered

LEMMA UnloadInv ==
  ASSUME MemoryInv, Unload
  PROVE  MemoryInv'
<1>1. /\ Forget /\ file' = file
      /\ late' = IF write = NoWrite THEN late ELSE late \cup {write.captured}
  BY DEF Unload
<1>2. /\ file \in Files /\ late \subseteq Captures
      /\ IsPreview(file) /\ IsPreview(write.captured) /\ \A c \in late : IsPreview(c)
      /\ write # NoWrite => write.captured \in Captures
  BY WriteIsCapture DEF MemoryInv, MemoryTypes, Remembered, KeptArePreviews
<1> QED
  BY <1>1, <1>2, ForgetInv

LEMMA CrashInv ==
  ASSUME MemoryInv, Crash
  PROVE  MemoryInv'
<1>1. /\ Forget /\ late' = {}
      /\ file' \in IF write = NoWrite /\ late = {} THEN {file}
                   ELSE {file, Torn} \cup late \cup ({write.captured} \ {Missing})
  BY DEF Crash
<1>2. /\ file \in Files /\ late \subseteq Captures
      /\ IsPreview(file) /\ IsPreview(write.captured) /\ \A c \in late : IsPreview(c)
  BY DEF MemoryInv, MemoryTypes, Remembered, KeptArePreviews
<1>3. write.captured \in Captures \cup {Missing}
  BY NothingIsCaptured, WriteIsCapture DEF MemoryInv
<1>4. file' \in Files /\ IsPreview(file')
  BY <1>1, <1>2, <1>3, MissingIsPreview DEF Files
<1> QED
  BY <1>1, <1>4, ForgetInv

(* A write of an earlier load ends: what the file is then, nobody counts on. *)
LEMMA LateWriteEndsInv ==
  ASSUME MemoryInv, NEW c \in late, LateWriteEnds(c)
  PROVE  MemoryInv'
<1>1. MemoryTypes /\ Remembered /\ NobodyIsForgotten /\ OneSummary
  BY DEF MemoryInv
<1>2. /\ late' = late \ {c} /\ file' \in {file, c} /\ behind' = (behind \/ up)
      /\ UNCHANGED <<chat, view, asking, store, write, building, staged, loads, up>>
  BY DEF LateWriteEnds
<1>3. MemoryTypes'
  BY <1>1, <1>2 DEF MemoryTypes, Files
<1>4. KeptArePreviews'
  BY <1>1, <1>2 DEF Remembered, KeptArePreviews
<1>5. WriteIsKnown' /\ DownIsEmpty' /\ WriteIsOfThread' /\ QuietMeansPersisted'
  BY <1>1, <1>2
     DEF Remembered, WriteIsKnown, DownIsEmpty, WriteIsOfThread, QuietMeansPersisted
<1>6. NobodyIsForgotten' /\ OneSummary'
  BY <1>1, <1>2 DEF NobodyIsForgotten, OneSummary
<1> QED
  BY <1>3, <1>4, <1>5, <1>6 DEF MemoryInv, Remembered

-----------------------------------------------------------------------------
(* The theorems *)

LEMMA MemoryInvInit == Init => MemoryInv
<1> SUFFICES ASSUME Init
             PROVE  MemoryInv
  OBVIOUS
<1>1. /\ chat = NewChat /\ view = [v \in Views |-> NewView] /\ asking = None
      /\ store = NewStore /\ write = NoWrite /\ building = {} /\ staged = 0
      /\ file = Missing /\ late = {} /\ loads = 0 /\ up = FALSE /\ behind = FALSE
  BY DEF Init
<1>2. MemoryTypes
  <2>1. /\ view \in [Views -> AskViews] /\ chat \in Threads /\ store \in StoreStates
        /\ write \in ThreadWrites \cup {NoWrite}
    BY <1>1, NewStateIsTyped
  <2>2. loads \in 0 .. MaxLoads /\ staged \in Nat
    BY <1>1, BoundsAreNatural
  <2>3. file \in Files
    BY <1>1 DEF Files
  <2> QED
    BY <1>1, <2>1, <2>2, <2>3 DEF MemoryTypes
<1>3. NobodyIsForgotten
  BY <1>1, NewStateIsTyped, NoneIsNothing DEF NobodyIsForgotten
<1>4. OneSummary
  BY <1>1 DEF OneSummary
<1>5. WriteIsKnown /\ DownIsEmpty /\ WriteIsOfThread /\ QuietMeansPersisted
  BY <1>1, NewStateIsTyped DEF WriteIsKnown, DownIsEmpty, WriteIsOfThread, QuietMeansPersisted
<1>6. KeptArePreviews
  BY <1>1, NothingIsCaptured, MissingIsPreview DEF KeptArePreviews
<1> QED
  BY <1>2, <1>3, <1>4, <1>5, <1>6 DEF MemoryInv, Remembered

LEMMA MemoryInvNext == MemoryInv /\ [Next]_vars => MemoryInv'
<1> SUFFICES ASSUME MemoryInv, [Next]_vars
             PROVE  MemoryInv'
  OBVIOUS
<1>1. CASE Load
  BY <1>1, LoadInv
<1>2. CASE Unload
  BY <1>2, UnloadInv
<1>3. CASE Crash
  BY <1>3, CrashInv
<1>4. CASE \E c \in late : LateWriteEnds(c)
  BY <1>4, LateWriteEndsInv
<1>5. CASE PersistInBackground
  BY <1>5, PersistInBackgroundInv
<1>6. CASE WriteLands
  BY <1>6, WriteLandsInv
<1>7. CASE WriteFails
  BY <1>7, WriteFailsInv
<1>8. CASE SummaryDecided
  BY <1>8, SummaryDecidedInv
<1>9. ASSUME NEW v \in Views,
             \/ Close(v)
             \/ \E d \in Typed : Type(v, d)
             \/ Submit(v)
             \/ \E e \in Evidence : Ask(v, e)
             \/ \E o \in Outcomes : ProviderAnswers(v, o)
             \/ \E i \in DOMAIN chat.turns : Retry(v, i) \/ Branch(v, i)
             \/ StageSummary(v)
             \/ SummaryFails(v)
             \/ SummaryStaged(v)
      PROVE  MemoryInv'
  BY <1>9, CloseInv, TypeInv, SubmitInv, AskInv, ProviderAnswersInv, RetryInv, BranchInv,
     StageSummaryInv, SummaryFailsInv, SummaryStagedInv
<1>10. CASE UNCHANGED vars
  <2>1. UNCHANGED <<chat, view, asking, store, write, building, staged, file, late, loads, up,
                    behind>>
    BY <1>10 DEF vars
  <2>2. Remembered'
    BY <2>1, StillRemembers DEF MemoryInv
  <2>3. MemoryTypes' /\ NobodyIsForgotten' /\ OneSummary'
    BY <2>1 DEF MemoryInv, MemoryTypes, NobodyIsForgotten, OneSummary
  <2> QED
    BY <2>2, <2>3 DEF MemoryInv
<1> QED
  BY <1>1, <1>2, <1>3, <1>4, <1>5, <1>6, <1>7, <1>8, <1>9, <1>10 DEF Next

LEMMA MemoryInvAlways == Spec => []MemoryInv
BY MemoryInvInit, MemoryInvNext, PTL DEF Spec

(* However many views ask, save, close and summarize, and whichever saves   *)
(* and builds fail or are refused, whoever waits, waits for something that  *)
(* is under way (chat-view.ts, handleSubmit; main.ts, the summary).         *)
THEOREM ChatsAreServed == Spec => []NobodyIsForgotten
<1>1. MemoryInv => NobodyIsForgotten
  BY DEF MemoryInv
<1> QED
  BY <1>1, MemoryInvAlways, PTL

(* Although the refusal of one view's summary takes back the flag that      *)
(* another one has set, the note of the summary never has two active        *)
(* changes (hot-cache-service.ts, stageSessionSummary).                     *)
THEOREM SummariesAreSingle == Spec => []OneSummaryPerTarget
<1>1. MemoryInv => OneSummaryPerTarget
  BY DEF MemoryInv, OneSummary, OneSummaryPerTarget
<1> QED
  BY <1>1, MemoryInvAlways, PTL

(* A cache that reports itself well, no save refused since, is the thread   *)
(* as it is, for every order of saves, rollbacks, crashes and late writes   *)
(* (main.ts, persistHotCache; hot-cache-store.ts).                          *)
THEOREM ReadyIsPersisted == Spec => []QuietMeansPersisted
<1>1. MemoryInv => QuietMeansPersisted
  BY DEF MemoryInv, Remembered
<1> QED
  BY <1>1, MemoryInvAlways, PTL

-----------------------------------------------------------------------------
(* A step that leaves the turns of the thread where they were.              *)
TurnsStay ==
    \A i \in DOMAIN chat.turns : i \in DOMAIN chat'.turns /\ chat'.turns[i] = chat.turns[i]

SavesUndo ==
    \A i \in DOMAIN chat.turns :
        \/ i \in DOMAIN chat'.turns /\ chat'.turns[i] = chat.turns[i]
        \/ ~up'
        \/ store.writing /\ store'.status = "failed"

(* A draft that changes changes no turn.                                    *)
LEMMA DraftLeavesTurns ==
  ASSUME chat \in Threads, NEW d, NEW by, Commit([chat EXCEPT !.draft = d], by)
  PROVE  TurnsStay
<1>1. chat' = [chat EXCEPT !.draft = d]
  BY DEF Commit
<1>2. chat'.turns = chat.turns
  BY <1>1 DEF Threads
<1> QED
  BY <1>2 DEF TurnsStay

LEMMA ApplyKeepsTurns ==
  ASSUME chat \in Threads, NEW v \in Views, NEW new \in Seq(Turns), Apply(v, new)
  PROVE  TurnsStay
<1>1. CASE ~view[v].open
  BY <1>1 DEF Apply, TurnsStay
<1>2. CASE view[v].open
  <2>1. chat' = [chat EXCEPT
                      !.turns = @ \o new,
                      !.draft = IF \E i \in DOMAIN new : new[i].status = "answer-ready"
                                THEN None ELSE @]
    BY <1>2 DEF Apply, Commit
  <2>2. chat'.turns = chat.turns \o new /\ chat.turns \in Seq(Turns)
    BY <2>1 DEF Threads
  <2> QED
    BY <2>2 DEF TurnsStay
<1> QED
  BY <1>1, <1>2

LEMMA AskKeepsTurns ==
  ASSUME MemoryInv, NEW v \in Views, NEW e \in Evidence, Ask(v, e)
  PROVE  TurnsStay
<1>1. chat \in Threads /\ view[v].pc = "saving" /\ view[v].text \in Drafts
  BY DEF MemoryInv, MemoryTypes, AskViews, Ask
<1>2. CASE \E new \in Seq(Turns) : Apply(v, new)
  BY <1>1, <1>2, ApplyKeepsTurns
<1>3. CASE chat' = chat
  BY <1>3 DEF TurnsStay
<1>4. /\ <<>> \in Seq(Turns)
      /\ Verdict(e) # "synthesizing"
            => <<Turn(v, Verdict(e), RetryableAfter(e))>> \in Seq(Turns)
  BY <1>1, VerdictIsTurn
<1> QED
  BY <1>2, <1>3, <1>4 DEF Ask

LEMMA AnswerKeepsTurns ==
  ASSUME MemoryInv, NEW v \in Views, NEW o \in Outcomes, ProviderAnswers(v, o)
  PROVE  TurnsStay
<1>1. chat \in Threads /\ view[v].text \in Drafts /\ Apply(v, <<Turn(v, o[1], o[2])>>)
  BY DEF MemoryInv, MemoryTypes, AskViews, ProviderAnswers
<1>2. <<Turn(v, o[1], o[2])>> \in Seq(Turns)
  BY <1>1, OutcomeIsTurn, TurnIsTurn
<1> QED
  BY <1>1, <1>2, ApplyKeepsTurns

LEMMA StepSavesUndo == MemoryInv /\ [Next]_vars => SavesUndo
<1> SUFFICES ASSUME MemoryInv, [Next]_vars
             PROVE  SavesUndo
  OBVIOUS
<1>1. chat \in Threads /\ WriteIsKnown /\ store \in StoreStates
  BY DEF MemoryInv, MemoryTypes, Remembered
<1>2. CASE TurnsStay
  BY <1>2 DEF TurnsStay, SavesUndo
<1>3. CASE chat' = chat
  BY <1>3 DEF SavesUndo
<1>4. CASE Load
  <2>1. chat = NewChat
    BY <1>4 DEF MemoryInv, Remembered, DownIsEmpty, Load
  <2>2. DOMAIN chat.turns = {}
    BY <2>1 DEF NewChat
  <2> QED
    BY <2>2 DEF SavesUndo
<1>5. CASE Unload \/ Crash
  BY <1>5 DEF Unload, Crash, Forget, SavesUndo
<1>6. CASE WriteFails
  <2>1. store.writing
    BY <1>1, <1>6 DEF WriteFails, EndWrite, WriteIsKnown
  <2>2. store'.status = "failed"
    BY <1>1, <1>6 DEF WriteFails, StoreStates
  <2> QED
    BY <2>1, <2>2 DEF SavesUndo
<1>7. CASE WriteLands \/ PersistInBackground \/ SummaryDecided
  BY <1>3, <1>7 DEF WriteLands, PersistInBackground, SummaryDecided
<1>8. CASE \E c \in late : LateWriteEnds(c)
  BY <1>3, <1>8 DEF LateWriteEnds
<1>9. ASSUME NEW v \in Views, NEW d \in Typed, Type(v, d)
      PROVE  SavesUndo
  BY <1>1, <1>2, <1>9, DraftLeavesTurns DEF Type
<1>10. ASSUME NEW v \in Views, NEW i \in DOMAIN chat.turns, Retry(v, i) \/ Branch(v, i)
       PROVE  SavesUndo
  BY <1>1, <1>2, <1>10, DraftLeavesTurns DEF Retry, Branch
<1>11. ASSUME NEW v \in Views, Submit(v)
       PROVE  SavesUndo
  BY <1>3, <1>11 DEF Submit, Commit
<1>12. ASSUME NEW v \in Views,
              Close(v) \/ StageSummary(v) \/ SummaryFails(v) \/ SummaryStaged(v)
       PROVE  SavesUndo
  BY <1>3, <1>12 DEF Close, StageSummary, SummaryFails, SummaryStaged
<1>13. CASE UNCHANGED vars
  BY <1>3, <1>13 DEF vars
<1> QED
  BY <1>2, <1>4, <1>5, <1>6, <1>7, <1>8, <1>9, <1>10, <1>11, <1>12, <1>13,
     AskKeepsTurns, AnswerKeepsTurns DEF Next

(* No order of questions, saves and rollbacks takes a turn back that reached *)
(* the thread, unless the save that is in flight fails: then the thread is   *)
(* what it was before the commit of that save (chat-thread-store.ts, commit).*)
THEOREM TurnsOutliveSaves == Spec => OnlyFailedSavesUndo
<1>1. MemoryInv /\ [Next]_vars
        => [\A i \in DOMAIN chat.turns :
              \/ i \in DOMAIN chat'.turns /\ chat'.turns[i] = chat.turns[i]
              \/ ~up'
              \/ store.writing /\ store'.status = "failed"]_vars
  BY StepSavesUndo DEF SavesUndo
<1> QED
  BY <1>1, MemoryInvAlways, PTL DEF Spec, OnlyFailedSavesUndo

-----------------------------------------------------------------------------
(* How long a thread becomes: a question is asked while the thread has room *)
(* for it, and every view may have asked one that is not in the thread yet. *)

Asked == {v \in Views : view[v].pc \in {"saving", "asking"}}

ThreadIsBounded ==
    Len(chat.turns) + Cardinality(Asked) <= MaxTurns + Cardinality(Views)

(* A rollback makes no thread longer.                                       *)
UndoIsShorter == write.undo # <<>> => Len(write.undo[1].turns) <= Len(chat.turns)

LengthInv == MemoryInv /\ ThreadIsBounded /\ UndoIsShorter

(* A step that adds a turn is the end of a question.                        *)
TurnsAreCounted ==
    \/ Len(chat'.turns) <= Len(chat.turns) /\ Asked' \subseteq Asked
    \/ Len(chat'.turns) <= Len(chat.turns) /\ Len(chat.turns) < MaxTurns
    \/ \E v \in Asked : Asked' \subseteq Asked \ {v} /\ Len(chat'.turns) <= Len(chat.turns) + 1

UndoIsEarlier ==
    \/ write'.undo = <<>>
    \/ write' = write /\ Len(chat.turns) <= Len(chat'.turns)
    \/ write'.undo = <<chat>> /\ Len(chat.turns) <= Len(chat'.turns)

LEMMA AskedIsFinite ==
  ASSUME NEW A \in SUBSET Views
  PROVE  IsFiniteSet(A) /\ Cardinality(A) \in Nat /\ Cardinality(A) <= Cardinality(Views)
BY ViewsAreFinite, FS_Subset, FS_CardinalityType

(* A length is a number, before a step and after it.                        *)
LEMMA LengthsAreNatural ==
  /\ MemoryInv => Len(chat.turns) \in Nat
  /\ MemoryInv' => Len(chat'.turns) \in Nat
<1>1. \A c \in Threads : c.turns \in Seq(Turns)
  BY DEF Threads
<1>2. \A c \in Threads : Len(c.turns) \in Nat
  BY <1>1, LenProperties
<1> QED
  BY <1>2 DEF MemoryInv, MemoryTypes

LEMMA CountedStaysBounded ==
  ASSUME MemoryInv, MemoryInv', ThreadIsBounded, TurnsAreCounted
  PROVE  ThreadIsBounded'
<1> DEFINE n == Len(chat.turns)
           m == Len(chat'.turns)
           all == Cardinality(Views)
<1>1. n \in Nat /\ m \in Nat
  BY LengthsAreNatural
<1> HIDE DEF n, m
<1>2. Asked \in SUBSET Views /\ Asked' \in SUBSET Views
  BY DEF Asked
<1>3. /\ IsFiniteSet(Asked) /\ Cardinality(Asked) \in Nat /\ Cardinality(Asked) <= all
      /\ Cardinality(Asked') \in Nat /\ Cardinality(Asked') <= all
  BY <1>2, AskedIsFinite
<1>4. all \in Nat /\ MaxTurns \in Nat
  BY ViewsAreFinite, FS_CardinalityType, BoundsAreNatural
<1>5. n + Cardinality(Asked) <= MaxTurns + all
  BY DEF ThreadIsBounded, n
<1> HIDE DEF all
<1>6. m + Cardinality(Asked') <= MaxTurns + all
  <2>1. CASE m <= n /\ Asked' \subseteq Asked
    <3>1. Cardinality(Asked') <= Cardinality(Asked)
      BY <1>3, <2>1, FS_Subset
    <3> QED
      BY <1>1, <1>3, <1>4, <1>5, <2>1, <3>1
  <2>2. CASE m <= n /\ n < MaxTurns
    BY <1>1, <1>3, <1>4, <2>2
  <2>3. ASSUME NEW v \in Asked, Asked' \subseteq Asked \ {v}, m <= n + 1
        PROVE  m + Cardinality(Asked') <= MaxTurns + all
    <3>1. IsFiniteSet(Asked \ {v}) /\ Cardinality(Asked \ {v}) = Cardinality(Asked) - 1
      BY <1>3, FS_RemoveElement
    <3>2. Cardinality(Asked') <= Cardinality(Asked) - 1
      BY <2>3, <3>1, FS_Subset
    <3> QED
      BY <1>1, <1>3, <1>4, <1>5, <2>3, <3>2
  <2> QED
    BY <2>1, <2>2, <2>3 DEF TurnsAreCounted, n, m
<1> QED
  BY <1>6 DEF ThreadIsBounded, m, all

LEMMA EarlierIsShorter ==
  ASSUME MemoryInv, MemoryInv', UndoIsShorter, UndoIsEarlier
  PROVE  UndoIsShorter'
<1>1. Len(chat.turns) \in Nat /\ Len(chat'.turns) \in Nat
  BY LengthsAreNatural
<1>2. CASE write' = write /\ Len(chat.turns) <= Len(chat'.turns)
  <2> SUFFICES ASSUME write.undo # <<>>
               PROVE  Len(write.undo[1].turns) <= Len(chat'.turns)
    BY <1>2 DEF UndoIsShorter
  <2>1. PICK c \in Threads : write.undo = <<c>>
    BY DEF MemoryInv, MemoryTypes, ThreadWrites, NoWrite
  <2>2. Len(c.turns) \in Nat
    BY LenProperties DEF Threads
  <2>3. write.undo[1] = c /\ Len(c.turns) <= Len(chat.turns)
    BY <2>1 DEF UndoIsShorter
  <2> QED
    BY <1>1, <1>2, <2>2, <2>3
<1>3. CASE write'.undo = <<chat>> /\ Len(chat.turns) <= Len(chat'.turns)
  BY <1>3 DEF UndoIsShorter
<1>4. CASE write'.undo = <<>>
  BY <1>4 DEF UndoIsShorter
<1> QED
  BY <1>2, <1>3, <1>4 DEF UndoIsEarlier

(* A save keeps the write in flight, or writes with the undo it was given.  *)
LEMMA PersistUndo ==
  ASSUME NEW next, NEW undo, NEW by, NEW s, Persist(next, undo, by, s)
  PROVE  write' = write \/ write'.undo = undo
BY DEF Persist

(* A commit that leaves the turns alone.                                    *)
LEMMA CommitOfTurns ==
  ASSUME MemoryInv, NEW next, next.turns = chat.turns, NEW by, Commit(next, by)
  PROVE  Len(chat'.turns) = Len(chat.turns) /\ UndoIsEarlier
<1>1. chat' = next /\ (write' = write \/ write'.undo = <<chat>>)
  BY PersistUndo DEF Commit
<1> QED
  BY <1>1, LengthsAreNatural DEF UndoIsEarlier

LEMMA ApplyIsCounted ==
  ASSUME MemoryInv, NEW v \in Asked, NEW new \in Seq(Turns), Len(new) <= 1, Apply(v, new)
  PROVE  TurnsAreCounted /\ UndoIsEarlier
<1>1. view \in [Views -> AskViews] /\ v \in Views /\ view[v] \in AskViews
  BY DEF MemoryInv, MemoryTypes, Asked
<1>2. (\A w \in Views \ {v} : view'[w] = view[w]) /\ view'[v].pc \in {"idle", "applying"}
  <2> DEFINE idle == Idle(view[v])
  <2>1. idle \in AskViews /\ idle.pc = "idle" /\ [idle EXCEPT !.pc = "applying"].pc = "applying"
    BY <1>1, IdleIsTyped DEF AskViews, ViewStates
  <2>2. view' = [view EXCEPT ![v] = idle]
           \/ view' = [view EXCEPT ![v] = [idle EXCEPT !.pc = "applying"]]
    BY DEF Apply
  <2> HIDE DEF idle
  <2> QED
    BY <1>1, <2>1, <2>2
<1>3. Asked' \subseteq Asked \ {v}
  BY <1>2 DEF Asked
<1>4. chat.turns \in Seq(Turns) /\ Len(chat.turns) \in Nat /\ Len(new) \in Nat
  BY LengthsAreNatural, LenProperties DEF MemoryInv, MemoryTypes, Threads
<1>5. CASE ~view[v].open
  <2>1. chat' = chat /\ write' = write
    BY <1>5 DEF Apply
  <2> QED
    BY <1>3, <1>4, <2>1 DEF TurnsAreCounted, UndoIsEarlier
<1>6. CASE view[v].open
  <2>1. /\ chat' = [chat EXCEPT
                      !.turns = @ \o new,
                      !.draft = IF \E i \in DOMAIN new : new[i].status = "answer-ready"
                                THEN None ELSE @]
        /\ write' = write \/ write'.undo = <<chat>>
    BY <1>6, PersistUndo DEF Apply, Commit
  <2>2. chat'.turns = chat.turns \o new
    BY <2>1 DEF MemoryInv, MemoryTypes, Threads
  <2>3. Len(chat'.turns) = Len(chat.turns) + Len(new)
    BY <1>4, <2>2, ConcatProperties
  <2> QED
    BY <1>3, <1>4, <2>1, <2>3 DEF TurnsAreCounted, UndoIsEarlier
<1> QED
  BY <1>5, <1>6

LEMMA AskIsCounted ==
  ASSUME MemoryInv, NEW v \in Views, NEW e \in Evidence, Ask(v, e)
  PROVE  TurnsAreCounted /\ UndoIsEarlier
<1>1. v \in Asked /\ view[v].text \in Drafts /\ view \in [Views -> AskViews]
  BY DEF MemoryInv, MemoryTypes, AskViews, Ask, Asked
<1>2. /\ <<>> \in Seq(Turns) /\ Len(<<>>) <= 1
      /\ Verdict(e) # "synthesizing"
            => <<Turn(v, Verdict(e), RetryableAfter(e))>> \in Seq(Turns)
      /\ Len(<<Turn(v, Verdict(e), RetryableAfter(e))>>) <= 1
  BY <1>1, VerdictIsTurn
<1>3. CASE \E new \in Seq(Turns) : Len(new) <= 1 /\ Apply(v, new)
  BY <1>1, <1>3, ApplyIsCounted
<1>4. CASE view' = [view EXCEPT ![v].pc = "asking"] /\ chat' = chat /\ write' = write
  <2>1. Asked' = Asked
    BY <1>1, <1>4 DEF Asked, AskViews, ViewStates
  <2> QED
    BY <1>4, <2>1, LengthsAreNatural DEF TurnsAreCounted, UndoIsEarlier
<1> QED
  BY <1>2, <1>3, <1>4 DEF Ask

LEMMA AnswerIsCounted ==
  ASSUME MemoryInv, NEW v \in Views, NEW o \in Outcomes, ProviderAnswers(v, o)
  PROVE  TurnsAreCounted /\ UndoIsEarlier
<1>1. v \in Asked /\ view[v].text \in Drafts /\ Apply(v, <<Turn(v, o[1], o[2])>>)
  BY DEF MemoryInv, MemoryTypes, AskViews, ProviderAnswers, Asked
<1>2. <<Turn(v, o[1], o[2])>> \in Seq(Turns) /\ Len(<<Turn(v, o[1], o[2])>>) <= 1
  BY <1>1, OutcomeIsTurn, TurnIsTurn
<1> QED
  BY <1>1, <1>2, ApplyIsCounted

LEMMA StepIsCounted ==
  ASSUME MemoryInv, UndoIsShorter, [Next]_vars
  PROVE  TurnsAreCounted /\ UndoIsEarlier
<1>1. /\ chat \in Threads /\ Len(chat.turns) \in Nat
      /\ view \in [Views -> AskViews]
  BY LengthsAreNatural DEF MemoryInv, MemoryTypes
<1>2. CASE Load
  <2>1. chat = NewChat /\ write = NoWrite /\ write' = write /\ view' = view
    BY <1>2 DEF MemoryInv, Remembered, DownIsEmpty, Load
  <2>2. chat'.turns = <<>> /\ chat.turns = <<>>
    BY <1>2, <2>1 DEF Load, NewChat, Restored
  <2>3. Asked' = Asked
    BY <2>1 DEF Asked
  <2> QED
    BY <1>1, <2>1, <2>2, <2>3 DEF TurnsAreCounted, UndoIsEarlier
<1>3. CASE Unload \/ Crash
  <2>1. chat' = NewChat /\ write' = NoWrite /\ view' = [v \in Views |-> NewView]
    BY <1>3 DEF Unload, Crash, Forget
  <2>2. Len(chat'.turns) = 0 /\ write'.undo = <<>>
    BY <2>1 DEF NewChat, NoWrite
  <2>3. Asked' = {}
    BY <2>1 DEF Asked, NewView
  <2> QED
    BY <1>1, <2>2, <2>3 DEF TurnsAreCounted, UndoIsEarlier
<1>4. CASE WriteLands \/ WriteFails
  <2>1. /\ write' = NoWrite
        /\ view' = [v \in Views |->
                      IF v = write.by /\ view[v].pc = "applying" THEN Idle(view[v]) ELSE view[v]]
    BY <1>4 DEF WriteLands, WriteFails, EndWrite
  <2>2. \A v \in Views : view'[v].pc \in {view[v].pc, "idle"}
    BY <1>1, <2>1, IdleIsTyped
  <2>3. Asked' \subseteq Asked
    BY <2>2 DEF Asked
  <2>4. chat' = chat \/ (write.undo # <<>> /\ chat' = write.undo[1])
    BY <1>4 DEF WriteLands, WriteFails
  <2>5. Len(chat'.turns) <= Len(chat.turns)
    BY <1>1, <2>4 DEF UndoIsShorter
  <2> QED
    BY <2>1, <2>3, <2>5 DEF TurnsAreCounted, UndoIsEarlier, NoWrite
<1>5. CASE PersistInBackground
  <2>1. chat' = chat /\ view' = view /\ (write' = write \/ write'.undo = <<>>)
    BY <1>5, PersistUndo DEF PersistInBackground
  <2> QED
    BY <1>1, <2>1 DEF TurnsAreCounted, UndoIsEarlier, Asked
<1>6. CASE SummaryDecided \/ \E c \in late : LateWriteEnds(c)
  BY <1>1, <1>6 DEF SummaryDecided, LateWriteEnds, TurnsAreCounted, UndoIsEarlier, Asked
<1>7. ASSUME NEW v \in Views, Close(v) \/ StageSummary(v) \/ SummaryFails(v)
      PROVE  TurnsAreCounted /\ UndoIsEarlier
  <2>1. chat' = chat /\ write' = write
    BY <1>7 DEF Close, StageSummary, SummaryFails
  <2>2. \A w \in Views : view'[w].pc = view[w].pc
    BY <1>1, <1>7 DEF Close, StageSummary, SummaryFails, AskViews, ViewStates
  <2> QED
    BY <1>1, <2>1, <2>2 DEF TurnsAreCounted, UndoIsEarlier, Asked
<1>8. ASSUME NEW v \in Views, SummaryStaged(v)
      PROVE  TurnsAreCounted /\ UndoIsEarlier
  <2>1. chat' = chat /\ (write' = write \/ write'.undo = <<>>)
    BY <1>8, PersistUndo DEF SummaryStaged
  <2>2. \A w \in Views : view'[w].pc = view[w].pc
    BY <1>1, <1>8 DEF SummaryStaged, AskViews, ViewStates
  <2> QED
    BY <1>1, <2>1, <2>2 DEF TurnsAreCounted, UndoIsEarlier, Asked
<1>9. ASSUME NEW d, Commit([chat EXCEPT !.draft = d], None), view' = view
      PROVE  TurnsAreCounted /\ UndoIsEarlier
  <2>1. [chat EXCEPT !.draft = d].turns = chat.turns
    BY <1>1 DEF Threads
  <2>2. Len(chat'.turns) = Len(chat.turns) /\ UndoIsEarlier
    BY <1>9, <2>1, CommitOfTurns
  <2>3. Asked' = Asked
    BY <1>9 DEF Asked
  <2> QED
    BY <1>1, <2>2, <2>3 DEF TurnsAreCounted
<1>10. ASSUME NEW v \in Views,
              (\E d \in Typed : Type(v, d))
                \/ \E i \in DOMAIN chat.turns : Retry(v, i) \/ Branch(v, i)
       PROVE  TurnsAreCounted /\ UndoIsEarlier
  BY <1>9, <1>10 DEF Type, Retry, Branch
<1>11. ASSUME NEW v \in Views, Submit(v)
       PROVE  TurnsAreCounted /\ UndoIsEarlier
  <2>1. Commit(chat, v) /\ Len(chat.turns) < MaxTurns
    BY <1>11 DEF Submit
  <2> QED
    BY <1>1, <2>1, CommitOfTurns DEF TurnsAreCounted
<1>12. CASE UNCHANGED vars
  BY <1>1, <1>12 DEF vars, TurnsAreCounted, UndoIsEarlier, Asked
<1> QED
  BY <1>2, <1>3, <1>4, <1>5, <1>6, <1>7, <1>8, <1>10, <1>11, <1>12, AskIsCounted,
     AnswerIsCounted DEF Next

LEMMA LengthInit == Init => ThreadIsBounded /\ UndoIsShorter
<1> SUFFICES ASSUME Init
             PROVE  ThreadIsBounded /\ UndoIsShorter
  OBVIOUS
<1>1. Len(chat.turns) = 0 /\ write.undo = <<>>
  BY DEF Init, NewChat, NoWrite
<1>2. Asked \in SUBSET Views
  BY DEF Asked
<1>3. Cardinality(Asked) \in Nat /\ Cardinality(Asked) <= Cardinality(Views)
      /\ Cardinality(Views) \in Nat /\ MaxTurns \in Nat
  BY <1>2, AskedIsFinite, ViewsAreFinite, FS_CardinalityType, BoundsAreNatural
<1> QED
  BY <1>1, <1>3 DEF ThreadIsBounded, UndoIsShorter

LEMMA LengthInvNext == LengthInv /\ [Next]_vars => LengthInv'
BY StepIsCounted, CountedStaysBounded, EarlierIsShorter, MemoryInvNext DEF LengthInv

(* A thread that is no longer than the bound is one of Chats.               *)
LEMMA BoundedIsChat ==
  ASSUME NEW c \in Threads, Len(c.turns) <= MaxTurns + Cardinality(Views)
  PROVE  c \in Chats
<1>1. c.turns \in Seq(Turns)
  BY DEF Threads
<1>2. Len(c.turns) \in Nat /\ c.turns \in [1 .. Len(c.turns) -> Turns]
  BY <1>1, LenProperties
<1>3. MaxTurns + Cardinality(Views) \in Nat
  BY ViewsAreFinite, FS_CardinalityType, BoundsAreNatural
<1>4. Len(c.turns) \in 0 .. MaxTurns + Cardinality(Views)
  BY <1>2, <1>3
<1>5. c.turns \in UNION {[1 .. n -> Turns] : n \in 0 .. MaxTurns + Cardinality(Views)}
  BY <1>2, <1>4
<1> QED
  BY <1>5 DEF Threads, Chats

(* Every variable keeps its type, and no thread grows without bound: each   *)
(* view adds one turn at most to what there was when it had room to ask     *)
(* (chat-view.ts, handleSubmit).                                            *)
THEOREM TypeCorrect == Spec => []TypeOK
<1>1. Init => LengthInv
  BY MemoryInvInit, LengthInit DEF LengthInv
<1>2. LengthInv => TypeOK
  <2> SUFFICES ASSUME LengthInv
               PROVE  TypeOK
    OBVIOUS
  <2>1. /\ MaxTurns + Cardinality(Views) \in Nat /\ Len(chat.turns) \in Nat
        /\ Cardinality(Asked) \in Nat
    BY ViewsAreFinite, AskedIsFinite, FS_CardinalityType, BoundsAreNatural, LengthsAreNatural
       DEF LengthInv, Asked
  <2>2. Len(chat.turns) <= MaxTurns + Cardinality(Views)
    BY <2>1 DEF LengthInv, ThreadIsBounded
  <2>3. chat \in Chats
    BY <2>2, BoundedIsChat DEF LengthInv, MemoryInv, MemoryTypes
  <2>4. write.undo = <<>> \/ write.undo[1] \in Chats
    <3> SUFFICES ASSUME write.undo # <<>>
                 PROVE  write.undo[1] \in Chats
      OBVIOUS
    <3>1. PICK c \in Threads : write.undo = <<c>>
      BY DEF LengthInv, MemoryInv, MemoryTypes, ThreadWrites, NoWrite
    <3>2. Len(c.turns) \in Nat /\ Len(c.turns) <= Len(chat.turns)
      BY <3>1, LenProperties DEF LengthInv, UndoIsShorter, Threads
    <3> QED
      BY <2>1, <2>2, <3>1, <3>2, BoundedIsChat
  <2>5. /\ write.captured \in Captures \cup {Missing} /\ write.by \in Views \cup {None}
        /\ view \in [Views -> ViewStates]
    BY DEF LengthInv, MemoryInv, MemoryTypes, ThreadWrites, NoWrite, AskViews
  <2> QED
    BY <2>3, <2>4, <2>5 DEF LengthInv, MemoryInv, MemoryTypes, Remembered, WriteIsKnown,
                            Files, TypeOK
<1> QED
  BY <1>1, <1>2, LengthInvNext, PTL DEF Spec

=============================================================================

------------------------- MODULE IngestionQueueProofs -------------------------
(***************************************************************************)
(* Theorems about IngestionQueue for any number of runs, queue ids,        *)
(* batches, sources, workers, attempts and faults.                         *)
(***************************************************************************)
EXTENDS IngestionQueue, TLAPS, FiniteSetTheorems, WellFoundedInduction

-----------------------------------------------------------------------------
(* The inductive invariant *)

GoesOn(r) == run[r].phase \in {"preparing", "running"}

(* A run has a batch once it was accepted, and only its items do anything.  *)
BatchOk(r) ==
    /\ run[r].batch = <<>> <=> run[r].phase \in {"idle", "refused"}
    /\ \A i \in Positions : item[r][i].status # "none" => i \in DOMAIN run[r].batch

(* What a worker holds is running; what runs is held, unless a call threw.  *)
(* What waits is queued, or was canceled while it did.                      *)
ItemOk(r, i) ==
    LET x == item[r][i]
        phase == run[r].phase
    IN  /\ x.stage # "none" => x.status = "running" /\ phase \in {"running", "rejected"}
        /\ phase = "preparing" => x.status \in {"none", "queued", "failed", "skipped"}
        /\ phase = "running" /\ i \in DOMAIN run[r].batch => x.status # "none"
        /\ phase = "running" /\ x.status = "running" => x.stage # "none"
        /\ phase = "running" /\ x.status = "queued" => i \in run[r].pending
        /\ i \in run[r].pending =>
              /\ phase \in {"running", "rejected"}
              /\ x.status \in {"queued", "canceled"}
              /\ x.status = "canceled" => run[r].canceled
        /\ run[r].canceled /\ x.stage # "none" => x.aborted

(* The attempts an item has made, by where it is.                           *)
CallsOk(r, i) ==
    LET x == item[r][i]
    IN  /\ x.status \in {"none", "queued"} \/ x.stage = "preview" => x.calls = 0
        /\ x.stage = "backoff" => x.calls < MaxAttempts

(* A worker holds at most one item.                                         *)
WorkersOk(r) == IsFiniteSet(Held(r)) /\ Cardinality(Held(r)) <= run[r].live

(* A run gathers what its staged items become, no more and no less.         *)
GatheredOk(r) ==
    run[r].gathered =
        UNION {TargetsOf[SourceAt(r, i)] : i \in {j \in Positions : item[r][j].status = "staged"}}

(* Who holds a queue id goes on and has that id.                            *)
ActiveOk(q) ==
    active[q] # None => GoesOn(active[q]) /\ run[active[q]].id = q

IdsOk(r) == run[r].phase # "idle" => run[r].id \in QueueIds

RejectedOk(r) == run[r].phase = "rejected" => faults # 0

RunsInv ==
    /\ TypeOK
    /\ \A r \in Runs : BatchOk(r) /\ IdsOk(r) /\ RejectedOk(r) /\ WorkersOk(r) /\ GatheredOk(r)
    /\ \A r \in Runs, i \in Positions : ItemOk(r, i) /\ CallsOk(r, i)
    /\ \A q \in QueueIds : ActiveOk(q)

(* Items whose content is claimed.                                          *)
Staging ==
    {x \in Runs \X Positions : item[x[1]][x[2]].stage \in {"provider", "backoff", "artifact"}}

ContentAt(x) == ContentOf[SourceAt(x[1], x[2])]

(* No two of them have the same content, and nothing else is claimed.       *)
ClaimsOk ==
    /\ IsFiniteSet(Staging)
    /\ inFlight = {ContentAt(x) : x \in Staging}
    /\ \A x, y \in Staging : ContentAt(x) = ContentAt(y) => x = y

-----------------------------------------------------------------------------
(* Lemmas about the values of the model *)

(* Min, which the library defines by a choice, is a member of its set.      *)
LEMMA MinOfNaturals ==
  ASSUME NEW S, S \subseteq Nat, S # {}
  PROVE  Min(S) \in S /\ \A y \in S : Min(S) <= y
<1>1. PICK x \in S : \A y \in S : ~ (<<y, x>> \in OpToRel(<, Nat))
  BY NatLessThanWellFounded, WFMin
<1>2. \A y \in S : ~ (y < x)
  BY <1>1 DEF OpToRel
<1>3. \A y \in S : x <= y
  BY <1>2
<1> QED
  BY <1>3 DEF Min

(* Positions of a batch are positions, and hold sources with contents and   *)
(* notes.                                                                   *)
LEMMA PositionsOfBatch ==
  ASSUME NEW b \in Batches
  PROVE  /\ b # <<>> /\ b \in Seq(Sources)
         /\ DOMAIN b \subseteq Positions
         /\ \A i \in DOMAIN b : /\ b[i] \in Sources
                                /\ ContentOf[b[i]] \in Contents
                                /\ TargetsOf[b[i]] \in SUBSET Targets
<1>1. b # <<>> /\ b \in Seq(Sources)
  BY BatchesOfSources
<1>2. \A i \in DOMAIN b : b[i] \in Sources
  BY <1>1
<1> QED
  BY <1>1, <1>2, SourcesHaveContent, SourcesHaveTargets DEF Positions

LEMMA PositionsAreNaturals == Positions \subseteq Nat
<1> SUFFICES ASSUME NEW b \in Batches
             PROVE  DOMAIN b \subseteq Nat
  BY DEF Positions
<1> QED
  BY PositionsOfBatch

LEMMA NoItemIsItem ==
  /\ NoItem \in ItemStates
  /\ NoItem.status = "none" /\ NoItem.stage = "none" /\ NoItem.calls = 0
BY AttemptsPositive DEF NoItem, ItemStates, ItemStatuses

LEMMA NoRunIsRun ==
  /\ NoRun \in RunStates
  /\ NoRun.phase = "idle" /\ NoRun.batch = <<>> /\ NoRun.pending = {}
  /\ NoRun.live = 0 /\ NoRun.gathered = {} /\ NoRun.canceled = FALSE
BY DEF NoRun, RunStates, Phases

(* The summary of an item at its end.                                       *)
Ended(x, status) ==
    [x EXCEPT !.status = status, !.stage = "none", !.aborted = FALSE,
              !.known = {}, !.todo = {}, !.current = None]

LEMMA EndedItem ==
  ASSUME NEW x \in ItemStates, NEW status \in ItemStatuses
  PROVE  /\ Ended(x, status) \in ItemStates
         /\ Ended(x, status).status = status
         /\ Ended(x, status).stage = "none"
         /\ Ended(x, status).calls = x.calls
<1>1. \A st \in ItemStatuses, sg \in {"none", "preview", "provider", "backoff", "artifact"},
         ab \in BOOLEAN, k \in SUBSET Targets, td \in SUBSET Targets, c \in Targets \cup {None} :
         [x EXCEPT !.status = st, !.stage = sg, !.aborted = ab,
                   !.known = k, !.todo = td, !.current = c] \in ItemStates
  BY DEF ItemStates
<1>2. Ended(x, status) \in ItemStates
  BY <1>1 DEF Ended
<1> QED
  BY <1>2 DEF Ended, ItemStates

(* An item that goes on with its provider or with its artifacts.            *)
LEMMA MovedItem ==
  ASSUME NEW x \in ItemStates,
         NEW sg \in {"preview", "provider", "backoff", "artifact"}, NEW n \in 0 .. MaxAttempts,
         NEW td \in SUBSET Targets, NEW c \in Targets \cup {None}
  PROVE  LET y == [x EXCEPT !.stage = sg, !.calls = n, !.todo = td, !.current = c]
         IN  /\ y \in ItemStates
             /\ y.status = x.status /\ y.stage = sg /\ y.aborted = x.aborted /\ y.calls = n
BY DEF ItemStates

-----------------------------------------------------------------------------
(* What one step does to an item *)

(* The item leaves its worker: decided, and its content no longer claimed   *)
(* if it was.                                                               *)
Ends(r, i, y) ==
    /\ y \in ItemStates
    /\ y.status \in {"staged", "failed", "canceled"}
    /\ y.stage = "none"
    /\ y.calls = item[r][i].calls
    /\ item' = [item EXCEPT ![r][i] = y]
    /\ run' = [run EXCEPT ![r].gathered =
                  @ \cup IF y.status = "staged" THEN TargetsOf[SourceAt(r, i)] ELSE {}]
    /\ inFlight' = IF item[r][i].stage = "preview" THEN inFlight
                   ELSE inFlight \ {ContentOf[SourceAt(r, i)]}
    /\ \E s \in QueueStatuses : Show(r, s)

(* The item goes on, its content claimed; only one that is not aborted has  *)
(* made another attempt.                                                    *)
MovesOn(r, i, y) ==
    /\ y \in ItemStates
    /\ y.status = item[r][i].status
    /\ y.stage \in {"provider", "backoff", "artifact"}
    /\ y.stage = "backoff" => y.calls < MaxAttempts
    /\ y.aborted = item[r][i].aborted
    /\ y.calls # item[r][i].calls => ~y.aborted
    /\ item' = [item EXCEPT ![r][i] = y]
    /\ UNCHANGED <<run, store>>
    /\ IF item[r][i].stage = "preview"
       THEN /\ ContentOf[SourceAt(r, i)] \notin inFlight
            /\ inFlight' = inFlight \cup {ContentOf[SourceAt(r, i)]}
       ELSE inFlight' \in {inFlight, inFlight \cup {ContentOf[SourceAt(r, i)]}}

EndsOrMoves(r, i) == \E y : Ends(r, i, y) \/ MovesOn(r, i, y)

(* The value a handler hands on is the item but for what it decided.        *)
HandedOn(r, i, x) ==
    /\ x \in ItemStates
    /\ x.status = item[r][i].status
    /\ x.calls = item[r][i].calls
    /\ x.aborted = item[r][i].aborted
    /\ item[r][i].stage = "preview" => ContentOf[SourceAt(r, i)] \notin inFlight

LEMMA StatusOfItems == \A items, canceled : QueueStatus(items, canceled) \in QueueStatuses
BY DEF QueueStatus, QueueStatuses

LEMMA EndItemEnds ==
  ASSUME NEW r \in Runs, NEW i \in Positions, NEW x \in ItemStates, x.calls = item[r][i].calls,
         NEW status \in {"staged", "failed", "canceled"}, EndItem(r, i, x, status),
         inFlight' = IF item[r][i].stage = "preview" THEN inFlight
                     ELSE inFlight \ {ContentOf[SourceAt(r, i)]}
  PROVE  EndsOrMoves(r, i)
<1> DEFINE y == Ended(x, status)
<1>1. y \in ItemStates /\ y.status = status /\ y.stage = "none" /\ y.calls = item[r][i].calls
  BY EndedItem DEF ItemStatuses
<1>2. item' = [item EXCEPT ![r][i] = y]
  BY DEF EndItem, Ended
<1> HIDE DEF y
<1>3. run' = [run EXCEPT ![r].gathered =
                 @ \cup IF y.status = "staged" THEN TargetsOf[SourceAt(r, i)] ELSE {}]
  BY <1>1 DEF EndItem, Gains
<1>4. \E s \in QueueStatuses : Show(r, s)
  BY StatusOfItems DEF EndItem, Emit
<1>5. Ends(r, i, y)
  BY <1>1, <1>2, <1>3, <1>4 DEF Ends
<1> QED
  BY <1>5 DEF EndsOrMoves

LEMMA FinishEnds ==
  ASSUME NEW r \in Runs, NEW i \in Positions, NEW x, HandedOn(r, i, x),
         NEW status \in {"staged", "failed", "canceled"}, Finish(r, i, x, status)
  PROVE  EndsOrMoves(r, i)
BY EndItemEnds DEF HandedOn, Finish, Release

LEMMA NextArtifactGoesOn ==
  ASSUME NEW r \in Runs, NEW i \in Positions, NEW x, HandedOn(r, i, x), NextArtifact(r, i, x)
  PROVE  EndsOrMoves(r, i)
<1>1. CASE \E status \in {"staged", "failed", "canceled"} : Finish(r, i, x, status)
  BY <1>1, FinishEnds
<1>2. ASSUME NEW t \in x.todo,
             item' = [item EXCEPT ![r][i] = [x EXCEPT !.stage = "artifact", !.current = t,
                                                      !.todo = @ \ {t}]],
             Claim(r, i), UNCHANGED <<run, store>>
      PROVE  EndsOrMoves(r, i)
  <2> DEFINE y == [x EXCEPT !.stage = "artifact", !.current = t, !.todo = @ \ {t}]
  <2>1. y \in ItemStates /\ y.status = x.status /\ y.stage = "artifact"
        /\ y.aborted = x.aborted /\ y.calls = x.calls
    BY DEF HandedOn, ItemStates
  <2>2. item' = [item EXCEPT ![r][i] = y]
    BY <1>2
  <2> HIDE DEF y
  <2>3. MovesOn(r, i, y)
    BY <1>2, <2>1, <2>2 DEF MovesOn, HandedOn, Claim
  <2> QED
    BY <2>3 DEF EndsOrMoves
<1> QED
  BY <1>1, <1>2 DEF NextArtifact

LEMMA RenderGoesOn ==
  ASSUME NEW r \in Runs, NEW i \in Positions, NEW x, HandedOn(r, i, x), Render(r, i, x)
  PROVE  EndsOrMoves(r, i)
BY FinishEnds, NextArtifactGoesOn DEF Render, Failure

LEMMA CallMoves ==
  ASSUME NEW r \in Runs, NEW i \in Positions, NEW x, HandedOn(r, i, x), ~x.aborted,
         x.calls < MaxAttempts, Call(r, i, x)
  PROVE  EndsOrMoves(r, i)
<1> DEFINE y == [x EXCEPT !.stage = "provider", !.calls = @ + 1]
<1>1. x.calls + 1 \in 0 .. MaxAttempts
  BY AttemptsPositive DEF HandedOn, ItemStates
<1>2. y \in ItemStates /\ y.status = x.status /\ y.stage = "provider"
      /\ y.aborted = x.aborted /\ y.calls = x.calls + 1
  BY <1>1 DEF HandedOn, ItemStates
<1>3. item' = [item EXCEPT ![r][i] = y]
  BY DEF Call
<1> HIDE DEF y
<1>4. MovesOn(r, i, y)
  BY <1>2, <1>3 DEF MovesOn, HandedOn, Call, Claim
<1> QED
  BY <1>4 DEF EndsOrMoves

OtherVars == <<active, listed, allowed, asked, disposed, faults>>

(* Every handler of a held item ends it or goes on with it.                 *)
LEMMA ItemSteps ==
  ASSUME RunsInv, NEW r \in Runs, NEW i \in Positions, ItemStep(r, i) \/ ProviderAnswers(r, i)
  PROVE  /\ item[r][i].stage # "none"
         /\ UNCHANGED OtherVars
         /\ EndsOrMoves(r, i)
<1>1. item[r][i] \in ItemStates /\ CallsOk(r, i)
  BY DEF RunsInv, TypeOK
<1>2. item[r][i].stage # "none" => SourceAt(r, i) \in Sources /\ TargetsOf[SourceAt(r, i)] \subseteq Targets
  <2> SUFFICES ASSUME item[r][i].stage # "none"
               PROVE  SourceAt(r, i) \in Sources /\ TargetsOf[SourceAt(r, i)] \subseteq Targets
    OBVIOUS
  <2>1. run[r] \in RunStates /\ BatchOk(r) /\ ItemOk(r, i)
    BY DEF RunsInv, TypeOK
  <2>2. i \in DOMAIN run[r].batch /\ run[r].batch # <<>>
    BY <2>1 DEF BatchOk, ItemOk
  <2>3. run[r].batch \in Batches
    BY <2>1, <2>2 DEF RunStates
  <2> QED
    BY <2>2, <2>3, PositionsOfBatch DEF SourceAt
<1>3. CASE StageSource(r, i)
  <2> DEFINE x == [item[r][i] EXCEPT !.todo = TargetsOf[SourceAt(r, i)], !.known = {}]
  <2>1. item[r][i].stage = "preview" /\ CanStage(r, i)
    BY <1>3 DEF StageSource
  <2>2. HandedOn(r, i, x) /\ x.aborted = FALSE /\ x.calls = 0
    BY <1>1, <1>2, <2>1 DEF HandedOn, ItemStates, CanStage, CallsOk
  <2>3. \A d \in {"denied", "failed"} : HandedOn(r, i, [x EXCEPT !.decision = d])
    BY <2>2 DEF HandedOn, ItemStates
  <2>4. \/ Render(r, i, x) \/ Call(r, i, x)
        \/ \E d \in {"denied", "failed"} : Render(r, i, [x EXCEPT !.decision = d])
    BY <1>3 DEF StageSource
  <2> HIDE DEF x
  <2>5. EndsOrMoves(r, i)
    BY <2>2, <2>3, <2>4, RenderGoesOn, CallMoves, AttemptsPositive
  <2> QED
    BY <1>3, <2>1, <2>5 DEF StageSource, OtherVars
<1>4. CASE RefuseSource(r, i)
  <2> DEFINE x == [item[r][i] EXCEPT !.decision = "none"]
  <2>1. x \in ItemStates /\ x.calls = item[r][i].calls
    BY <1>1 DEF ItemStates
  <2>2. \E status \in {"staged", "failed", "canceled"} : EndItem(r, i, x, status)
    BY <1>4 DEF RefuseSource, Failure
  <2> HIDE DEF x
  <2>3. EndsOrMoves(r, i)
    BY <1>4, <2>1, <2>2, EndItemEnds DEF RefuseSource
  <2> QED
    BY <1>4, <2>3 DEF RefuseSource, OtherVars
<1>5. \A d \in {"allowed", "failed"} :
         item[r][i].stage # "preview" => HandedOn(r, i, [item[r][i] EXCEPT !.decision = d])
  BY <1>1 DEF HandedOn, ItemStates
<1>6. CASE ProviderAnswers(r, i)
  BY <1>5, <1>6, RenderGoesOn DEF ProviderAnswers, OtherVars
<1>7. CASE NoticeAbort(r, i)
  BY <1>5, <1>7, RenderGoesOn DEF NoticeAbort, OtherVars
<1>8. CASE AttemptFails(r, i)
  <2>1. CASE Render(r, i, [item[r][i] EXCEPT !.decision = "failed"])
    BY <1>5, <1>8, <2>1, RenderGoesOn DEF AttemptFails, OtherVars
  <2>2. CASE /\ item[r][i].calls < MaxAttempts
             /\ item' = [item EXCEPT ![r][i].stage = "backoff"]
             /\ UNCHANGED <<run, inFlight, store>>
    <3> DEFINE y == [item[r][i] EXCEPT !.stage = "backoff"]
    <3>1. y \in ItemStates /\ y.status = item[r][i].status /\ y.stage = "backoff"
          /\ y.aborted = item[r][i].aborted /\ y.calls = item[r][i].calls
      BY <1>1 DEF ItemStates
    <3>2. item' = [item EXCEPT ![r][i] = y]
      BY <2>2
    <3> HIDE DEF y
    <3>3. MovesOn(r, i, y)
      BY <1>8, <2>2, <3>1, <3>2 DEF MovesOn, AttemptFails
    <3> QED
      BY <1>8, <3>3 DEF EndsOrMoves, AttemptFails, OtherVars
  <2> QED
    BY <1>8, <2>1, <2>2 DEF AttemptFails
<1>9. CASE RetryProvider(r, i)
  <2>1. item[r][i].stage = "backoff" /\ HandedOn(r, i, item[r][i]) /\ item[r][i].calls < MaxAttempts
    BY <1>1, <1>9 DEF RetryProvider, HandedOn, CallsOk
  <2> QED
    BY <1>5, <1>9, <2>1, RenderGoesOn, CallMoves DEF RetryProvider, OtherVars
<1>10. CASE CompleteArtifact(r, i)
  <2>1. HandedOn(r, i, [item[r][i] EXCEPT !.current = None])
    BY <1>1, <1>10 DEF CompleteArtifact, HandedOn, ItemStates
  <2> QED
    BY <1>10, <2>1, NextArtifactGoesOn DEF CompleteArtifact, OtherVars
<1>11. CASE ArtifactFails(r, i)
  <2>1. HandedOn(r, i, item[r][i])
    BY <1>1, <1>11 DEF ArtifactFails, HandedOn
  <2> QED
    BY <1>11, <2>1, FinishEnds DEF ArtifactFails, Failure, OtherVars
<1> QED
  BY <1>3, <1>4, <1>6, <1>7, <1>8, <1>9, <1>10, <1>11 DEF ItemStep

-----------------------------------------------------------------------------
(* Each step keeps the invariant of the runs *)

(* The parts that speak of one run, item or queue id at a time.             *)
LocalInv ==
    /\ \A r \in Runs : BatchOk(r) /\ IdsOk(r) /\ RejectedOk(r)
    /\ \A r \in Runs, i \in Positions : ItemOk(r, i) /\ CallsOk(r, i)
    /\ \A q \in QueueIds : ActiveOk(q)

LEMMA RunsInvParts ==
  RunsInv <=> TypeOK /\ LocalInv /\ \A r \in Runs : WorkersOk(r) /\ GatheredOk(r)
BY DEF RunsInv, LocalInv

LEMMA WorkersKept ==
  ASSUME NEW r, WorkersOk(r), run[r].live \in Nat, run'[r].live = run[r].live,
         Held(r)' \subseteq Held(r)
  PROVE  WorkersOk(r)'
<1>1. IsFiniteSet(Held(r)') /\ Cardinality(Held(r)') <= Cardinality(Held(r))
  BY FS_Subset DEF WorkersOk
<1>2. Cardinality(Held(r)) \in Nat /\ Cardinality(Held(r)') \in Nat
  BY <1>1, FS_CardinalityType DEF WorkersOk
<1> QED
  BY <1>1, <1>2 DEF WorkersOk

LEMMA GatheredKept ==
  ASSUME NEW r, GatheredOk(r), run'[r].gathered = run[r].gathered,
         run'[r].batch = run[r].batch,
         \A i \in Positions : (item'[r][i].status = "staged") <=> (item[r][i].status = "staged")
  PROVE  GatheredOk(r)'
BY DEF GatheredOk, SourceAt

LEMMA BatchKept ==
  ASSUME NEW r, BatchOk(r), run'[r].batch = run[r].batch,
         run'[r].phase \in {"idle", "refused"} <=> run[r].phase \in {"idle", "refused"},
         \A i \in Positions : item'[r][i].status # "none" => item[r][i].status # "none"
  PROVE  BatchOk(r)'
BY DEF BatchOk

(* What is known of a held item, its run and its source.                    *)
LEMMA HeldItem ==
  ASSUME RunsInv, NEW r \in Runs, NEW i \in Positions, item[r][i].stage # "none"
  PROVE  /\ item[r][i].status = "running"
         /\ run[r].phase \in {"running", "rejected"}
         /\ i \in DOMAIN run[r].batch
         /\ SourceAt(r, i) \in Sources
         /\ ContentOf[SourceAt(r, i)] \in Contents
         /\ TargetsOf[SourceAt(r, i)] \subseteq Targets
         /\ i \notin run[r].pending
<1>1. run[r] \in RunStates /\ BatchOk(r) /\ ItemOk(r, i)
  BY DEF RunsInv, TypeOK
<1>2. i \in DOMAIN run[r].batch /\ run[r].batch # <<>>
  BY <1>1 DEF BatchOk, ItemOk
<1>3. run[r].batch \in Batches
  BY <1>1, <1>2 DEF RunStates
<1> QED
  BY <1>1, <1>2, <1>3, PositionsOfBatch DEF SourceAt, ItemOk

LEMMA EndsKeepsRuns ==
  ASSUME RunsInv, NEW r \in Runs, NEW i \in Positions, item[r][i].stage # "none",
         UNCHANGED OtherVars, NEW y, Ends(r, i, y)
  PROVE  RunsInv'
<1> USE DEF OtherVars
<1>1. /\ TypeOK /\ LocalInv /\ \A s \in Runs : WorkersOk(s) /\ GatheredOk(s)
      /\ i \in DOMAIN run[r].batch
      /\ item[r][i].status = "running"
      /\ i \notin run[r].pending
      /\ TargetsOf[SourceAt(r, i)] \subseteq Targets
      /\ run[r].phase \in {"running", "rejected"}
  BY RunsInvParts, HeldItem
<1>2. /\ item' \in [Runs -> [Positions -> ItemStates]]
      /\ item'[r][i] = y
      /\ \A s \in Runs, j \in Positions : <<s, j>> # <<r, i>> => item'[s][j] = item[s][j]
  <2>1. y \in ItemStates /\ item' = [item EXCEPT ![r][i] = y]
    BY DEF Ends
  <2> QED
    BY <1>1, <2>1 DEF TypeOK
<1>3. run' \in [Runs -> RunStates]
  <2> DEFINE gains == IF y.status = "staged" THEN TargetsOf[SourceAt(r, i)] ELSE {}
  <2>1. gains \subseteq Targets
    BY <1>1
  <2>2. run' = [run EXCEPT ![r].gathered = @ \cup gains]
    BY DEF Ends
  <2> HIDE DEF gains
  <2>3. run[r] \in RunStates /\ run[r].gathered \cup gains \subseteq Targets
    BY <1>1, <2>1 DEF TypeOK, RunStates
  <2>4. [run[r] EXCEPT !.gathered = @ \cup gains] \in RunStates
    BY <2>3 DEF RunStates
  <2> QED
    BY <1>1, <2>2, <2>4 DEF TypeOK
<1>4. \A s \in Runs :
         /\ run'[s].phase = run[s].phase /\ run'[s].batch = run[s].batch
         /\ run'[s].id = run[s].id /\ run'[s].pending = run[s].pending
         /\ run'[s].live = run[s].live /\ run'[s].canceled = run[s].canceled
         /\ s # r => run'[s].gathered = run[s].gathered
  BY <1>1 DEF Ends, TypeOK, RunStates
<1>5. run'[r].gathered =
         run[r].gathered \cup IF y.status = "staged" THEN TargetsOf[SourceAt(r, i)] ELSE {}
  BY <1>1 DEF Ends, TypeOK, RunStates
<1>6. TypeOK'
  <2>1. inFlight' \subseteq Contents
    BY <1>1 DEF Ends, TypeOK
  <2>2. store' \in Shows
    BY DEF Ends, Show, Shows
  <2> QED
    BY <1>1, <1>2, <1>3, <2>1, <2>2 DEF TypeOK
<1>7. LocalInv'
  <2>1. ASSUME NEW s \in Runs PROVE (BatchOk(s) /\ IdsOk(s) /\ RejectedOk(s))'
    BY <1>1, <1>2, <1>4 DEF LocalInv, BatchOk, IdsOk, RejectedOk
  <2>2. ASSUME NEW s \in Runs, NEW j \in Positions PROVE (ItemOk(s, j) /\ CallsOk(s, j))'
    <3>1. CASE <<s, j>> = <<r, i>>
      BY <1>1, <1>2, <1>4, <3>1 DEF LocalInv, ItemOk, CallsOk, Ends
    <3>2. CASE <<s, j>> # <<r, i>>
      BY <1>1, <1>2, <1>4, <3>2 DEF LocalInv, ItemOk, CallsOk
    <3> QED
      BY <3>1, <3>2
  <2>3. ASSUME NEW q \in QueueIds PROVE ActiveOk(q)'
    BY <1>1, <1>4 DEF LocalInv, ActiveOk, GoesOn, TypeOK
  <2> QED
    BY <2>1, <2>2, <2>3 DEF LocalInv
<1>8. ASSUME NEW s \in Runs PROVE WorkersOk(s)'
  <2>1. run[s].live \in Nat
    BY <1>1 DEF TypeOK, RunStates
  <2>2. Held(s)' \subseteq Held(s)
    BY <1>2 DEF Held, Ends
  <2> QED
    BY <1>1, <1>4, <2>1, <2>2, WorkersKept
<1>9. ASSUME NEW s \in Runs PROVE GatheredOk(s)'
  <2>1. CASE s # r
    BY <1>1, <1>2, <1>4, <2>1, GatheredKept
  <2>2. CASE s = r /\ y.status # "staged"
    <3>1. \A j \in Positions : (item'[r][j].status = "staged") <=> (item[r][j].status = "staged")
      BY <1>1, <1>2, <2>2
    <3>2. run'[r].gathered = run[r].gathered
      BY <1>5, <2>2
    <3> QED
      BY <1>1, <1>4, <2>2, <3>1, <3>2, GatheredKept
  <2>3. CASE s = r /\ y.status = "staged"
    <3> DEFINE S == {j \in Positions : item[r][j].status = "staged"}
    <3>1. {j \in Positions : item'[r][j].status = "staged"} = S \cup {i}
      BY <1>2, <2>3
    <3>2. \A j : SourceAt(r, j)' = SourceAt(r, j)
      BY <1>4 DEF SourceAt
    <3>3. run[r].gathered = UNION {TargetsOf[SourceAt(r, j)] : j \in S}
      BY <1>1 DEF GatheredOk
    <3>4. run'[r].gathered = run[r].gathered \cup TargetsOf[SourceAt(r, i)]
      BY <1>5, <2>3
    <3> HIDE DEF S
    <3>5. run'[r].gathered = UNION {TargetsOf[SourceAt(r, j)] : j \in S \cup {i}}
      BY <3>3, <3>4
    <3> QED
      BY <2>3, <3>1, <3>2, <3>5 DEF GatheredOk
  <2> QED
    BY <2>1, <2>2, <2>3
<1> QED
  BY <1>6, <1>7, <1>8, <1>9 DEF RunsInv, LocalInv

LEMMA MovesOnKeepsRuns ==
  ASSUME RunsInv, NEW r \in Runs, NEW i \in Positions, item[r][i].stage # "none",
         UNCHANGED OtherVars, NEW y, MovesOn(r, i, y)
  PROVE  RunsInv'
<1> USE DEF OtherVars
<1>1. /\ TypeOK /\ LocalInv /\ \A s \in Runs : WorkersOk(s) /\ GatheredOk(s)
      /\ item[r][i].status = "running"
      /\ run[r].phase \in {"running", "rejected"}
      /\ ContentOf[SourceAt(r, i)] \in Contents
      /\ run' = run
  BY RunsInvParts, HeldItem DEF MovesOn
<1>2. /\ item' \in [Runs -> [Positions -> ItemStates]]
      /\ item'[r][i] = y
      /\ \A s \in Runs, j \in Positions : <<s, j>> # <<r, i>> => item'[s][j] = item[s][j]
  <2>1. y \in ItemStates /\ item' = [item EXCEPT ![r][i] = y]
    BY DEF MovesOn
  <2> QED
    BY <1>1, <2>1 DEF TypeOK
<1>3. TypeOK'
  <2>1. inFlight' \subseteq Contents
    BY <1>1 DEF MovesOn, TypeOK
  <2> QED
    BY <1>1, <1>2, <2>1 DEF TypeOK, MovesOn
<1>4. \A s \in Runs, j \in Positions : item'[s][j].status = item[s][j].status
  BY <1>2 DEF MovesOn
<1>5. LocalInv'
  <2>1. ASSUME NEW s \in Runs PROVE (BatchOk(s) /\ IdsOk(s) /\ RejectedOk(s))'
    BY <1>1, <1>4 DEF LocalInv, BatchOk, IdsOk, RejectedOk
  <2>2. ASSUME NEW s \in Runs, NEW j \in Positions PROVE (ItemOk(s, j) /\ CallsOk(s, j))'
    <3>1. CASE <<s, j>> = <<r, i>>
      BY <1>1, <1>2, <3>1 DEF LocalInv, ItemOk, CallsOk, MovesOn
    <3>2. CASE <<s, j>> # <<r, i>>
      BY <1>1, <1>2, <3>2 DEF LocalInv, ItemOk, CallsOk
    <3> QED
      BY <3>1, <3>2
  <2>3. ASSUME NEW q \in QueueIds PROVE ActiveOk(q)'
    BY <1>1 DEF LocalInv, ActiveOk, GoesOn, TypeOK
  <2> QED
    BY <2>1, <2>2, <2>3 DEF LocalInv
<1>6. ASSUME NEW s \in Runs PROVE WorkersOk(s)'
  <2>1. run[s].live \in Nat
    BY <1>1 DEF TypeOK, RunStates
  <2>2. Held(s)' \subseteq Held(s)
    BY <1>2 DEF Held, MovesOn
  <2> QED
    BY <1>1, <2>1, <2>2, WorkersKept
<1>7. ASSUME NEW s \in Runs PROVE GatheredOk(s)'
  BY <1>1, <1>4, GatheredKept
<1> QED
  BY <1>3, <1>5, <1>6, <1>7 DEF RunsInv, LocalInv

LEMMA StartRunKeepsRuns ==
  ASSUME RunsInv, NEW r \in Runs, NEW b \in Batches, NEW q \in QueueIds, StartRun(r, b, q)
  PROVE  RunsInv'
<1> DEFINE v == [NoRun EXCEPT !.phase = "preparing", !.batch = b, !.id = q, !.snapshot = listed]
<1>1. /\ TypeOK /\ LocalInv /\ \A s \in Runs : WorkersOk(s) /\ GatheredOk(s)
      /\ run[r].phase = "idle"
      /\ BatchOk(r)
      /\ b # <<>>
  BY RunsInvParts, PositionsOfBatch DEF StartRun, LocalInv
<1>2. /\ v \in RunStates
      /\ v.phase = "preparing" /\ v.batch = b /\ v.id = q /\ v.pending = {} /\ v.live = 0
      /\ v.gathered = {} /\ v.canceled = FALSE
  <2>1. listed \in SUBSET Targets
    BY <1>1 DEF TypeOK
  <2> QED
    BY <2>1, NoRunIsRun DEF RunStates, Phases
<1>3. run' = [run EXCEPT ![r] = v] /\ item' = item
  BY DEF StartRun
<1> HIDE DEF v
<1>4. /\ run' \in [Runs -> RunStates]
      /\ run'[r] = v
      /\ \A s \in Runs \ {r} : run'[s] = run[s]
  BY <1>1, <1>2, <1>3 DEF TypeOK
<1>5. \A i \in Positions : item[r][i].status = "none" /\ item[r][i].stage = "none"
  <2>1. run[r].batch = <<>>
    BY <1>1 DEF BatchOk
  <2>2. \A i : i \notin DOMAIN run[r].batch
    BY <2>1
  <2> QED
    BY <1>1, <2>2 DEF BatchOk, LocalInv, ItemOk
<1>6. TypeOK'
  <2>1. store' \in Shows
    BY <1>1 DEF StartRun, Shows, TypeOK, QueueStatuses
  <2>2. active' \in [QueueIds -> Runs \cup {None}]
    BY <1>1 DEF StartRun, TypeOK
  <2> QED
    BY <1>1, <1>4, <2>1, <2>2 DEF StartRun, TypeOK
<1>7. LocalInv'
  <2>1. ASSUME NEW s \in Runs PROVE (BatchOk(s) /\ IdsOk(s) /\ RejectedOk(s))'
    BY <1>1, <1>2, <1>3, <1>4, <1>5 DEF LocalInv, BatchOk, IdsOk, RejectedOk, StartRun
  <2>2. ASSUME NEW s \in Runs, NEW i \in Positions PROVE (ItemOk(s, i) /\ CallsOk(s, i))'
    <3>1. CallsOk(s, i)'
      BY <1>1, <1>3 DEF LocalInv, CallsOk
    <3>2. CASE s = r
      BY <1>2, <1>3, <1>4, <1>5, <3>1, <3>2 DEF ItemOk
    <3>3. CASE s # r
      BY <1>1, <1>3, <1>4, <3>1, <3>3 DEF LocalInv, ItemOk
    <3> QED
      BY <3>2, <3>3
  <2>3. ASSUME NEW p \in QueueIds PROVE ActiveOk(p)'
    BY <1>1, <1>2, <1>4, NoneIsNothing DEF LocalInv, ActiveOk, GoesOn, TypeOK, StartRun
  <2> QED
    BY <2>1, <2>2, <2>3 DEF LocalInv
<1>8. ASSUME NEW s \in Runs PROVE (WorkersOk(s) /\ GatheredOk(s))'
  <2>1. CASE s = r
    <3>1. Held(r)' = {}
      BY <1>3, <1>5 DEF Held
    <3>2. {i \in Positions : item'[r][i].status = "staged"} = {}
      BY <1>3, <1>5
    <3>3. GatheredOk(r)'
      BY <1>2, <1>4, <3>2 DEF GatheredOk
    <3> QED
      BY <1>2, <1>4, <2>1, <3>1, <3>3, FS_EmptySet DEF WorkersOk
  <2>2. CASE s # r
    <3>1. Held(s)' = Held(s)
      BY <1>3 DEF Held
    <3> QED
      BY <1>1, <1>3, <1>4, <2>2, <3>1, GatheredKept DEF WorkersOk
  <2> QED
    BY <2>1, <2>2
<1> QED
  BY <1>6, <1>7, <1>8 DEF RunsInv, LocalInv

LEMMA RefuseRunKeepsRuns ==
  ASSUME RunsInv, NEW r \in Runs, NEW q \in QueueIds, RefuseRun(r, q)
  PROVE  RunsInv'
<1>1. /\ TypeOK /\ LocalInv /\ \A s \in Runs : WorkersOk(s) /\ GatheredOk(s)
      /\ run[r].phase = "idle"
      /\ item' = item
  BY RunsInvParts DEF RefuseRun
<1>2. \A v \in RunStates : [v EXCEPT !.phase = "refused", !.id = q] \in RunStates
  BY DEF RunStates, Phases
<1>3. run' \in [Runs -> RunStates]
  BY <1>1, <1>2 DEF RefuseRun, TypeOK
<1>4. \A s \in Runs :
         /\ run'[s].batch = run[s].batch /\ run'[s].pending = run[s].pending
         /\ run'[s].live = run[s].live /\ run'[s].canceled = run[s].canceled
         /\ run'[s].gathered = run[s].gathered
         /\ s # r => run'[s].phase = run[s].phase /\ run'[s].id = run[s].id
  BY <1>1 DEF RefuseRun, TypeOK, RunStates
<1>5. run'[r].phase = "refused" /\ run'[r].id = q
  BY <1>1 DEF RefuseRun, TypeOK, RunStates
<1>6. TypeOK'
  <2>1. store' \in Shows
    BY DEF RefuseRun, Show, Shows, QueueStatuses
  <2> QED
    BY <1>1, <1>3, <2>1 DEF RefuseRun, TypeOK
<1>7. LocalInv'
  <2>1. ASSUME NEW s \in Runs PROVE (BatchOk(s) /\ IdsOk(s) /\ RejectedOk(s))'
    <3>1. BatchOk(s)'
      <4>1. BatchOk(s)
        BY <1>1 DEF LocalInv
      <4>2. run'[s].phase \in {"idle", "refused"} <=> run[s].phase \in {"idle", "refused"}
        BY <1>1, <1>4, <1>5
      <4> QED
        BY <1>1, <1>4, <4>1, <4>2, BatchKept
    <3>2. (IdsOk(s) /\ RejectedOk(s))'
      BY <1>1, <1>4, <1>5 DEF LocalInv, IdsOk, RejectedOk, RefuseRun
    <3> QED
      BY <3>1, <3>2
  <2>2. ASSUME NEW s \in Runs, NEW i \in Positions PROVE (ItemOk(s, i) /\ CallsOk(s, i))'
    BY <1>1, <1>4, <1>5 DEF LocalInv, CallsOk, ItemOk
  <2>3. ASSUME NEW p \in QueueIds PROVE ActiveOk(p)'
    BY <1>1, <1>4 DEF LocalInv, ActiveOk, GoesOn, TypeOK, RefuseRun
  <2> QED
    BY <2>1, <2>2, <2>3 DEF LocalInv
<1>8. ASSUME NEW s \in Runs PROVE (WorkersOk(s) /\ GatheredOk(s))'
  <2>1. Held(s)' = Held(s)
    BY <1>1 DEF Held
  <2> QED
    BY <1>1, <1>4, <2>1, GatheredKept DEF WorkersOk
<1> QED
  BY <1>6, <1>7, <1>8 DEF RunsInv, LocalInv

(* The item a round of prepareItems looks at, and what becomes of it.       *)
Prepares(r, i, y) ==
    /\ i \in DOMAIN run[r].batch
    /\ item[r][i].status = "none"
    /\ y \in ItemStates
    /\ y.status \in {"failed", "skipped", "queued"}
    /\ y.stage = "none"
    /\ y.calls = 0
    /\ y.status = "queued" => ~QueueDuplicate(r, i)
    /\ item' = [item EXCEPT ![r][i] = y]

LEMMA PrepareItemPrepares ==
  ASSUME RunsInv, NEW r \in Runs, PrepareItem(r)
  PROVE  \E i \in Positions, y \in ItemStates : Prepares(r, i, y)
<1> DEFINE i == Min(Unprepared(r))
<1>1. run[r] \in RunStates /\ BatchOk(r) /\ run[r].phase = "preparing" /\ listed \subseteq Targets
  BY DEF RunsInv, TypeOK, PrepareItem
<1>2. run[r].batch \in Batches
  BY <1>1 DEF BatchOk, RunStates
<1>3. Unprepared(r) \subseteq Nat /\ Unprepared(r) # {}
  BY <1>2, PositionsOfBatch DEF Unprepared, PrepareItem
<1>4. i \in Unprepared(r)
  BY <1>3, MinOfNaturals
<1>5. i \in Positions /\ i \in DOMAIN run[r].batch /\ item[r][i].status = "none"
  BY <1>2, <1>4, PositionsOfBatch DEF Unprepared
<1>8. run[r].snapshot \in SUBSET Targets
  BY <1>1 DEF RunStates
<1> HIDE DEF i
<1>9. CASE \E st \in {"failed", "skipped"}, d \in {"none", "denied"} : Becomes(r, i, st, d)
  <2>1. PICK st \in {"failed", "skipped"}, d \in {"none", "denied"} : Becomes(r, i, st, d)
    BY <1>9
  <2> DEFINE y == [NoItem EXCEPT !.status = st, !.decision = d]
  <2>2. y \in ItemStates /\ y.status = st /\ y.stage = "none" /\ y.calls = 0
    BY NoItemIsItem DEF ItemStates, ItemStatuses
  <2>3. item' = [item EXCEPT ![r][i] = y]
    BY <2>1 DEF Becomes
  <2> HIDE DEF y
  <2>4. Prepares(r, i, y)
    BY <1>5, <2>2, <2>3 DEF Prepares
  <2> QED
    BY <1>5, <2>2, <2>4
<1>10. CASE /\ ~QueueDuplicate(r, i)
            /\ \E d \in {"none", "allowed"} :
                  item' = [item EXCEPT ![r][i] =
                             [NoItem EXCEPT !.status = "queued", !.known = run[r].snapshot,
                                            !.decision = d]]
  <2>1. PICK d \in {"none", "allowed"} :
                item' = [item EXCEPT ![r][i] =
                           [NoItem EXCEPT !.status = "queued", !.known = run[r].snapshot,
                                          !.decision = d]]
    BY <1>10
  <2> DEFINE y == [NoItem EXCEPT !.status = "queued", !.known = run[r].snapshot, !.decision = d]
  <2>2. y \in ItemStates /\ y.status = "queued" /\ y.stage = "none" /\ y.calls = 0
    BY <1>8, NoItemIsItem DEF ItemStates, ItemStatuses
  <2>3. item' = [item EXCEPT ![r][i] = y]
    BY <2>1
  <2> HIDE DEF y
  <2>4. Prepares(r, i, y)
    BY <1>5, <1>10, <2>2, <2>3 DEF Prepares
  <2> QED
    BY <1>5, <2>2, <2>4
<1> QED
  BY <1>9, <1>10 DEF PrepareItem, i

LEMMA PrepareItemKeepsRuns ==
  ASSUME RunsInv, NEW r \in Runs, PrepareItem(r)
  PROVE  RunsInv'
<1>1. /\ TypeOK /\ LocalInv /\ \A s \in Runs : WorkersOk(s) /\ GatheredOk(s)
      /\ run[r].phase = "preparing"
      /\ run' = [run EXCEPT ![r].snapshot = listed]
  BY RunsInvParts DEF PrepareItem
<1>2. PICK i \in Positions, y \in ItemStates : Prepares(r, i, y)
  BY PrepareItemPrepares
<1>3. /\ item' \in [Runs -> [Positions -> ItemStates]]
      /\ item'[r][i] = y
      /\ \A s \in Runs, j \in Positions : <<s, j>> # <<r, i>> => item'[s][j] = item[s][j]
  BY <1>1, <1>2 DEF TypeOK, Prepares
<1>4. run' \in [Runs -> RunStates]
  <2>1. run[r] \in RunStates /\ listed \in SUBSET Targets
    BY <1>1 DEF TypeOK
  <2>2. [run[r] EXCEPT !.snapshot = listed] \in RunStates
    BY <2>1 DEF RunStates
  <2> QED
    BY <1>1, <2>2 DEF TypeOK
<1>5. \A s \in Runs :
         /\ run'[s].phase = run[s].phase /\ run'[s].batch = run[s].batch
         /\ run'[s].id = run[s].id /\ run'[s].pending = run[s].pending
         /\ run'[s].live = run[s].live /\ run'[s].canceled = run[s].canceled
         /\ run'[s].gathered = run[s].gathered
  BY <1>1 DEF TypeOK, RunStates
<1>6. TypeOK'
  BY <1>1, <1>3, <1>4 DEF TypeOK, PrepareItem
<1>7. LocalInv'
  <2>1. ASSUME NEW s \in Runs PROVE (BatchOk(s) /\ IdsOk(s) /\ RejectedOk(s))'
    BY <1>1, <1>2, <1>3, <1>5 DEF LocalInv, BatchOk, IdsOk, RejectedOk, PrepareItem, Prepares
  <2>2. ASSUME NEW s \in Runs, NEW j \in Positions PROVE (ItemOk(s, j) /\ CallsOk(s, j))'
    <3>1. CASE <<s, j>> = <<r, i>>
      BY <1>1, <1>2, <1>3, <1>5, <3>1 DEF LocalInv, ItemOk, CallsOk, Prepares
    <3>2. CASE <<s, j>> # <<r, i>>
      BY <1>1, <1>3, <1>5, <3>2 DEF LocalInv, ItemOk, CallsOk
    <3> QED
      BY <3>1, <3>2
  <2>3. ASSUME NEW q \in QueueIds PROVE ActiveOk(q)'
    BY <1>1, <1>5 DEF LocalInv, ActiveOk, GoesOn, TypeOK, PrepareItem
  <2> QED
    BY <2>1, <2>2, <2>3 DEF LocalInv
<1>8. ASSUME NEW s \in Runs PROVE (WorkersOk(s) /\ GatheredOk(s))'
  <2>1. run[s].live \in Nat
    BY <1>1 DEF TypeOK, RunStates
  <2>2. Held(s)' \subseteq Held(s)
    BY <1>2, <1>3 DEF Held, Prepares
  <2>3. \A j \in Positions : (item'[s][j].status = "staged") <=> (item[s][j].status = "staged")
    BY <1>2, <1>3 DEF Prepares
  <2> QED
    BY <1>1, <1>5, <2>1, <2>2, <2>3, WorkersKept, GatheredKept
<1> QED
  BY <1>6, <1>7, <1>8 DEF RunsInv, LocalInv

LEMMA StartWorkersKeepsRuns ==
  ASSUME RunsInv, NEW r \in Runs, StartWorkers(r)
  PROVE  RunsInv'
<1> DEFINE runnable == {i \in Positions : item[r][i].status = "queued"}
           workers == Min({Concurrency, Cardinality(runnable)})
<1>1. /\ TypeOK /\ LocalInv /\ \A s \in Runs : WorkersOk(s) /\ GatheredOk(s)
      /\ run[r].phase = "preparing"
      /\ item' = item
      /\ UNCHANGED <<active, inFlight, listed, allowed, asked, disposed, faults>>
  BY RunsInvParts DEF StartWorkers
<1>11. run' = [run EXCEPT ![r].phase = "running", ![r].snapshot = {},
                            ![r].pending = runnable, ![r].live = workers]
  BY DEF StartWorkers
<1>2. run[r].batch \in Batches /\ BatchOk(r)
  BY <1>1 DEF TypeOK, RunStates, LocalInv, BatchOk
<1>3. workers \in 0 .. 4
  <2>1. run[r].batch \in Seq(Sources)
    BY <1>2, PositionsOfBatch
  <2>2. IsFiniteSet(DOMAIN run[r].batch)
    BY <2>1, FS_Interval
  <2>3. runnable \subseteq DOMAIN run[r].batch
    BY <1>2 DEF BatchOk
  <2>4. Cardinality(runnable) \in Nat
    BY <2>2, <2>3, FS_Subset, FS_CardinalityType
  <2>5. {Concurrency, Cardinality(runnable)} \subseteq Nat
    BY <2>4, ConcurrencyInRange
  <2>6. workers \in Nat /\ workers <= Concurrency
    BY <2>5, MinOfNaturals
  <2> HIDE DEF workers
  <2> QED
    BY <2>6, ConcurrencyInRange
<1>4. runnable \subseteq Positions
  OBVIOUS
<1>5. /\ \A i \in Positions : i \in runnable <=> item[r][i].status = "queued"
      /\ \A i \in DOMAIN run[r].batch : item[r][i].status # "none"
  BY DEF StartWorkers, Unprepared
<1> HIDE DEF runnable, workers
<1>6. run' \in [Runs -> RunStates]
  <2>1. run[r] \in RunStates
    BY <1>1 DEF TypeOK
  <2>2. [run[r] EXCEPT !.phase = "running", !.snapshot = {}, !.pending = runnable,
                       !.live = workers] \in RunStates
    BY <1>3, <1>4, <2>1 DEF RunStates, Phases
  <2> QED
    BY <1>1, <1>11, <2>2 DEF TypeOK
<1>7. /\ run'[r].phase = "running" /\ run'[r].pending = runnable /\ run'[r].live = workers
      /\ \A s \in Runs :
            /\ run'[s].batch = run[s].batch /\ run'[s].id = run[s].id
            /\ run'[s].canceled = run[s].canceled /\ run'[s].gathered = run[s].gathered
            /\ s # r => /\ run'[s].phase = run[s].phase
                        /\ run'[s].pending = run[s].pending /\ run'[s].live = run[s].live
  BY <1>1, <1>11 DEF TypeOK, RunStates
<1>8. TypeOK'
  <2>1. store' \in Shows
    BY StatusOfItems DEF StartWorkers, Emit, Show, Shows
  <2> QED
    BY <1>1, <1>6, <2>1 DEF TypeOK
<1>9. LocalInv'
  <2>1. ASSUME NEW s \in Runs PROVE (BatchOk(s) /\ IdsOk(s) /\ RejectedOk(s))'
    BY <1>1, <1>7 DEF LocalInv, BatchOk, IdsOk, RejectedOk
  <2>2. ASSUME NEW s \in Runs, NEW j \in Positions PROVE (ItemOk(s, j) /\ CallsOk(s, j))'
    <3>1. CASE s = r
      BY <1>1, <1>5, <1>7, <3>1 DEF LocalInv, ItemOk, CallsOk
    <3>2. CASE s # r
      BY <1>1, <1>7, <3>2 DEF LocalInv, ItemOk, CallsOk
    <3> QED
      BY <3>1, <3>2
  <2>3. ASSUME NEW q \in QueueIds PROVE ActiveOk(q)'
    BY <1>1, <1>7 DEF LocalInv, ActiveOk, GoesOn, TypeOK
  <2> QED
    BY <2>1, <2>2, <2>3 DEF LocalInv
<1>10. ASSUME NEW s \in Runs PROVE (WorkersOk(s) /\ GatheredOk(s))'
  <2>1. GatheredOk(s)'
    BY <1>1, <1>7, GatheredKept
  <2>2. CASE s = r
    <3>1. Held(r)' = {}
      BY <1>1 DEF Held, LocalInv, ItemOk
    <3> QED
      BY <1>3, <1>7, <2>1, <2>2, <3>1, FS_EmptySet DEF WorkersOk
  <2>3. CASE s # r
    <3>1. Held(s)' = Held(s)
      BY <1>1 DEF Held
    <3> QED
      BY <1>1, <1>7, <2>1, <2>3, <3>1 DEF WorkersOk
  <2> QED
    BY <2>2, <2>3
<1> QED
  BY <1>8, <1>9, <1>10 DEF RunsInv, LocalInv

(* The next item a worker finds.                                            *)
LEMMA NextPending ==
  ASSUME RunsInv, NEW r \in Runs, CanPick(r)
  PROVE  LET i == Min(run[r].pending)
         IN  /\ i \in run[r].pending /\ i \in Positions
             /\ i \in DOMAIN run[r].batch
             /\ item[r][i].stage = "none"
             /\ item[r][i].status \in {"queued", "canceled"}
             /\ item[r][i].status = "canceled" => run[r].canceled
             /\ run[r].phase \in {"running", "rejected"}
<1> DEFINE i == Min(run[r].pending)
<1>1. run[r] \in RunStates /\ BatchOk(r) /\ \A j \in Positions : ItemOk(r, j)
  BY DEF RunsInv, TypeOK
<1>2. run[r].pending \subseteq Positions
  BY <1>1 DEF RunStates
<1>3. i \in run[r].pending /\ i \in Positions
  BY <1>2, PositionsAreNaturals, MinOfNaturals DEF CanPick
<1> HIDE DEF i
<1>4. /\ i \in DOMAIN run[r].batch
      /\ item[r][i].stage = "none"
      /\ item[r][i].status \in {"queued", "canceled"}
      /\ item[r][i].status = "canceled" => run[r].canceled
      /\ run[r].phase \in {"running", "rejected"}
  BY <1>1, <1>3 DEF ItemOk, BatchOk
<1> QED
  BY <1>3, <1>4 DEF i

LEMMA StartItemKeepsRuns ==
  ASSUME RunsInv, NEW r \in Runs, StartItem(r)
  PROVE  RunsInv'
<1> DEFINE i == Min(run[r].pending)
           y == [item[r][i] EXCEPT !.status = "running", !.stage = "preview",
                                   !.known = @ \cup listed \cup run[r].gathered]
<1>1. /\ TypeOK /\ LocalInv /\ \A s \in Runs : WorkersOk(s) /\ GatheredOk(s)
      /\ CanPick(r) /\ ~run[r].canceled
      /\ UNCHANGED <<active, inFlight, listed, allowed, asked, disposed, faults>>
  BY RunsInvParts DEF StartItem
<1>12. run' = [run EXCEPT ![r].pending = @ \ {i}]
  BY DEF StartItem, Pick
<1>13. item' = [item EXCEPT ![r][i] = y]
  BY DEF StartItem
<1>2. /\ i \in run[r].pending /\ i \in Positions
      /\ i \in DOMAIN run[r].batch
      /\ item[r][i].stage = "none"
      /\ item[r][i].status = "queued"
      /\ run[r].phase \in {"running", "rejected"}
  BY <1>1, NextPending
<1> HIDE DEF i
<1>3. item[r][i] \in ItemStates /\ item[r][i].calls = 0
  BY <1>1, <1>2 DEF TypeOK, LocalInv, CallsOk
<1>4. listed \subseteq Targets /\ run[r].gathered \subseteq Targets
  BY <1>1 DEF TypeOK, RunStates
<1>5. y \in ItemStates /\ y.status = "running" /\ y.stage = "preview" /\ y.calls = 0
  BY <1>3, <1>4 DEF ItemStates, ItemStatuses
<1> HIDE DEF y
<1>6. /\ item' \in [Runs -> [Positions -> ItemStates]]
      /\ item'[r][i] = y
      /\ \A s \in Runs, j \in Positions : <<s, j>> # <<r, i>> => item'[s][j] = item[s][j]
  BY <1>1, <1>2, <1>5, <1>13 DEF TypeOK
<1>7. run' \in [Runs -> RunStates]
  <2>1. run[r] \in RunStates
    BY <1>1 DEF TypeOK
  <2>2. [run[r] EXCEPT !.pending = @ \ {i}] \in RunStates
    BY <2>1 DEF RunStates
  <2> QED
    BY <1>1, <1>12, <2>2 DEF TypeOK
<1>8. /\ run'[r].pending = run[r].pending \ {i}
      /\ \A s \in Runs :
            /\ run'[s].batch = run[s].batch /\ run'[s].id = run[s].id
            /\ run'[s].phase = run[s].phase /\ run'[s].live = run[s].live
            /\ run'[s].canceled = run[s].canceled /\ run'[s].gathered = run[s].gathered
            /\ s # r => run'[s].pending = run[s].pending
  BY <1>1, <1>12 DEF TypeOK, RunStates
<1>9. TypeOK'
  <2>1. store' \in Shows
    BY StatusOfItems DEF StartItem, Emit, Show, Shows
  <2> QED
    BY <1>1, <1>6, <1>7, <2>1 DEF TypeOK, StartItem
<1>10. LocalInv'
  <2>1. ASSUME NEW s \in Runs PROVE (BatchOk(s) /\ IdsOk(s) /\ RejectedOk(s))'
    BY <1>1, <1>2, <1>6, <1>8 DEF LocalInv, BatchOk, IdsOk, RejectedOk
  <2>2. ASSUME NEW s \in Runs, NEW j \in Positions PROVE (ItemOk(s, j) /\ CallsOk(s, j))'
    <3>1. CASE <<s, j>> = <<r, i>>
      BY <1>1, <1>2, <1>5, <1>6, <1>8, <3>1 DEF LocalInv, ItemOk, CallsOk
    <3>2. CASE <<s, j>> # <<r, i>>
      BY <1>1, <1>6, <1>8, <3>2 DEF LocalInv, ItemOk, CallsOk
    <3> QED
      BY <3>1, <3>2
  <2>3. ASSUME NEW q \in QueueIds PROVE ActiveOk(q)'
    BY <1>1, <1>8 DEF LocalInv, ActiveOk, GoesOn, TypeOK
  <2> QED
    BY <2>1, <2>2, <2>3 DEF LocalInv
<1>11. ASSUME NEW s \in Runs PROVE (WorkersOk(s) /\ GatheredOk(s))'
  <2>1. \A j \in Positions : (item'[s][j].status = "staged") <=> (item[s][j].status = "staged")
    BY <1>2, <1>5, <1>6
  <2>2. GatheredOk(s)'
    BY <1>1, <1>8, <2>1, GatheredKept
  <2>3. CASE s = r
    <3>1. Held(r)' = Held(r) \cup {i} /\ i \notin Held(r)
      BY <1>2, <1>5, <1>6 DEF Held
    <3>2. IsFiniteSet(Held(r)) /\ Cardinality(Held(r)) < run[r].live
      BY <1>1 DEF WorkersOk, CanPick
    <3>3. Cardinality(Held(r)) \in Nat /\ run[r].live \in Nat
      BY <1>1, <3>2, FS_CardinalityType DEF TypeOK, RunStates
    <3>4. IsFiniteSet(Held(r)') /\ Cardinality(Held(r)') = Cardinality(Held(r)) + 1
      BY <3>1, <3>2, FS_AddElement
    <3> QED
      BY <1>8, <2>2, <2>3, <3>2, <3>3, <3>4 DEF WorkersOk
  <2>4. CASE s # r
    <3>1. Held(s)' = Held(s)
      BY <1>6, <2>4 DEF Held
    <3> QED
      BY <1>1, <1>8, <2>2, <3>1 DEF WorkersOk
  <2> QED
    BY <2>3, <2>4
<1> QED
  BY <1>9, <1>10, <1>11 DEF RunsInv, LocalInv

LEMMA CancelUnstartedKeepsRuns ==
  ASSUME RunsInv, NEW r \in Runs, CancelUnstarted(r)
  PROVE  RunsInv'
<1> DEFINE i == Min(run[r].pending)
           y == [item[r][i] EXCEPT !.status = "canceled"]
<1>1. /\ TypeOK /\ LocalInv /\ \A s \in Runs : WorkersOk(s) /\ GatheredOk(s)
      /\ CanPick(r) /\ run[r].canceled
      /\ UNCHANGED <<active, inFlight, listed, allowed, asked, disposed, faults>>
  BY RunsInvParts DEF CancelUnstarted
<1>12. run' = [run EXCEPT ![r].pending = @ \ {i}]
  BY DEF CancelUnstarted, Pick
<1>13. item' = [item EXCEPT ![r][i] = y]
  BY DEF CancelUnstarted
<1>2. /\ i \in run[r].pending /\ i \in Positions
      /\ i \in DOMAIN run[r].batch
      /\ item[r][i].stage = "none"
      /\ item[r][i].status \in {"queued", "canceled"}
      /\ run[r].phase \in {"running", "rejected"}
  BY <1>1, NextPending
<1> HIDE DEF i
<1>3. item[r][i] \in ItemStates
  BY <1>1, <1>2 DEF TypeOK
<1>4. y \in ItemStates /\ y.status = "canceled" /\ y.stage = "none" /\ y.calls = item[r][i].calls
  BY <1>2, <1>3 DEF ItemStates, ItemStatuses
<1> HIDE DEF y
<1>5. /\ item' \in [Runs -> [Positions -> ItemStates]]
      /\ item'[r][i] = y
      /\ \A s \in Runs, j \in Positions : <<s, j>> # <<r, i>> => item'[s][j] = item[s][j]
  BY <1>1, <1>2, <1>4, <1>13 DEF TypeOK
<1>6. run' \in [Runs -> RunStates]
  <2>1. run[r] \in RunStates
    BY <1>1 DEF TypeOK
  <2>2. [run[r] EXCEPT !.pending = @ \ {i}] \in RunStates
    BY <2>1 DEF RunStates
  <2> QED
    BY <1>1, <1>12, <2>2 DEF TypeOK
<1>7. /\ run'[r].pending = run[r].pending \ {i}
      /\ \A s \in Runs :
            /\ run'[s].batch = run[s].batch /\ run'[s].id = run[s].id
            /\ run'[s].phase = run[s].phase /\ run'[s].live = run[s].live
            /\ run'[s].canceled = run[s].canceled /\ run'[s].gathered = run[s].gathered
            /\ s # r => run'[s].pending = run[s].pending
  BY <1>1, <1>12 DEF TypeOK, RunStates
<1>8. TypeOK'
  <2>1. store' \in Shows
    BY StatusOfItems DEF CancelUnstarted, Emit, Show, Shows
  <2> QED
    BY <1>1, <1>5, <1>6, <2>1 DEF TypeOK, CancelUnstarted
<1>9. LocalInv'
  <2>1. ASSUME NEW s \in Runs PROVE (BatchOk(s) /\ IdsOk(s) /\ RejectedOk(s))'
    BY <1>1, <1>2, <1>5, <1>7 DEF LocalInv, BatchOk, IdsOk, RejectedOk
  <2>2. ASSUME NEW s \in Runs, NEW j \in Positions PROVE (ItemOk(s, j) /\ CallsOk(s, j))'
    <3>1. CASE <<s, j>> = <<r, i>>
      BY <1>1, <1>2, <1>4, <1>5, <1>7, <3>1 DEF LocalInv, ItemOk, CallsOk
    <3>2. CASE <<s, j>> # <<r, i>>
      BY <1>1, <1>5, <1>7, <3>2 DEF LocalInv, ItemOk, CallsOk
    <3> QED
      BY <3>1, <3>2
  <2>3. ASSUME NEW q \in QueueIds PROVE ActiveOk(q)'
    BY <1>1, <1>7 DEF LocalInv, ActiveOk, GoesOn, TypeOK
  <2> QED
    BY <2>1, <2>2, <2>3 DEF LocalInv
<1>10. ASSUME NEW s \in Runs PROVE (WorkersOk(s) /\ GatheredOk(s))'
  <2>1. \A j \in Positions : (item'[s][j].status = "staged") <=> (item[s][j].status = "staged")
    BY <1>2, <1>4, <1>5
  <2>2. run[s].live \in Nat
    BY <1>1 DEF TypeOK, RunStates
  <2>3. Held(s)' \subseteq Held(s)
    BY <1>4, <1>5 DEF Held
  <2> QED
    BY <1>1, <1>7, <2>1, <2>2, <2>3, WorkersKept, GatheredKept
<1> QED
  BY <1>8, <1>9, <1>10 DEF RunsInv, LocalInv

(* Aborting changes nothing but the signals, and clears none.               *)
LEMMA AbortedItems ==
  ASSUME NEW items \in [Runs -> [Positions -> ItemStates]], NEW rs
  PROVE  /\ Aborted(items, rs) \in [Runs -> [Positions -> ItemStates]]
         /\ \A s \in Runs, j \in Positions :
               LET y == Aborted(items, rs)[s][j]
               IN  /\ y.status = items[s][j].status
                   /\ y.stage = items[s][j].stage
                   /\ y.calls = items[s][j].calls
                   /\ items[s][j].aborted => y.aborted
                   /\ s \in rs /\ items[s][j].stage # "none" => y.aborted
<1>1. ASSUME NEW s \in Runs, NEW j \in Positions
      PROVE  LET x == items[s][j]
                 y == [x EXCEPT !.aborted = @ \/ (s \in rs /\ x.stage # "none")]
             IN  /\ y \in ItemStates
                 /\ y.status = x.status /\ y.stage = x.stage /\ y.calls = x.calls
                 /\ x.aborted => y.aborted
                 /\ s \in rs /\ x.stage # "none" => y.aborted
  <2>1. items[s][j] \in ItemStates
    OBVIOUS
  <2>2. items[s][j].aborted \in BOOLEAN
    BY <2>1 DEF ItemStates
  <2> QED
    BY <2>1, <2>2 DEF ItemStates
<1> QED
  BY <1>1 DEF Aborted

LEMMA EndRunKeepsRuns ==
  ASSUME RunsInv, NEW r \in Runs, EndRun(r)
  PROVE  RunsInv'
<1>1. /\ TypeOK /\ LocalInv /\ \A s \in Runs : WorkersOk(s) /\ GatheredOk(s)
      /\ run[r].phase = "running" /\ run[r].pending = {}
      /\ \A i \in Positions : item[r][i].stage = "none"
      /\ UNCHANGED <<inFlight, allowed, asked, disposed, faults>>
  BY RunsInvParts DEF EndRun, Held
<1>2. /\ item' \in [Runs -> [Positions -> ItemStates]]
      /\ \A s \in Runs, j \in Positions :
            /\ item'[s][j].status = item[s][j].status
            /\ item'[s][j].stage = item[s][j].stage
            /\ item'[s][j].calls = item[s][j].calls
            /\ item[s][j].aborted => item'[s][j].aborted
  <2>1. item' = Aborted(item, {active[run[r].id]})
    BY DEF EndRun
  <2>2. item \in [Runs -> [Positions -> ItemStates]]
    BY <1>1 DEF TypeOK
  <2> QED
    BY <2>1, <2>2, AbortedItems
<1>3. run' = [run EXCEPT ![r].phase = "done"]
  BY DEF EndRun
<1>4. run' \in [Runs -> RunStates]
  <2>1. run[r] \in RunStates
    BY <1>1 DEF TypeOK
  <2>2. [run[r] EXCEPT !.phase = "done"] \in RunStates
    BY <2>1 DEF RunStates, Phases
  <2> QED
    BY <1>1, <1>3, <2>2 DEF TypeOK
<1>5. /\ run'[r].phase = "done"
      /\ \A s \in Runs :
            /\ run'[s].batch = run[s].batch /\ run'[s].id = run[s].id
            /\ run'[s].pending = run[s].pending /\ run'[s].live = run[s].live
            /\ run'[s].canceled = run[s].canceled /\ run'[s].gathered = run[s].gathered
            /\ s # r => run'[s].phase = run[s].phase
  BY <1>1, <1>3 DEF TypeOK, RunStates
<1>6. TypeOK'
  <2>1. store' \in Shows
    BY StatusOfItems DEF EndRun, Show, Shows
  <2>2. active' \in [QueueIds -> Runs \cup {None}]
    BY <1>1 DEF EndRun, FreeId, TypeOK
  <2>3. listed' \subseteq Targets
    BY <1>1 DEF EndRun, TypeOK, RunStates
  <2> QED
    BY <1>1, <1>2, <1>4, <2>1, <2>2, <2>3 DEF TypeOK
<1>7. LocalInv'
  <2>1. ASSUME NEW s \in Runs PROVE (BatchOk(s) /\ IdsOk(s) /\ RejectedOk(s))'
    <3>1. BatchOk(s)'
      <4>1. BatchOk(s)
        BY <1>1 DEF LocalInv
      <4>2. run'[s].phase \in {"idle", "refused"} <=> run[s].phase \in {"idle", "refused"}
        BY <1>1, <1>5
      <4> QED
        BY <1>2, <1>5, <4>1, <4>2, BatchKept
    <3>2. (IdsOk(s) /\ RejectedOk(s))'
      BY <1>1, <1>5 DEF LocalInv, IdsOk, RejectedOk
    <3> QED
      BY <3>1, <3>2
  <2>2. ASSUME NEW s \in Runs, NEW j \in Positions PROVE (ItemOk(s, j) /\ CallsOk(s, j))'
    <3>1. CASE s = r
      BY <1>1, <1>2, <1>5, <3>1 DEF LocalInv, ItemOk, CallsOk
    <3>2. CASE s # r
      BY <1>1, <1>2, <1>5, <3>2 DEF LocalInv, ItemOk, CallsOk
    <3> QED
      BY <3>1, <3>2
  <2>3. ASSUME NEW p \in QueueIds PROVE ActiveOk(p)'
    <3>1. active' = [active EXCEPT ![run[r].id] = None]
      BY DEF EndRun, FreeId
    <3> QED
      BY <1>1, <1>5, <3>1 DEF LocalInv, ActiveOk, GoesOn, TypeOK
  <2> QED
    BY <2>1, <2>2, <2>3 DEF LocalInv
<1>8. ASSUME NEW s \in Runs PROVE (WorkersOk(s) /\ GatheredOk(s))'
  <2>1. Held(s)' = Held(s)
    BY <1>2 DEF Held
  <2> QED
    BY <1>1, <1>2, <1>5, <2>1, GatheredKept DEF WorkersOk
<1> QED
  BY <1>6, <1>7, <1>8 DEF RunsInv, LocalInv

LEMMA PreparationThrowsKeepsRuns ==
  ASSUME RunsInv, NEW r \in Runs, PreparationThrows(r)
  PROVE  RunsInv'
<1>1. /\ TypeOK /\ LocalInv /\ \A s \in Runs : WorkersOk(s) /\ GatheredOk(s)
      /\ run[r].phase = "preparing"
      /\ UNCHANGED <<inFlight, listed, allowed, asked, disposed>>
      /\ faults < MaxFaults /\ faults' = faults + 1
  BY RunsInvParts DEF PreparationThrows, Throw
<1>2. /\ item' \in [Runs -> [Positions -> ItemStates]]
      /\ \A s \in Runs, j \in Positions :
            /\ item'[s][j].status = item[s][j].status
            /\ item'[s][j].stage = item[s][j].stage
            /\ item'[s][j].calls = item[s][j].calls
            /\ item[s][j].aborted => item'[s][j].aborted
  <2>1. item' = Aborted(item, {active[run[r].id]})
    BY DEF PreparationThrows
  <2>2. item \in [Runs -> [Positions -> ItemStates]]
    BY <1>1 DEF TypeOK
  <2> QED
    BY <2>1, <2>2, AbortedItems
<1>3. run' = [run EXCEPT ![r].phase = "rejected"]
  BY DEF PreparationThrows
<1>4. run' \in [Runs -> RunStates]
  <2>1. run[r] \in RunStates
    BY <1>1 DEF TypeOK
  <2>2. [run[r] EXCEPT !.phase = "rejected"] \in RunStates
    BY <2>1 DEF RunStates, Phases
  <2> QED
    BY <1>1, <1>3, <2>2 DEF TypeOK
<1>5. /\ run'[r].phase = "rejected"
      /\ \A s \in Runs :
            /\ run'[s].batch = run[s].batch /\ run'[s].id = run[s].id
            /\ run'[s].pending = run[s].pending /\ run'[s].live = run[s].live
            /\ run'[s].canceled = run[s].canceled /\ run'[s].gathered = run[s].gathered
            /\ s # r => run'[s].phase = run[s].phase
  BY <1>1, <1>3 DEF TypeOK, RunStates
<1>6. faults' \in 0 .. MaxFaults /\ faults' # 0
  BY <1>1, MaxFaultsIsNatural DEF TypeOK
<1>7. TypeOK'
  <2>1. store' \in Shows
    BY <1>1 DEF PreparationThrows, Shows, TypeOK, QueueStatuses
  <2>2. active' \in [QueueIds -> Runs \cup {None}]
    BY <1>1 DEF PreparationThrows, FreeId, TypeOK
  <2> QED
    BY <1>1, <1>2, <1>4, <1>6, <2>1, <2>2 DEF TypeOK
<1>8. LocalInv'
  <2>1. ASSUME NEW s \in Runs PROVE (BatchOk(s) /\ IdsOk(s) /\ RejectedOk(s))'
    BY <1>1, <1>2, <1>5, <1>6 DEF LocalInv, BatchOk, IdsOk, RejectedOk
  <2>2. ASSUME NEW s \in Runs, NEW j \in Positions PROVE (ItemOk(s, j) /\ CallsOk(s, j))'
    <3>1. CASE s = r
      BY <1>1, <1>2, <1>5, <3>1 DEF LocalInv, ItemOk, CallsOk
    <3>2. CASE s # r
      BY <1>1, <1>2, <1>5, <3>2 DEF LocalInv, ItemOk, CallsOk
    <3> QED
      BY <3>1, <3>2
  <2>3. ASSUME NEW p \in QueueIds PROVE ActiveOk(p)'
    <3>1. active' = [active EXCEPT ![run[r].id] = None]
      BY DEF PreparationThrows, FreeId
    <3> QED
      BY <1>1, <1>5, <3>1 DEF LocalInv, ActiveOk, GoesOn, TypeOK
  <2> QED
    BY <2>1, <2>2, <2>3 DEF LocalInv
<1>9. ASSUME NEW s \in Runs PROVE (WorkersOk(s) /\ GatheredOk(s))'
  <2>1. Held(s)' = Held(s)
    BY <1>2 DEF Held
  <2> QED
    BY <1>1, <1>2, <1>5, <2>1, GatheredKept DEF WorkersOk
<1> QED
  BY <1>7, <1>8, <1>9 DEF RunsInv, LocalInv

(* The item of a throwing worker stays running; its worker is gone.         *)
LEMMA ThrownItem ==
  ASSUME RunsInv, NEW r \in Runs, NEW i \in Positions, ItemThrows(r, i)
  PROVE  /\ item[r][i].stage # "none"
         /\ faults < MaxFaults /\ faults' = faults + 1
         /\ item' \in [Runs -> [Positions -> ItemStates]]
         /\ item'[r][i].status = "running" /\ item'[r][i].stage = "none"
         /\ item'[r][i].calls = item[r][i].calls
         /\ \A s \in Runs, j \in Positions :
               <<s, j>> # <<r, i>> =>
                  /\ item'[s][j].status = item[s][j].status
                  /\ item'[s][j].stage = item[s][j].stage
                  /\ item'[s][j].calls = item[s][j].calls
                  /\ item[s][j].aborted => item'[s][j].aborted
<1> DEFINE thrown == [NoItem EXCEPT !.status = "running", !.calls = item[r][i].calls,
                                    !.decision = item[r][i].decision]
           items == [item EXCEPT ![r][i] = thrown]
<1>1. item \in [Runs -> [Positions -> ItemStates]]
  BY DEF RunsInv, TypeOK
<1>2. item[r][i] \in ItemStates
  BY <1>1
<1>3. /\ item[r][i].calls \in 0 .. MaxAttempts
      /\ item[r][i].decision \in {"none", "allowed", "denied", "failed"}
  BY <1>2 DEF ItemStates
<1>4. /\ thrown \in ItemStates /\ thrown.status = "running" /\ thrown.stage = "none"
      /\ thrown.calls = item[r][i].calls
  BY <1>3, NoItemIsItem DEF ItemStates, ItemStatuses
<1>5. item' \in {items, Aborted(items, {active[run[r].id]})}
  BY DEF ItemThrows
<1>6. item[r][i].stage # "none" /\ faults < MaxFaults /\ faults' = faults + 1
  BY DEF ItemThrows, Throw
<1> HIDE DEF thrown
<1>7. /\ items \in [Runs -> [Positions -> ItemStates]]
      /\ items[r][i] = thrown
      /\ \A s \in Runs, j \in Positions : <<s, j>> # <<r, i>> => items[s][j] = item[s][j]
  BY <1>1, <1>4
<1> HIDE DEF items
<1>8. CASE item' = items
  BY <1>4, <1>6, <1>7, <1>8
<1>9. CASE item' = Aborted(items, {active[run[r].id]})
  BY <1>4, <1>6, <1>7, <1>9, AbortedItems
<1> QED
  BY <1>5, <1>8, <1>9

LEMMA ItemThrowsKeepsRuns ==
  ASSUME RunsInv, NEW r \in Runs, NEW i \in Positions, ItemThrows(r, i)
  PROVE  RunsInv'
<1>1. /\ TypeOK /\ LocalInv /\ \A s \in Runs : WorkersOk(s) /\ GatheredOk(s)
      /\ UNCHANGED <<listed, allowed, asked, disposed>>
  BY RunsInvParts DEF ItemThrows
<1>2. /\ item[r][i].stage # "none" /\ item[r][i].status = "running"
      /\ i \in DOMAIN run[r].batch /\ i \notin run[r].pending
      /\ faults < MaxFaults /\ faults' = faults + 1
      /\ item' \in [Runs -> [Positions -> ItemStates]]
      /\ item'[r][i].status = "running" /\ item'[r][i].stage = "none"
      /\ item'[r][i].calls = item[r][i].calls
      /\ \A s \in Runs, j \in Positions :
            <<s, j>> # <<r, i>> =>
               /\ item'[s][j].status = item[s][j].status
               /\ item'[s][j].stage = item[s][j].stage
               /\ item'[s][j].calls = item[s][j].calls
               /\ item[s][j].aborted => item'[s][j].aborted
  BY ThrownItem, HeldItem
<1>3. faults' \in 0 .. MaxFaults /\ faults' # 0
  BY <1>1, <1>2, MaxFaultsIsNatural DEF TypeOK
<1>4. /\ IsFiniteSet(Held(r)) /\ i \in Held(r)
      /\ Cardinality(Held(r)) \in Nat /\ Cardinality(Held(r)) <= run[r].live
      /\ IsFiniteSet(Held(r) \ {i})
      /\ Cardinality(Held(r) \ {i}) = Cardinality(Held(r)) - 1
      /\ Cardinality(Held(r) \ {i}) \in Nat
  <2>1. i \in Held(r)
    BY <1>2 DEF Held
  <2>2. IsFiniteSet(Held(r)) /\ Cardinality(Held(r)) <= run[r].live
    BY <1>1 DEF WorkersOk
  <2> QED
    BY <2>1, <2>2, FS_RemoveElement, FS_CardinalityType
<1>5. run[r].live \in 0 .. 4 /\ run[r].live - 1 \in 0 .. 4
  BY <1>1, <1>4 DEF TypeOK, RunStates
<1>6. /\ run' \in [Runs -> RunStates]
      /\ run'[r].phase = "rejected"
      /\ run'[r].live = run[r].live - 1
      /\ \A s \in Runs :
            /\ run'[s].batch = run[s].batch /\ run'[s].id = run[s].id
            /\ run'[s].pending = run[s].pending
            /\ run'[s].canceled = run[s].canceled /\ run'[s].gathered = run[s].gathered
            /\ s # r => run'[s].phase = run[s].phase /\ run'[s].live = run[s].live
  <2>1. run \in [Runs -> RunStates]
    BY <1>1 DEF TypeOK
  <2>2. CASE run' = [run EXCEPT ![r].phase = "rejected", ![r].live = @ - 1]
    <3>1. [run[r] EXCEPT !.phase = "rejected", !.live = @ - 1] \in RunStates
      BY <1>5, <2>1 DEF RunStates, Phases
    <3> QED
      BY <2>1, <2>2, <3>1 DEF RunStates
  <2>3. CASE run[r].phase = "rejected" /\ run' = [run EXCEPT ![r].live = @ - 1]
    <3>1. [run[r] EXCEPT !.live = @ - 1] \in RunStates
      BY <1>5, <2>1 DEF RunStates
    <3> QED
      BY <2>1, <2>3, <3>1 DEF RunStates
  <2> QED
    BY <2>2, <2>3 DEF ItemThrows
<1>7. \/ run[r].phase = "running" /\ active' = [active EXCEPT ![run[r].id] = None]
      \/ run[r].phase = "rejected" /\ active' = active
  BY DEF ItemThrows, FreeId
<1>8. TypeOK'
  <2>1. store' \in Shows
    BY StatusOfItems DEF ItemThrows, Show, Shows, QueueStatuses
  <2>2. active' \in [QueueIds -> Runs \cup {None}]
    BY <1>1, <1>7 DEF TypeOK
  <2>3. inFlight' \subseteq Contents
    BY <1>1 DEF ItemThrows, Release, TypeOK
  <2> QED
    BY <1>1, <1>2, <1>3, <1>6, <2>1, <2>2, <2>3 DEF TypeOK
<1>9. LocalInv'
  <2>1. ASSUME NEW s \in Runs PROVE (BatchOk(s) /\ IdsOk(s) /\ RejectedOk(s))'
    <3>1. BatchOk(s)'
      <4>1. BatchOk(s)
        BY <1>1 DEF LocalInv
      <4>2. run'[s].phase \in {"idle", "refused"} <=> run[s].phase \in {"idle", "refused"}
        BY <1>6, <1>7
      <4>3. \A j \in Positions : item'[s][j].status = item[s][j].status
        BY <1>2
      <4> QED
        BY <1>6, <4>1, <4>2, <4>3, BatchKept
    <3>2. (IdsOk(s) /\ RejectedOk(s))'
      BY <1>1, <1>3, <1>6, <1>7 DEF LocalInv, IdsOk, RejectedOk
    <3> QED
      BY <3>1, <3>2
  <2>2. ASSUME NEW s \in Runs, NEW j \in Positions PROVE (ItemOk(s, j) /\ CallsOk(s, j))'
    <3>1. CASE <<s, j>> = <<r, i>>
      BY <1>1, <1>2, <1>6, <1>7, <3>1 DEF LocalInv, ItemOk, CallsOk
    <3>2. CASE s = r /\ j # i
      BY <1>1, <1>2, <1>6, <1>7, <3>2 DEF LocalInv, ItemOk, CallsOk
    <3>3. CASE s # r
      <4>1. ItemOk(s, j) /\ CallsOk(s, j) /\ <<s, j>> # <<r, i>>
        BY <1>1, <3>3 DEF LocalInv
      <4> QED
        BY <1>2, <1>6, <3>3, <4>1 DEF ItemOk, CallsOk
    <3> QED
      BY <3>1, <3>2, <3>3
  <2>3. ASSUME NEW p \in QueueIds PROVE ActiveOk(p)'
    <3>1. active \in [QueueIds -> Runs \cup {None}] /\ ActiveOk(p)
      BY <1>1 DEF TypeOK, LocalInv
    <3>2. active'[p] # None => active'[p] = active[p] /\ active[p] # r
      BY <1>7, <3>1 DEF ActiveOk, GoesOn
    <3> QED
      BY <1>6, <3>1, <3>2 DEF ActiveOk, GoesOn
  <2> QED
    BY <2>1, <2>2, <2>3 DEF LocalInv
<1>10. ASSUME NEW s \in Runs PROVE (WorkersOk(s) /\ GatheredOk(s))'
  <2>1. \A j \in Positions : (item'[s][j].status = "staged") <=> (item[s][j].status = "staged")
    BY <1>2
  <2>2. GatheredOk(s)'
    BY <1>1, <1>6, <2>1, GatheredKept
  <2>3. CASE s = r
    <3>1. Held(r)' = Held(r) \ {i}
      BY <1>2 DEF Held
    <3> QED
      BY <1>4, <1>5, <1>6, <2>2, <2>3, <3>1 DEF WorkersOk
  <2>4. CASE s # r
    <3>1. Held(s)' = Held(s)
      BY <1>2, <2>4 DEF Held
    <3> QED
      BY <1>1, <1>6, <2>2, <2>4, <3>1 DEF WorkersOk
  <2> QED
    BY <2>3, <2>4
<1> QED
  BY <1>8, <1>9, <1>10 DEF RunsInv, LocalInv

(* Cancellation of the runs rs, whoever asked.                              *)
CancelEffect(rs) ==
    /\ \A s \in Runs :
          /\ run'[s].batch = run[s].batch /\ run'[s].id = run[s].id
          /\ run'[s].phase = run[s].phase /\ run'[s].live = run[s].live
          /\ run'[s].pending = run[s].pending /\ run'[s].gathered = run[s].gathered
          /\ run'[s].canceled = (run[s].canceled \/ s \in rs)
    /\ \A s \in Runs, j \in Positions :
          /\ item'[s][j].status =
                IF s \in rs /\ run[s].phase = "running" /\ item[s][j].status = "queued"
                THEN "canceled" ELSE item[s][j].status
          /\ item'[s][j].stage = item[s][j].stage
          /\ item'[s][j].calls = item[s][j].calls
          /\ item[s][j].aborted => item'[s][j].aborted
          /\ s \in rs /\ item[s][j].stage # "none" => item'[s][j].aborted

LEMMA CancelRunsCancels ==
  ASSUME RunsInv, NEW rs, CancelRuns(rs)
  PROVE  /\ run' \in [Runs -> RunStates]
         /\ item' \in [Runs -> [Positions -> ItemStates]]
         /\ CancelEffect(rs)
<1>1. /\ run \in [Runs -> RunStates]
      /\ item \in [Runs -> [Positions -> ItemStates]]
      /\ \A s \in Runs, j \in Positions : ItemOk(s, j)
  BY DEF RunsInv, TypeOK
<1>2. /\ run' \in [Runs -> RunStates]
      /\ \A s \in Runs :
            /\ run'[s].batch = run[s].batch /\ run'[s].id = run[s].id
            /\ run'[s].phase = run[s].phase /\ run'[s].live = run[s].live
            /\ run'[s].pending = run[s].pending /\ run'[s].gathered = run[s].gathered
            /\ run'[s].canceled = (run[s].canceled \/ s \in rs)
  <2>1. run' = [s \in Runs |-> [run[s] EXCEPT !.canceled = @ \/ s \in rs]]
    BY DEF CancelRuns
  <2>2. ASSUME NEW s \in Runs
        PROVE  LET v == [run[s] EXCEPT !.canceled = @ \/ s \in rs]
               IN  /\ v \in RunStates
                   /\ v.batch = run[s].batch /\ v.id = run[s].id
                   /\ v.phase = run[s].phase /\ v.live = run[s].live
                   /\ v.pending = run[s].pending /\ v.gathered = run[s].gathered
                   /\ v.canceled = (run[s].canceled \/ s \in rs)
    <3>1. run[s] \in RunStates /\ run[s].canceled \in BOOLEAN
      BY <1>1 DEF RunStates
    <3> QED
      BY <3>1 DEF RunStates
  <2> QED
    BY <2>1, <2>2
<1>3. ASSUME NEW s \in Runs, NEW j \in Positions
      PROVE  LET x == item[s][j]
                 y == IF s \in rs /\ run[s].phase = "running" /\ x.status = "queued"
                      THEN [x EXCEPT !.status = "canceled"] ELSE Aborted(item, rs)[s][j]
             IN  /\ y \in ItemStates
                 /\ y.status = IF s \in rs /\ run[s].phase = "running" /\ x.status = "queued"
                               THEN "canceled" ELSE x.status
                 /\ y.stage = x.stage /\ y.calls = x.calls
                 /\ x.aborted => y.aborted
                 /\ s \in rs /\ x.stage # "none" => y.aborted
  <2>1. item[s][j] \in ItemStates /\ (item[s][j].status = "queued" => item[s][j].stage = "none")
    BY <1>1 DEF ItemOk
  <2>2. CASE s \in rs /\ run[s].phase = "running" /\ item[s][j].status = "queued"
    <3> DEFINE y == [item[s][j] EXCEPT !.status = "canceled"]
    <3>1. /\ y \in ItemStates /\ y.status = "canceled" /\ y.stage = item[s][j].stage
          /\ y.calls = item[s][j].calls /\ y.aborted = item[s][j].aborted
      BY <2>1 DEF ItemStates, ItemStatuses
    <3> HIDE DEF y
    <3>2. item[s][j].stage = "none"
      BY <2>1, <2>2
    <3>3. /\ y \in ItemStates
          /\ y.status = IF s \in rs /\ run[s].phase = "running" /\ item[s][j].status = "queued"
                        THEN "canceled" ELSE item[s][j].status
          /\ y.stage = item[s][j].stage /\ y.calls = item[s][j].calls
          /\ item[s][j].aborted => y.aborted
          /\ s \in rs /\ item[s][j].stage # "none" => y.aborted
      BY <2>2, <3>1, <3>2
    <3> QED
      BY <2>2, <3>3 DEF y
  <2>3. CASE ~(s \in rs /\ run[s].phase = "running" /\ item[s][j].status = "queued")
    BY <1>1, <2>3, AbortedItems
  <2> QED
    BY <2>2, <2>3
<1>4. item' = [s \in Runs |-> [j \in Positions |->
                  IF s \in rs /\ run[s].phase = "running" /\ item[s][j].status = "queued"
                  THEN [item[s][j] EXCEPT !.status = "canceled"]
                  ELSE Aborted(item, rs)[s][j]]]
  BY DEF CancelRuns
<1>5. /\ item' \in [Runs -> [Positions -> ItemStates]]
      /\ \A s \in Runs, j \in Positions :
            /\ item'[s][j].status =
                  IF s \in rs /\ run[s].phase = "running" /\ item[s][j].status = "queued"
                  THEN "canceled" ELSE item[s][j].status
            /\ item'[s][j].stage = item[s][j].stage
            /\ item'[s][j].calls = item[s][j].calls
            /\ item[s][j].aborted => item'[s][j].aborted
            /\ s \in rs /\ item[s][j].stage # "none" => item'[s][j].aborted
  BY <1>3, <1>4
<1> QED
  BY <1>2, <1>5 DEF CancelEffect

(* A summary is shown of some run that has begun.                           *)
StoreOk ==
    /\ store.shown = None => store.summary = "idle"
    /\ store.shown # None => run[store.shown].phase # "idle"

(* Both ways to cancel: the button, and the unload of the plugin.           *)
LEMMA CancelsSomeRuns ==
  ASSUME ClickCancel \/ Dispose
  PROVE  \E rs : CancelRuns(rs)
BY DEF ClickCancel, Dispose

LEMMA CancelKeepsRuns ==
  ASSUME RunsInv, StoreOk, ClickCancel \/ Dispose
  PROVE  RunsInv'
<1>1. /\ TypeOK /\ LocalInv /\ \A s \in Runs : WorkersOk(s) /\ GatheredOk(s)
      /\ UNCHANGED <<inFlight, allowed, faults>>
  BY RunsInvParts DEF ClickCancel, Dispose
<1>2. PICK rs : CancelRuns(rs)
  BY CancelsSomeRuns
<1>3. /\ run' \in [Runs -> RunStates]
      /\ item' \in [Runs -> [Positions -> ItemStates]]
      /\ CancelEffect(rs)
  BY <1>2, CancelRunsCancels
<1>4. active' \in [QueueIds -> Runs \cup {None}] /\ \A q \in QueueIds : active'[q] \in {active[q], None}
  BY <1>1 DEF ClickCancel, Dispose, TypeOK
<1>5. TypeOK'
  <2>1. listed' \subseteq Targets /\ disposed' \in BOOLEAN
    BY <1>1 DEF ClickCancel, Dispose, TypeOK
  <2>2. asked' \subseteq Runs
    BY <1>1 DEF ClickCancel, CancelOffered, Dispose, TypeOK, StoreOk, Shows
  <2>3. store' \in Shows
    <3>1. CASE Dispose
      BY <3>1 DEF Dispose, ShowNothing, Shows, QueueStatuses
    <3>2. CASE ClickCancel
      <4>1. [store EXCEPT !.status = "canceling"] \in Shows
        BY <1>1 DEF TypeOK, Shows, QueueStatuses
      <4>2. ASSUME NEW r \in Runs, Emit(r) PROVE store' \in Shows
        BY <4>2, StatusOfItems DEF Emit, Show, Shows
      <4> DEFINE holder == active[run[store.shown].id]
      <4>3. \/ holder # None /\ run[holder].phase = "running" /\ Emit(holder)
            \/ store' = [store EXCEPT !.status = "canceling"]
        BY <3>2 DEF ClickCancel
      <4>4. holder # None => holder \in Runs
        <5>1. store.shown \in Runs /\ run[store.shown].phase # "idle"
          BY <1>1, <3>2 DEF ClickCancel, CancelOffered, TypeOK, StoreOk, Shows
        <5>2. run[store.shown].id \in QueueIds
          BY <1>1, <5>1 DEF LocalInv, IdsOk
        <5> QED
          BY <1>1, <5>2 DEF TypeOK
      <4> QED
        BY <4>1, <4>2, <4>3, <4>4
    <3> QED
      BY <3>1, <3>2
  <2> QED
    BY <1>1, <1>3, <1>4, <2>1, <2>2, <2>3 DEF TypeOK
<1>6. LocalInv'
  <2>1. ASSUME NEW s \in Runs PROVE (BatchOk(s) /\ IdsOk(s) /\ RejectedOk(s))'
    <3>1. BatchOk(s)'
      BY <1>1, <1>3, BatchKept DEF LocalInv, CancelEffect
    <3>2. (IdsOk(s) /\ RejectedOk(s))'
      BY <1>1, <1>3 DEF LocalInv, CancelEffect, IdsOk, RejectedOk
    <3> QED
      BY <3>1, <3>2
  <2>2. ASSUME NEW s \in Runs, NEW j \in Positions PROVE (ItemOk(s, j) /\ CallsOk(s, j))'
    <3>1. ItemOk(s, j) /\ CallsOk(s, j)
      BY <1>1 DEF LocalInv
    <3>2. CASE s \in rs /\ run[s].phase = "running" /\ item[s][j].status = "queued"
      BY <1>3, <3>1, <3>2 DEF CancelEffect, ItemOk, CallsOk
    <3>3. CASE ~(s \in rs /\ run[s].phase = "running" /\ item[s][j].status = "queued")
      <4>1. /\ item'[s][j].status = item[s][j].status /\ item'[s][j].stage = item[s][j].stage
            /\ item'[s][j].calls = item[s][j].calls
            /\ item[s][j].aborted => item'[s][j].aborted
            /\ s \in rs /\ item[s][j].stage # "none" => item'[s][j].aborted
            /\ run'[s].batch = run[s].batch /\ run'[s].phase = run[s].phase
            /\ run'[s].pending = run[s].pending
            /\ run'[s].canceled <=> run[s].canceled \/ s \in rs
        BY <1>3, <3>3 DEF CancelEffect
      <4> QED
        BY <3>1, <4>1 DEF ItemOk, CallsOk
    <3> QED
      BY <3>2, <3>3
  <2>3. ASSUME NEW p \in QueueIds PROVE ActiveOk(p)'
    <3>1. active \in [QueueIds -> Runs \cup {None}] /\ ActiveOk(p)
      BY <1>1 DEF TypeOK, LocalInv
    <3> QED
      BY <1>3, <1>4, <3>1 DEF ActiveOk, GoesOn, CancelEffect
  <2> QED
    BY <2>1, <2>2, <2>3 DEF LocalInv
<1>7. ASSUME NEW s \in Runs PROVE (WorkersOk(s) /\ GatheredOk(s))'
  <2>1. Held(s)' = Held(s)
    BY <1>3 DEF Held, CancelEffect
  <2>2. \A j \in Positions : (item'[s][j].status = "staged") <=> (item[s][j].status = "staged")
    BY <1>3 DEF CancelEffect
  <2> QED
    BY <1>1, <1>3, <2>1, <2>2, GatheredKept DEF CancelEffect, WorkersOk
<1> QED
  BY <1>5, <1>6, <1>7 DEF RunsInv, LocalInv

LEMMA WorldKeepsRuns ==
  ASSUME RunsInv, SaveSettings \/ (\E t \in Shared : OthersChange(t)) \/ UNCHANGED vars
  PROVE  RunsInv'
<1>1. UNCHANGED <<run, item, active, inFlight, store, asked, disposed, faults>>
  BY DEF SaveSettings, OthersChange, vars
<1>2. allowed' \in BOOLEAN /\ listed' \subseteq Targets
  BY SharedAreTargets DEF SaveSettings, OthersChange, vars, RunsInv, TypeOK
<1>3. TypeOK'
  BY <1>1, <1>2 DEF RunsInv, TypeOK
<1>4. ASSUME NEW r \in Runs
      PROVE  (BatchOk(r) /\ IdsOk(r) /\ RejectedOk(r) /\ WorkersOk(r) /\ GatheredOk(r))'
  <2>1. (BatchOk(r) /\ IdsOk(r) /\ RejectedOk(r))'
    BY <1>1 DEF RunsInv, BatchOk, IdsOk, RejectedOk
  <2>2. WorkersOk(r)'
    BY <1>1 DEF RunsInv, WorkersOk, Held
  <2>3. GatheredOk(r)'
    BY <1>1 DEF RunsInv, GatheredOk, SourceAt
  <2> QED
    BY <2>1, <2>2, <2>3
<1>5. \A r \in Runs, i \in Positions : (ItemOk(r, i) /\ CallsOk(r, i))'
  BY <1>1 DEF RunsInv, ItemOk, CallsOk
<1>6. \A q \in QueueIds : ActiveOk(q)'
  BY <1>1 DEF RunsInv, ActiveOk, GoesOn
<1> QED
  BY <1>3, <1>4, <1>5, <1>6 DEF RunsInv

LEMMA RunsInit == Init => RunsInv /\ StoreOk
<1> SUFFICES ASSUME Init
             PROVE  RunsInv /\ StoreOk
  OBVIOUS
<1>1. \A r \in Runs : run[r] = NoRun
  BY DEF Init
<1>2. \A r \in Runs, i \in Positions : item[r][i] = NoItem
  BY DEF Init
<1>3. TypeOK
  <2>1. run \in [Runs -> RunStates] /\ item \in [Runs -> [Positions -> ItemStates]]
    BY NoRunIsRun, NoItemIsItem DEF Init
  <2>2. store \in Shows
    BY DEF Init, ShowNothing, Shows, QueueStatuses
  <2>3. /\ active \in [QueueIds -> Runs \cup {None}]
        /\ inFlight \subseteq Contents /\ listed \subseteq Targets /\ asked \subseteq Runs
    BY DEF Init
  <2>4. allowed \in BOOLEAN /\ disposed \in BOOLEAN
    BY DEF Init
  <2>5. faults \in 0 .. MaxFaults
    BY MaxFaultsIsNatural DEF Init
  <2> QED
    BY <2>1, <2>2, <2>3, <2>4, <2>5 DEF TypeOK
<1>4. \A r \in Runs : BatchOk(r) /\ IdsOk(r) /\ RejectedOk(r)
  BY <1>1, <1>2, NoRunIsRun, NoItemIsItem DEF BatchOk, IdsOk, GoesOn, RejectedOk
<1>5. \A r \in Runs : WorkersOk(r) /\ GatheredOk(r)
  <2> SUFFICES ASSUME NEW r \in Runs
               PROVE  WorkersOk(r) /\ GatheredOk(r)
    OBVIOUS
  <2>1. Held(r) = {}
    BY <1>2, NoItemIsItem DEF Held
  <2>2. {j \in Positions : item[r][j].status = "staged"} = {}
    BY <1>2, NoItemIsItem
  <2> QED
    BY <1>1, <2>1, <2>2, NoRunIsRun, FS_EmptySet DEF WorkersOk, GatheredOk
<1>6. \A r \in Runs, i \in Positions : ItemOk(r, i) /\ CallsOk(r, i)
  BY <1>1, <1>2, NoRunIsRun, NoItemIsItem DEF ItemOk, CallsOk
<1>7. \A q \in QueueIds : ActiveOk(q)
  BY DEF Init, ActiveOk
<1> QED
  BY <1>3, <1>4, <1>5, <1>6, <1>7 DEF RunsInv, StoreOk, Init, ShowNothing

LEMMA RunsStep ==
  ASSUME RunsInv, StoreOk, [Next]_vars
  PROVE  RunsInv'
<1>1. ASSUME NEW r \in Runs, NEW q \in QueueIds,
             RefuseRun(r, q) \/ \E b \in Batches : StartRun(r, b, q)
      PROVE  RunsInv'
  BY <1>1, StartRunKeepsRuns, RefuseRunKeepsRuns
<1>2. ASSUME NEW r \in Runs, RunStep(r)
      PROVE  RunsInv'
  BY <1>2, PrepareItemKeepsRuns, StartWorkersKeepsRuns, StartItemKeepsRuns,
     CancelUnstartedKeepsRuns, EndRunKeepsRuns DEF RunStep
<1>3. ASSUME NEW r \in Runs, PreparationThrows(r)
      PROVE  RunsInv'
  BY <1>3, PreparationThrowsKeepsRuns
<1>4. ASSUME NEW r \in Runs, NEW i \in Positions, ItemStep(r, i) \/ ProviderAnswers(r, i)
      PROVE  RunsInv'
  BY <1>4, ItemSteps, EndsKeepsRuns, MovesOnKeepsRuns DEF EndsOrMoves
<1>5. ASSUME NEW r \in Runs, NEW i \in Positions, ItemThrows(r, i)
      PROVE  RunsInv'
  BY <1>5, ItemThrowsKeepsRuns
<1>6. CASE ClickCancel \/ Dispose
  BY <1>6, CancelKeepsRuns
<1>7. CASE SaveSettings \/ (\E t \in Shared : OthersChange(t)) \/ UNCHANGED vars
  BY <1>7, WorldKeepsRuns
<1> QED
  BY <1>1, <1>2, <1>3, <1>4, <1>5, <1>6, <1>7 DEF Next

(* How the phase of a run may change in a step; only its batch is given.    *)
PhaseSteps ==
    {<<"idle", "preparing">>, <<"idle", "refused">>, <<"preparing", "running">>,
     <<"preparing", "rejected">>, <<"running", "done">>, <<"running", "rejected">>}

LEMMA RunsOnlyAdvance ==
  ASSUME RunsInv, [Next]_vars, NEW s \in Runs
  PROVE  run'[s].phase = run[s].phase \/ <<run[s].phase, run'[s].phase>> \in PhaseSteps
<1>1. run \in [Runs -> RunStates]
  BY DEF RunsInv, TypeOK
<1>2. CASE \E r \in Runs, q \in QueueIds : RefuseRun(r, q)
  BY <1>1, <1>2 DEF RefuseRun, RunStates, PhaseSteps
<1>3. ASSUME NEW r \in Runs, NEW q \in QueueIds, NEW b \in Batches, StartRun(r, b, q)
      PROVE  run'[s].phase = run[s].phase \/ <<run[s].phase, run'[s].phase>> \in PhaseSteps
  <2> DEFINE v == [NoRun EXCEPT !.phase = "preparing", !.batch = b, !.id = q, !.snapshot = listed]
  <2>1. v.phase = "preparing"
    BY NoRunIsRun DEF RunStates
  <2>2. run[r].phase = "idle" /\ run' = [run EXCEPT ![r] = v]
    BY <1>3 DEF StartRun
  <2> HIDE DEF v
  <2> QED
    BY <1>1, <2>1, <2>2 DEF PhaseSteps
<1>4. ASSUME NEW r \in Runs, RunStep(r) \/ PreparationThrows(r)
      PROVE  run'[s].phase = run[s].phase \/ <<run[s].phase, run'[s].phase>> \in PhaseSteps
  <2>1. CASE PrepareItem(r)
    BY <1>1, <2>1 DEF PrepareItem, RunStates
  <2>2. CASE StartWorkers(r)
    BY <1>1, <2>2 DEF StartWorkers, RunStates, PhaseSteps
  <2>3. CASE StartItem(r) \/ CancelUnstarted(r)
    BY <1>1, <2>3 DEF StartItem, CancelUnstarted, Pick, RunStates
  <2>4. CASE EndRun(r)
    BY <1>1, <2>4 DEF EndRun, RunStates, PhaseSteps
  <2>5. CASE PreparationThrows(r)
    BY <1>1, <2>5 DEF PreparationThrows, RunStates, PhaseSteps
  <2> QED
    BY <1>4, <2>1, <2>2, <2>3, <2>4, <2>5 DEF RunStep
<1>5. ASSUME NEW r \in Runs, NEW i \in Positions, ItemStep(r, i) \/ ProviderAnswers(r, i)
      PROVE  run'[s].phase = run[s].phase
  <2>1. PICK y : Ends(r, i, y) \/ MovesOn(r, i, y)
    BY <1>5, ItemSteps DEF EndsOrMoves
  <2> QED
    BY <1>1, <2>1 DEF Ends, MovesOn, RunStates
<1>6. ASSUME NEW r \in Runs, NEW i \in Positions, ItemThrows(r, i)
      PROVE  run'[s].phase = run[s].phase \/ <<run[s].phase, run'[s].phase>> \in PhaseSteps
  <2>1. CASE run[r].phase = "running"
             /\ run' = [run EXCEPT ![r].phase = "rejected", ![r].live = @ - 1]
    BY <1>1, <2>1 DEF RunStates, PhaseSteps
  <2>2. CASE run' = [run EXCEPT ![r].live = @ - 1]
    BY <1>1, <2>2 DEF RunStates
  <2> QED
    BY <1>6, <2>1, <2>2 DEF ItemThrows
<1>7. CASE ClickCancel \/ Dispose
  BY <1>7, CancelsSomeRuns, CancelRunsCancels DEF CancelEffect
<1>8. CASE SaveSettings \/ (\E t \in Shared : OthersChange(t)) \/ UNCHANGED vars
  BY <1>8 DEF SaveSettings, OthersChange, vars
<1> QED
  BY <1>2, <1>3, <1>4, <1>5, <1>6, <1>7, <1>8 DEF Next

LEMMA StoreStep ==
  ASSUME RunsInv, StoreOk, [Next]_vars
  PROVE  StoreOk'
<1>1. \A s \in Runs : run[s].phase # "idle" => run'[s].phase # "idle"
  BY RunsOnlyAdvance DEF PhaseSteps
<1>2. store.shown \in Runs \cup {None} /\ None \notin Runs
  BY NoneIsNothing DEF RunsInv, TypeOK, Shows
<1>3. CASE \E r \in Runs, st \in QueueStatuses : Show(r, st) /\ run'[r].phase # "idle"
  BY <1>2, <1>3 DEF Show, StoreOk
<1>4. CASE store'.shown = store.shown /\ store'.summary = store.summary
  BY <1>1, <1>2, <1>4 DEF StoreOk
<1>5. CASE store' = ShowNothing
  BY <1>2, <1>5 DEF StoreOk, ShowNothing
<1>6. ASSUME NEW st, store' = [store EXCEPT !.status = st]
      PROVE  store'.shown = store.shown /\ store'.summary = store.summary
  BY <1>6 DEF RunsInv, TypeOK, Shows
<1>7. ASSUME NEW r \in Runs, NEW q \in QueueIds, RefuseRun(r, q)
      PROVE  Show(r, "failed") /\ run'[r].phase # "idle"
  BY <1>7 DEF RefuseRun, RunsInv, TypeOK, RunStates
<1>8. ASSUME NEW r \in Runs, NEW q \in QueueIds, NEW b \in Batches, StartRun(r, b, q)
      PROVE  store'.shown = store.shown /\ store'.summary = store.summary
  BY <1>6, <1>8 DEF StartRun
<1>9. ASSUME NEW r \in Runs, RunStep(r)
      PROVE  \/ store' = store
             \/ \E st \in QueueStatuses : Show(r, st) /\ run'[r].phase # "idle"
  <2>1. run[r].phase # "idle"
    BY <1>9, NextPending DEF RunStep, PrepareItem, StartWorkers, StartItem, CancelUnstarted, EndRun
  <2>2. store' = store \/ \E st \in QueueStatuses : Show(r, st)
    BY <1>9, StatusOfItems
    DEF RunStep, PrepareItem, StartWorkers, StartItem, CancelUnstarted, EndRun, Emit
  <2> QED
    BY <1>1, <2>1, <2>2
<1>10. ASSUME NEW r \in Runs, PreparationThrows(r)
       PROVE  store'.shown = store.shown /\ store'.summary = store.summary
  BY <1>6, <1>10 DEF PreparationThrows
<1>11. ASSUME NEW r \in Runs, NEW i \in Positions, ItemStep(r, i) \/ ProviderAnswers(r, i)
       PROVE  \/ store' = store
              \/ \E st \in QueueStatuses : Show(r, st) /\ run'[r].phase # "idle"
  <2>1. PICK y : Ends(r, i, y) \/ MovesOn(r, i, y)
    BY <1>11, ItemSteps DEF EndsOrMoves
  <2>2. run'[r].phase # "idle"
    BY <1>1, <1>11, ItemSteps, HeldItem
  <2> QED
    BY <2>1, <2>2 DEF Ends, MovesOn
<1>12. ASSUME NEW r \in Runs, NEW i \in Positions, ItemThrows(r, i)
       PROVE  store'.shown = r /\ run'[r].phase # "idle"
  <2>1. run'[r].phase # "idle"
    BY <1>1, <1>12, HeldItem DEF ItemThrows
  <2> QED
    BY <1>12, <2>1 DEF ItemThrows, Show
<1>13. CASE ClickCancel
  <2> DEFINE holder == active[run[store.shown].id]
  <2>1. store.shown \in Runs /\ run[store.shown].phase # "idle"
    BY <1>2, <1>13 DEF ClickCancel, CancelOffered, StoreOk
  <2>2. run[store.shown].id \in QueueIds
    BY <2>1 DEF RunsInv, IdsOk
  <2>3. holder \in Runs \cup {None}
    BY <2>2 DEF RunsInv, TypeOK
  <2> HIDE DEF holder
  <2>4. \/ holder # None /\ run[holder].phase = "running" /\ Emit(holder)
        \/ store' = [store EXCEPT !.status = "canceling"]
    BY <1>13 DEF ClickCancel, holder
  <2>5. ASSUME holder \in Runs, run[holder].phase = "running", Emit(holder)
        PROVE  \E r \in Runs, st \in QueueStatuses : Show(r, st) /\ run'[r].phase # "idle"
    BY <1>1, <2>5, StatusOfItems DEF Emit
  <2> QED
    BY <1>3, <1>4, <1>6, <2>3, <2>4, <2>5
<1>14. CASE Dispose
  BY <1>5, <1>14 DEF Dispose
<1>15. CASE SaveSettings \/ (\E t \in Shared : OthersChange(t)) \/ UNCHANGED vars
  BY <1>4, <1>15 DEF SaveSettings, OthersChange, vars
<1>16. ASSUME NEW r \in Runs, store'.shown = r, run'[r].phase # "idle"
       PROVE  StoreOk'
  BY <1>2, <1>16 DEF StoreOk
<1>17. "failed" \in QueueStatuses
  BY DEF QueueStatuses
<1> QED
  BY <1>3, <1>4, <1>7, <1>8, <1>9, <1>10, <1>11, <1>12, <1>13, <1>14, <1>15, <1>16, <1>17 DEF Next

(* When no run goes on any more, the store has been told so.                *)
LEMMA QuietStep ==
  ASSUME RunsInv, RunsInv', StoreOk, QuietStoreSettled, [Next]_vars
  PROVE  QuietStoreSettled'
<1> SUFFICES ASSUME faults' = 0, \A r \in Runs : run'[r].phase \notin {"preparing", "running"}
             PROVE  {store'.status, store'.summary} \cap {"running", "canceling"} = {}
  BY DEF QuietStoreSettled
<1>1. \A r \in Runs : run'[r].phase # "rejected"
  BY DEF RunsInv, RejectedOk
<1>2. \A r \in Runs : run[r].phase # "rejected" /\ run'[r].phase \in {"idle", "refused", "done"}
  <2>1. \A r \in Runs : run'[r].phase \in Phases
    BY DEF RunsInv, TypeOK, RunStates
  <2> QED
    BY <1>1, <2>1, RunsOnlyAdvance DEF PhaseSteps, Phases
<1>3. faults \in Nat
  BY DEF RunsInv, TypeOK
<1>4. ASSUME UNCHANGED <<store, faults>>, \A r \in Runs : ~GoesOn(r)
      PROVE  {store'.status, store'.summary} \cap {"running", "canceling"} = {}
  BY <1>4 DEF QuietStoreSettled, GoesOn
<1>5. ASSUME NEW r \in Runs, NEW q \in QueueIds, RefuseRun(r, q)
      PROVE  {store'.status, store'.summary} \cap {"running", "canceling"} = {}
  BY <1>5 DEF RefuseRun, Show
<1>6. ASSUME NEW r \in Runs, NEW q \in QueueIds, NEW b \in Batches, StartRun(r, b, q)
      PROVE  FALSE
  <2> DEFINE v == [NoRun EXCEPT !.phase = "preparing", !.batch = b, !.id = q, !.snapshot = listed]
  <2>1. v.phase = "preparing"
    BY NoRunIsRun DEF RunStates
  <2>2. run' = [run EXCEPT ![r] = v]
    BY <1>6 DEF StartRun
  <2> HIDE DEF v
  <2> QED
    BY <1>2, <2>1, <2>2 DEF RunsInv, TypeOK
<1>7. ASSUME NEW r \in Runs, RunStep(r)
      PROVE  EndRun(r)
  <2>1. ~PrepareItem(r) /\ ~StartWorkers(r)
    <3>1. run \in [Runs -> RunStates]
      BY DEF RunsInv, TypeOK
    <3>2. ASSUME PrepareItem(r)
          PROVE  run'[r].phase = "preparing"
      BY <3>1, <3>2 DEF PrepareItem, RunStates
    <3>3. ASSUME StartWorkers(r)
          PROVE  run'[r].phase = "running"
      BY <3>1, <3>3 DEF StartWorkers, RunStates
    <3> QED
      BY <1>2, <3>2, <3>3
  <2>2. ASSUME StartItem(r) \/ CancelUnstarted(r)
        PROVE  FALSE
    <3>1. run[r].phase = "running" /\ run'[r].phase = run[r].phase
      BY <1>2, <2>2, NextPending DEF StartItem, CancelUnstarted, Pick, RunsInv, TypeOK, RunStates
    <3> QED
      BY <1>2, <3>1
  <2> QED
    BY <1>7, <2>1, <2>2 DEF RunStep
<1>8. ASSUME NEW r \in Runs, EndRun(r)
      PROVE  {store'.status, store'.summary} \cap {"running", "canceling"} = {}
  <2>1. \A i \in Positions : item[r][i].status \notin {"queued", "running"}
    <3> SUFFICES ASSUME NEW i \in Positions, item[r][i].status \in {"queued", "running"}
                 PROVE  FALSE
      OBVIOUS
    <3>1. ItemOk(r, i) /\ item[r][i].stage = "none" /\ run[r].phase = "running"
          /\ run[r].pending = {}
      BY <1>8 DEF EndRun, Held, RunsInv
    <3> QED
      BY <3>1 DEF ItemOk
  <2>2. QueueStatus(item[r], FALSE) \in {"failed", "canceled", "completed"}
    BY <2>1 DEF QueueStatus
  <2> QED
    BY <1>8, <2>2 DEF EndRun, Show
<1>9. ASSUME NEW r \in Runs, PreparationThrows(r)
      PROVE  FALSE
  BY <1>3, <1>9 DEF PreparationThrows, Throw
<1>10. ASSUME NEW r \in Runs, NEW i \in Positions,
              ItemStep(r, i) \/ ProviderAnswers(r, i) \/ ItemThrows(r, i)
       PROVE  FALSE
  <2>1. item[r][i].stage # "none"
    BY <1>10, ItemSteps DEF ItemThrows
  <2>2. run[r].phase = "running"
    BY <1>2, <2>1, HeldItem
  <2>3. CASE ItemThrows(r, i)
    BY <1>3, <2>3 DEF ItemThrows, Throw
  <2>4. CASE ItemStep(r, i) \/ ProviderAnswers(r, i)
    <3>1. PICK y : Ends(r, i, y) \/ MovesOn(r, i, y)
      BY <2>4, ItemSteps DEF EndsOrMoves
    <3>2. run'[r].phase = run[r].phase
      BY <3>1 DEF Ends, MovesOn, RunsInv, TypeOK, RunStates
    <3> QED
      BY <1>2, <2>2, <3>2
  <2> QED
    BY <1>10, <2>3, <2>4
<1>11. CASE ClickCancel
  <2>1. \A r \in Runs : ~GoesOn(r)
    BY <1>2, <1>11, CancelsSomeRuns, CancelRunsCancels DEF CancelEffect, GoesOn
  <2>2. faults = 0 /\ store.summary \in {"running", "canceling"}
    BY <1>11 DEF ClickCancel, CancelOffered
  <2> QED
    BY <2>1, <2>2 DEF QuietStoreSettled, GoesOn
<1>12. CASE Dispose
  BY <1>12 DEF Dispose, ShowNothing
<1>13. CASE SaveSettings \/ (\E t \in Shared : OthersChange(t)) \/ UNCHANGED vars
  <2>1. UNCHANGED <<run, store, faults>>
    BY <1>13 DEF SaveSettings, OthersChange, vars
  <2> QED
    BY <1>2, <1>4, <2>1 DEF GoesOn
<1> QED
  BY <1>5, <1>6, <1>7, <1>8, <1>9, <1>10, <1>11, <1>12, <1>13 DEF Next

-----------------------------------------------------------------------------
(* Types, and the store                                                     *)

(* Runs, items and the store stay in the states the queue has for them, and *)
(* no item is tried more often than maxProviderAttempts, whatever the       *)
(* number of runs, workers and faults.                                      *)
THEOREM TypeCorrect == Spec => []TypeOK
<1>1. Init => RunsInv /\ StoreOk
  BY RunsInit
<1>2. RunsInv /\ StoreOk /\ [Next]_vars => (RunsInv /\ StoreOk)'
  BY RunsStep, StoreStep
<1>3. RunsInv => TypeOK
  BY DEF RunsInv
<1> QED
  BY <1>1, <1>2, <1>3, PTL DEF Spec

(* The store never says that a run goes on when none does, unless a call    *)
(* threw: runs that end in any order, cancellations that come late, the     *)
(* unload of the plugin (emit, finish and the modal).                       *)
THEOREM StoreSettles == Spec => []QuietStoreSettled
<1>1. Init => RunsInv /\ StoreOk /\ QuietStoreSettled
  BY RunsInit DEF Init, ShowNothing, QuietStoreSettled
<1>2. RunsInv /\ StoreOk /\ QuietStoreSettled /\ [Next]_vars
      => (RunsInv /\ StoreOk /\ QuietStoreSettled)'
  BY RunsStep, StoreStep, QuietStep
<1> QED
  BY <1>1, <1>2, PTL DEF Spec

-----------------------------------------------------------------------------
(* A run can be canceled *)

LEMMA DisposedStays ==
  ASSUME RunsInv, disposed, [Next]_vars
  PROVE  disposed'
<1>1. ASSUME NEW r \in Runs, RunStep(r) \/ PreparationThrows(r)
      PROVE  disposed'
  BY <1>1 DEF RunStep, PrepareItem, StartWorkers, StartItem, CancelUnstarted, EndRun,
     PreparationThrows
<1>2. ASSUME NEW r \in Runs, NEW q \in QueueIds,
             RefuseRun(r, q) \/ \E b \in Batches : StartRun(r, b, q)
      PROVE  disposed'
  BY <1>2 DEF RefuseRun, StartRun
<1>3. ASSUME NEW r \in Runs, NEW i \in Positions,
             ItemStep(r, i) \/ ProviderAnswers(r, i) \/ ItemThrows(r, i)
      PROVE  disposed'
  BY <1>3, ItemSteps DEF OtherVars, ItemThrows
<1>4. CASE \/ ClickCancel \/ Dispose \/ SaveSettings \/ (\E t \in Shared : OthersChange(t))
           \/ UNCHANGED vars
  BY <1>4 DEF ClickCancel, Dispose, SaveSettings, OthersChange, vars
<1> QED
  BY <1>1, <1>2, <1>3, <1>4 DEF Next

LEMMA CancelableStep ==
  ASSUME RunsInv, RunIsCancelable, [Next]_vars
  PROVE  RunIsCancelable'
<1> SUFFICES ASSUME ~disposed', NEW s \in Runs, run'[s].phase \in {"preparing", "running"}
             PROVE  active'[run'[s].id] = s
  BY DEF RunIsCancelable
<1>1. /\ run \in [Runs -> RunStates]
      /\ active \in [QueueIds -> Runs \cup {None}]
      /\ \A r \in Runs : IdsOk(r)
      /\ \A q \in QueueIds : ActiveOk(q)
  BY DEF RunsInv, TypeOK
<1>2. ~disposed
  BY DisposedStays
<1>3. ASSUME run[s].phase \in {"preparing", "running"}, run'[s].id = run[s].id,
             \/ active' = active
             \/ \E r \in Runs \ {s} : /\ run[r].phase \in {"preparing", "running"}
                                      /\ active' = [active EXCEPT ![run[r].id] = None]
      PROVE  active'[run'[s].id] = s
  BY <1>1, <1>2, <1>3 DEF RunIsCancelable, IdsOk
<1>4. ASSUME NEW r \in Runs, NEW q \in QueueIds, RefuseRun(r, q)
      PROVE  active'[run'[s].id] = s
  <2>1. s # r /\ run'[s] = run[s] /\ active' = active
    BY <1>1, <1>4 DEF RefuseRun, RunStates
  <2> QED
    BY <1>3, <2>1
<1>5. ASSUME NEW r \in Runs, NEW q \in QueueIds, NEW b \in Batches, StartRun(r, b, q)
      PROVE  active'[run'[s].id] = s
  <2> DEFINE v == [NoRun EXCEPT !.phase = "preparing", !.batch = b, !.id = q, !.snapshot = listed]
  <2>1. v.id = q
    BY NoRunIsRun DEF RunStates
  <2>2. run' = [run EXCEPT ![r] = v] /\ active' = [active EXCEPT ![q] = r] /\ active[q] = None
    BY <1>5 DEF StartRun
  <2> HIDE DEF v
  <2>3. CASE s = r
    BY <1>1, <2>1, <2>2, <2>3
  <2>4. CASE s # r
    <3>1. run'[s] = run[s] /\ active[run[s].id] = s /\ run[s].id \in QueueIds
      BY <1>1, <1>2, <2>2, <2>4 DEF RunIsCancelable, IdsOk
    <3> QED
      BY <1>1, <2>2, <3>1, NoneIsNothing
  <2> QED
    BY <2>3, <2>4
<1>6. ASSUME NEW r \in Runs, RunStep(r) \/ PreparationThrows(r)
      PROVE  active'[run'[s].id] = s
  <2>1. CASE PrepareItem(r)
    BY <1>1, <1>3, <2>1 DEF PrepareItem, RunStates
  <2>2. CASE StartWorkers(r)
    <3>1. run[r].phase = "preparing" /\ active' = active
      BY <2>2 DEF StartWorkers
    <3>2. run'[s].id = run[s].id /\ (s # r => run'[s] = run[s])
      <4>1. PICK p, n : run' = [run EXCEPT ![r].phase = "running", ![r].snapshot = {},
                                           ![r].pending = p, ![r].live = n]
        BY <2>2 DEF StartWorkers
      <4> QED
        BY <1>1, <4>1 DEF RunStates
    <3> QED
      BY <1>3, <3>1, <3>2
  <2>3. CASE StartItem(r) \/ CancelUnstarted(r)
    BY <1>1, <1>3, <2>3 DEF StartItem, CancelUnstarted, Pick, RunStates
  <2>4. CASE EndRun(r)
    <3>1. run' = [run EXCEPT ![r].phase = "done"] /\ run[r].phase = "running"
          /\ active' = [active EXCEPT ![run[r].id] = None]
      BY <2>4 DEF EndRun, FreeId
    <3>2. s # r /\ run'[s] = run[s]
      BY <1>1, <3>1 DEF RunStates
    <3> QED
      BY <1>3, <3>1, <3>2
  <2>5. CASE PreparationThrows(r)
    <3>1. run' = [run EXCEPT ![r].phase = "rejected"] /\ run[r].phase = "preparing"
          /\ active' = [active EXCEPT ![run[r].id] = None]
      BY <2>5 DEF PreparationThrows, FreeId
    <3>2. s # r /\ run'[s] = run[s]
      BY <1>1, <3>1 DEF RunStates
    <3> QED
      BY <1>3, <3>1, <3>2
  <2> QED
    BY <1>6, <2>1, <2>2, <2>3, <2>4, <2>5 DEF RunStep
<1>7. ASSUME NEW r \in Runs, NEW i \in Positions, ItemStep(r, i) \/ ProviderAnswers(r, i)
      PROVE  active'[run'[s].id] = s
  <2>1. PICK y : Ends(r, i, y) \/ MovesOn(r, i, y)
    BY <1>7, ItemSteps DEF EndsOrMoves
  <2>2. active' = active
    BY <1>7, ItemSteps DEF OtherVars
  <2>3. run'[s].phase = run[s].phase /\ run'[s].id = run[s].id
    BY <1>1, <2>1 DEF Ends, MovesOn, RunStates
  <2> QED
    BY <1>3, <2>2, <2>3
<1>8. ASSUME NEW r \in Runs, NEW i \in Positions, ItemThrows(r, i)
      PROVE  active'[run'[s].id] = s
  <2>1. CASE /\ run[r].phase = "running"
             /\ run' = [run EXCEPT ![r].phase = "rejected", ![r].live = @ - 1]
             /\ FreeId(run[r].id)
    <3>1. s # r /\ run'[s] = run[s]
      BY <1>1, <2>1 DEF RunStates
    <3> QED
      BY <1>3, <2>1, <3>1 DEF FreeId
  <2>2. CASE run' = [run EXCEPT ![r].live = @ - 1] /\ active' = active
    BY <1>1, <1>3, <2>2 DEF RunStates
  <2> QED
    BY <1>8, <2>1, <2>2 DEF ItemThrows
<1>9. CASE ClickCancel
  <2>1. active' = active /\ run'[s].phase = run[s].phase /\ run'[s].id = run[s].id
    BY <1>9, CancelsSomeRuns, CancelRunsCancels DEF CancelEffect, ClickCancel
  <2> QED
    BY <1>3, <2>1
<1>10. CASE Dispose
  BY <1>10 DEF Dispose
<1>11. CASE SaveSettings \/ (\E t \in Shared : OthersChange(t)) \/ UNCHANGED vars
  <2>1. UNCHANGED <<run, active>>
    BY <1>11 DEF SaveSettings, OthersChange, vars
  <2> QED
    BY <1>3, <2>1
<1> QED
  BY <1>4, <1>5, <1>6, <1>7, <1>8, <1>9, <1>10, <1>11 DEF Next

(* Until the plugin is unloaded the id of a run that goes on leads to it,   *)
(* whatever other runs were refused for that id or have ended.              *)
THEOREM RunsCancelable == Spec => []RunIsCancelable
<1>1. Init => RunsInv /\ StoreOk /\ RunIsCancelable
  <2>1. Init => RunIsCancelable
    BY NoRunIsRun DEF Init, RunIsCancelable
  <2> QED
    BY <2>1, RunsInit
<1>2. RunsInv /\ StoreOk /\ RunIsCancelable /\ [Next]_vars
      => (RunsInv /\ StoreOk /\ RunIsCancelable)'
  BY RunsStep, StoreStep, CancelableStep
<1> QED
  BY <1>1, <1>2, PTL DEF Spec

-----------------------------------------------------------------------------
(* How items change *)

StatusChanges ==
    {<<"queued", "running">>, <<"queued", "canceled">>,
     <<"running", "staged">>, <<"running", "failed">>, <<"running", "canceled">>}

(* Preparing decides on one item; afterwards an item only advances.         *)
ItemPrepared(r, i) ==
    /\ run[r].phase = "preparing"
    /\ item[r][i].status = "none"
    /\ item'[r][i].status \in {"failed", "skipped", "queued"}
    /\ item'[r][i].status = "queued" => ~QueueDuplicate(r, i)
    /\ \A k \in Positions \ {i} : item'[r][k] = item[r][k]

ItemAdvances(r, i) ==
    \/ item'[r][i].status = item[r][i].status
    \/ <<item[r][i].status, item'[r][i].status>> \in StatusChanges
    \/ ItemPrepared(r, i)

(* A canceled run makes no further call and begins with no further item.    *)
NothingStarts(r, i) ==
    run[r].canceled => /\ item'[r][i].calls = item[r][i].calls
                       /\ item'[r][i].stage # "none" => item[r][i].stage # "none"

LEMMA ItemsOnlyAdvance ==
  ASSUME RunsInv, [Next]_vars, NEW s \in Runs, NEW j \in Positions
  PROVE  ItemAdvances(s, j) /\ NothingStarts(s, j)
<1>1. /\ item \in [Runs -> [Positions -> ItemStates]]
      /\ ItemOk(s, j) /\ CallsOk(s, j)
  BY DEF RunsInv, TypeOK
<1>2. CASE item'[s][j] = item[s][j]
  BY <1>2 DEF ItemAdvances, NothingStarts
<1>3. CASE /\ item'[s][j].status = item[s][j].status
           /\ item'[s][j].stage = item[s][j].stage
           /\ item'[s][j].calls = item[s][j].calls
  BY <1>3 DEF ItemAdvances, NothingStarts
<1>4. ASSUME NEW r \in Runs, NEW q \in QueueIds,
             RefuseRun(r, q) \/ \E b \in Batches : StartRun(r, b, q)
      PROVE  item' = item
  BY <1>4 DEF RefuseRun, StartRun
<1>5. ASSUME NEW r \in Runs, PrepareItem(r)
      PROVE  ItemAdvances(s, j) /\ NothingStarts(s, j)
  <2>1. PICK i \in Positions, y \in ItemStates : Prepares(r, i, y)
    BY <1>5, PrepareItemPrepares
  <2>2. CASE <<s, j>> # <<r, i>>
    BY <1>1, <1>2, <2>1, <2>2 DEF Prepares
  <2>3. CASE <<s, j>> = <<r, i>>
    <3>1. item'[s][j] = y /\ \A k \in Positions \ {j} : item'[s][k] = item[s][k]
      BY <1>1, <2>1, <2>3 DEF Prepares
    <3>2. run[s].phase = "preparing"
      BY <1>5, <2>3 DEF PrepareItem
    <3>3. ItemPrepared(s, j)
      BY <2>1, <2>3, <3>1, <3>2 DEF Prepares, ItemPrepared
    <3>4. item[s][j].calls = 0 /\ y.calls = 0 /\ y.stage = "none"
      BY <1>1, <2>1, <2>3 DEF CallsOk, Prepares
    <3> QED
      BY <3>1, <3>3, <3>4 DEF ItemAdvances, NothingStarts
  <2> QED
    BY <2>2, <2>3
<1>6. ASSUME NEW r \in Runs, StartWorkers(r)
      PROVE  item' = item
  BY <1>6 DEF StartWorkers
<1>7. ASSUME NEW r \in Runs, StartItem(r)
      PROVE  ItemAdvances(s, j) /\ NothingStarts(s, j)
  <2> DEFINE i == Min(run[r].pending)
             y == [item[r][i] EXCEPT !.status = "running", !.stage = "preview",
                                     !.known = @ \cup listed \cup run[r].gathered]
  <2>1. i \in Positions /\ item[r][i].status = "queued" /\ ~run[r].canceled
    BY <1>7, NextPending DEF StartItem
  <2>2. item' = [item EXCEPT ![r][i] = y]
    BY <1>7 DEF StartItem
  <2> HIDE DEF i
  <2>3. y.status = "running"
    BY <1>1, <2>1 DEF ItemStates
  <2> HIDE DEF y
  <2>4. CASE <<s, j>> # <<r, i>>
    BY <1>1, <1>2, <2>1, <2>2, <2>4
  <2>5. CASE <<s, j>> = <<r, i>>
    BY <1>1, <2>1, <2>2, <2>3, <2>5 DEF ItemAdvances, NothingStarts, StatusChanges
  <2> QED
    BY <2>4, <2>5
<1>8. ASSUME NEW r \in Runs, CancelUnstarted(r)
      PROVE  ItemAdvances(s, j) /\ NothingStarts(s, j)
  <2> DEFINE i == Min(run[r].pending)
             y == [item[r][i] EXCEPT !.status = "canceled"]
  <2>1. i \in Positions /\ item[r][i].status \in {"queued", "canceled"}
    BY <1>8, NextPending DEF CancelUnstarted
  <2>2. item' = [item EXCEPT ![r][i] = y]
    BY <1>8 DEF CancelUnstarted
  <2> HIDE DEF i
  <2>3. y.status = "canceled" /\ y.stage = item[r][i].stage /\ y.calls = item[r][i].calls
    BY <1>1, <2>1 DEF ItemStates
  <2> HIDE DEF y
  <2>4. CASE <<s, j>> # <<r, i>>
    BY <1>1, <1>2, <2>1, <2>2, <2>4
  <2>5. CASE <<s, j>> = <<r, i>>
    BY <1>1, <2>1, <2>2, <2>3, <2>5 DEF ItemAdvances, NothingStarts, StatusChanges
  <2> QED
    BY <2>4, <2>5
<1>9. ASSUME NEW r \in Runs, EndRun(r) \/ PreparationThrows(r)
      PROVE  ItemAdvances(s, j) /\ NothingStarts(s, j)
  <2>1. item' = Aborted(item, {active[run[r].id]})
    BY <1>9 DEF EndRun, PreparationThrows
  <2> QED
    BY <1>1, <1>3, <2>1, AbortedItems
<1>10. ASSUME NEW r \in Runs, NEW i \in Positions, ItemStep(r, i) \/ ProviderAnswers(r, i)
       PROVE  ItemAdvances(s, j) /\ NothingStarts(s, j)
  <2>1. PICK y : Ends(r, i, y) \/ MovesOn(r, i, y)
    BY <1>10, ItemSteps DEF EndsOrMoves
  <2>2. item' = [item EXCEPT ![r][i] = y] /\ item[r][i].stage # "none"
    BY <1>10, <2>1, ItemSteps DEF Ends, MovesOn
  <2>3. CASE <<s, j>> # <<r, i>>
    BY <1>1, <1>2, <2>2, <2>3
  <2>4. CASE <<s, j>> = <<r, i>>
    <3>1. item'[s][j] = y /\ item[s][j].status = "running"
      BY <1>1, <2>2, <2>4, HeldItem
    <3>2. CASE Ends(r, i, y)
      BY <2>4, <3>1, <3>2 DEF Ends, ItemAdvances, NothingStarts, StatusChanges
    <3>3. CASE MovesOn(r, i, y)
      BY <1>1, <2>2, <2>4, <3>1, <3>3 DEF MovesOn, ItemAdvances, NothingStarts, ItemOk
    <3> QED
      BY <2>1, <3>2, <3>3
  <2> QED
    BY <2>3, <2>4
<1>11. ASSUME NEW r \in Runs, NEW i \in Positions, ItemThrows(r, i)
       PROVE  ItemAdvances(s, j) /\ NothingStarts(s, j)
  <2>1. CASE <<s, j>> # <<r, i>>
    BY <1>3, <1>11, <2>1, ThrownItem
  <2>2. CASE <<s, j>> = <<r, i>>
    BY <1>11, <2>2, ThrownItem, HeldItem DEF ItemAdvances, NothingStarts
  <2> QED
    BY <2>1, <2>2
<1>12. CASE ClickCancel \/ Dispose
  <2>1. PICK rs : CancelEffect(rs)
    BY <1>12, CancelsSomeRuns, CancelRunsCancels
  <2> QED
    BY <2>1 DEF CancelEffect, ItemAdvances, NothingStarts, StatusChanges
<1>13. CASE SaveSettings \/ (\E t \in Shared : OthersChange(t)) \/ UNCHANGED vars
  BY <1>2, <1>13 DEF SaveSettings, OthersChange, vars
<1> QED
  BY <1>2, <1>4, <1>5, <1>6, <1>7, <1>8, <1>9, <1>10, <1>11, <1>12, <1>13 DEF Next, RunStep

(* After a cancellation no further item of the run is started and no        *)
(* further call to a provider is made for it, also when the cancellation    *)
(* arrived during the preparation or a backoff.                             *)
THEOREM CanceledRunsStartNothing == Spec => NothingStartsAfterCancel
<1>1. Init => RunsInv /\ StoreOk
  BY RunsInit
<1>2. RunsInv /\ StoreOk /\ [Next]_vars
      => /\ (RunsInv /\ StoreOk)'
         /\ [\A r \in Runs, i \in Positions :
                run[r].canceled =>
                    /\ item'[r][i].calls = item[r][i].calls
                    /\ item'[r][i].stage # "none" => item[r][i].stage # "none"]_vars
  BY RunsStep, StoreStep, ItemsOnlyAdvance DEF NothingStarts
<1> QED
  BY <1>1, <1>2, PTL DEF Spec, NothingStartsAfterCancel

(* A batch is given once, to a run that had none.                           *)
LEMMA BatchesStay ==
  ASSUME RunsInv, [Next]_vars, NEW s \in Runs, run[s].batch # <<>>
  PROVE  run'[s].batch = run[s].batch
<1>1. run \in [Runs -> RunStates] /\ BatchOk(s)
  BY DEF RunsInv, TypeOK
<1>2. ASSUME NEW r \in Runs, NEW q \in QueueIds, RefuseRun(r, q)
      PROVE  run'[s].batch = run[s].batch
  BY <1>1, <1>2 DEF RefuseRun, RunStates
<1>3. ASSUME NEW r \in Runs, NEW q \in QueueIds, NEW b \in Batches, StartRun(r, b, q)
      PROVE  run'[s].batch = run[s].batch
  <2>1. s # r
    BY <1>1, <1>3 DEF StartRun, BatchOk
  <2> QED
    BY <1>1, <1>3, <2>1 DEF StartRun
<1>4. ASSUME NEW r \in Runs, RunStep(r) \/ PreparationThrows(r)
      PROVE  run'[s].batch = run[s].batch
  <2>1. CASE PrepareItem(r)
    BY <1>1, <2>1 DEF PrepareItem, RunStates
  <2>2. CASE StartWorkers(r)
    <3>1. PICK p, n : run' = [run EXCEPT ![r].phase = "running", ![r].snapshot = {},
                                         ![r].pending = p, ![r].live = n]
      BY <2>2 DEF StartWorkers
    <3> QED
      BY <1>1, <3>1 DEF RunStates
  <2>3. CASE StartItem(r) \/ CancelUnstarted(r)
    BY <1>1, <2>3 DEF StartItem, CancelUnstarted, Pick, RunStates
  <2>4. CASE EndRun(r)
    BY <1>1, <2>4 DEF EndRun, RunStates
  <2>5. CASE PreparationThrows(r)
    BY <1>1, <2>5 DEF PreparationThrows, RunStates
  <2> QED
    BY <1>4, <2>1, <2>2, <2>3, <2>4, <2>5 DEF RunStep
<1>5. ASSUME NEW r \in Runs, NEW i \in Positions, ItemStep(r, i) \/ ProviderAnswers(r, i)
      PROVE  run'[s].batch = run[s].batch
  <2>1. PICK y : Ends(r, i, y) \/ MovesOn(r, i, y)
    BY <1>5, ItemSteps DEF EndsOrMoves
  <2> QED
    BY <1>1, <2>1 DEF Ends, MovesOn, RunStates
<1>6. ASSUME NEW r \in Runs, NEW i \in Positions, ItemThrows(r, i)
      PROVE  run'[s].batch = run[s].batch
  <2>1. \/ run' = [run EXCEPT ![r].phase = "rejected", ![r].live = @ - 1]
        \/ run' = [run EXCEPT ![r].live = @ - 1]
    BY <1>6 DEF ItemThrows
  <2> QED
    BY <1>1, <2>1 DEF RunStates
<1>7. CASE ClickCancel \/ Dispose
  BY <1>7, CancelsSomeRuns, CancelRunsCancels DEF CancelEffect
<1>8. CASE SaveSettings \/ (\E t \in Shared : OthersChange(t)) \/ UNCHANGED vars
  BY <1>8 DEF SaveSettings, OthersChange, vars
<1> QED
  BY <1>2, <1>3, <1>4, <1>5, <1>6, <1>7, <1>8 DEF Next

-----------------------------------------------------------------------------
(* Items do not compete *)

Live == {"queued", "running", "staged"}

Apart(r, i, j) ==
    /\ TargetsOf[SourceAt(r, i)] \cap TargetsOf[SourceAt(r, j)] = {}
    /\ ContentOf[SourceAt(r, i)] # ContentOf[SourceAt(r, j)]

LEMMA CompeteStep ==
  ASSUME RunsInv, ItemsDoNotCompete, [Next]_vars
  PROVE  ItemsDoNotCompete'
<1> SUFFICES ASSUME NEW r \in Runs, NEW i \in Positions, NEW j \in Positions, i # j,
                    item'[r][i].status \in Live, item'[r][j].status \in Live
             PROVE  Apart(r, i, j)'
  BY DEF ItemsDoNotCompete, Apart, Live
<1>1. BatchOk(r) /\ ItemOk(r, i) /\ ItemOk(r, j)
  BY DEF RunsInv
<1>2. ASSUME NEW k \in {i, j}, item[r][k].status # "none"
      PROVE  \A l : SourceAt(r, l)' = SourceAt(r, l)
  <2>1. run[r].batch # <<>>
    BY <1>1, <1>2 DEF BatchOk
  <2> QED
    BY <2>1, BatchesStay DEF SourceAt
<1>3. ASSUME NEW k \in {i, j}, ~ItemPrepared(r, k)
      PROVE  item[r][k].status \in Live
  BY <1>3, ItemsOnlyAdvance DEF ItemAdvances, StatusChanges, Live
<1>4. CASE item[r][i].status \in Live /\ item[r][j].status \in Live
  <2>1. Apart(r, i, j)
    BY <1>4 DEF ItemsDoNotCompete, Apart, Live
  <2>2. \A l : SourceAt(r, l)' = SourceAt(r, l)
    BY <1>2, <1>4 DEF Live
  <2> QED
    BY <2>1, <2>2 DEF Apart
<1>5. ASSUME NEW k \in Positions, NEW l \in Positions, {k, l} = {i, j}, k # l, ItemPrepared(r, k)
      PROVE  Apart(r, k, l)'
  <2>1. item'[r][k].status = "queued" /\ ~QueueDuplicate(r, k)
    BY <1>5 DEF ItemPrepared, Live
  <2>2. item'[r][l] = item[r][l] /\ run[r].phase = "preparing"
    BY <1>5 DEF ItemPrepared
  <2>3. item[r][l].status = "queued"
    BY <1>1, <1>5, <2>2 DEF ItemOk, Live
  <2>4. l \in Seen(r)
    BY <1>1, <1>5, <2>3 DEF Seen, BatchOk
  <2>5. Apart(r, k, l)
    BY <2>1, <2>4 DEF QueueDuplicate, Apart
  <2>6. \A m : SourceAt(r, m)' = SourceAt(r, m)
    BY <1>2, <1>5, <2>3
  <2> QED
    BY <2>5, <2>6 DEF Apart
<1>6. Apart(r, j, i)' => Apart(r, i, j)'
  BY DEF Apart
<1> QED
  BY <1>3, <1>4, <1>5, <1>6

(* The items of a run never compete for a note: what is queued, running or  *)
(* staged has notes and contents of its own (queueDuplicateIssue).          *)
THEOREM NoCompetition == Spec => []ItemsDoNotCompete
<1>1. Init => RunsInv /\ StoreOk /\ ItemsDoNotCompete
  <2>1. Init => ItemsDoNotCompete
    BY NoItemIsItem DEF Init, ItemsDoNotCompete
  <2> QED
    BY <2>1, RunsInit
<1>2. RunsInv /\ StoreOk /\ ItemsDoNotCompete /\ [Next]_vars
      => (RunsInv /\ StoreOk /\ ItemsDoNotCompete)'
  BY RunsStep, StoreStep, CompeteStep
<1> QED
  BY <1>1, <1>2, PTL DEF Spec

-----------------------------------------------------------------------------
(* Contents in flight *)

Stages == {"provider", "backoff", "artifact"}

LEMMA StagingPairs ==
  \A s \in Runs, j \in Positions : <<s, j>> \in Staging <=> item[s][j].stage \in Stages
BY DEF Staging, Stages

LEMMA ContentAtPair == \A s, j : ContentAt(<<s, j>>) = ContentOf[SourceAt(s, j)]
BY DEF ContentAt

LEMMA StagedContentStays ==
  ASSUME RunsInv, [Next]_vars, NEW s \in Runs, NEW j \in Positions, item[s][j].stage # "none"
  PROVE  SourceAt(s, j)' = SourceAt(s, j)
<1>1. BatchOk(s) /\ item[s][j].status = "running"
  BY HeldItem DEF RunsInv
<1>2. run[s].batch # <<>>
  BY <1>1 DEF BatchOk
<1> QED
  BY <1>2, BatchesStay DEF SourceAt

(* Nothing begins or ends to be staged.                                     *)
LEMMA ClaimsSame ==
  ASSUME RunsInv, [Next]_vars, ClaimsOk, inFlight' = inFlight,
         \A s \in Runs, j \in Positions : item'[s][j].stage \in Stages <=> item[s][j].stage \in Stages
  PROVE  ClaimsOk'
<1>1. Staging' = Staging
  BY DEF Staging, Stages
<1>2. \A x \in Staging : ContentAt(x)' = ContentAt(x)
  BY StagedContentStays DEF Staging, ContentAt
<1> QED
  BY <1>1, <1>2 DEF ClaimsOk

(* An item is no longer staged, and gives its content back.                 *)
LEMMA ClaimReleased ==
  ASSUME RunsInv, [Next]_vars, ClaimsOk, NEW r \in Runs, NEW i \in Positions,
         item[r][i].stage \in Stages, item'[r][i].stage \notin Stages,
         \A s \in Runs, j \in Positions :
            <<s, j>> # <<r, i>> => (item'[s][j].stage \in Stages <=> item[s][j].stage \in Stages),
         inFlight' = inFlight \ {ContentOf[SourceAt(r, i)]}
  PROVE  ClaimsOk'
<1> DEFINE me == <<r, i>>
<1>1. me \in Staging /\ Staging' = Staging \ {me}
  BY DEF Staging, Stages
<1>2. \A x \in Staging : ContentAt(x)' = ContentAt(x)
  BY StagedContentStays DEF Staging, ContentAt
<1>3. inFlight' = inFlight \ {ContentAt(me)}
  BY ContentAtPair
<1> HIDE DEF me
<1>4. IsFiniteSet(Staging')
  BY <1>1, FS_RemoveElement DEF ClaimsOk
<1>5. inFlight' = {ContentAt(x) : x \in Staging \ {me}}
  BY <1>1, <1>3 DEF ClaimsOk
<1>6. inFlight' = {ContentAt(x)' : x \in Staging'}
  BY <1>1, <1>2, <1>5
<1>7. \A x, y \in Staging' : ContentAt(x)' = ContentAt(y)' => x = y
  BY <1>1, <1>2 DEF ClaimsOk
<1> QED
  BY <1>4, <1>6, <1>7 DEF ClaimsOk

(* An item begins to be staged, and claims a content nobody else has.       *)
LEMMA ClaimTaken ==
  ASSUME RunsInv, [Next]_vars, ClaimsOk, NEW r \in Runs, NEW i \in Positions,
         item[r][i].stage = "preview", item'[r][i].stage \in Stages,
         \A s \in Runs, j \in Positions :
            <<s, j>> # <<r, i>> => (item'[s][j].stage \in Stages <=> item[s][j].stage \in Stages),
         ContentOf[SourceAt(r, i)] \notin inFlight,
         inFlight' = inFlight \cup {ContentOf[SourceAt(r, i)]}
  PROVE  ClaimsOk'
<1> DEFINE me == <<r, i>>
<1>1. me \notin Staging /\ Staging' = Staging \cup {me}
  BY DEF Staging, Stages
<1>2. \A x \in Staging : ContentAt(x)' = ContentAt(x)
  BY StagedContentStays DEF Staging, ContentAt
<1>3. ContentAt(me)' = ContentAt(me)
  BY StagedContentStays DEF ContentAt
<1>4. ContentAt(me) \notin inFlight /\ inFlight' = inFlight \cup {ContentAt(me)}
  BY ContentAtPair
<1> HIDE DEF me
<1>5. IsFiniteSet(Staging')
  BY <1>1, FS_AddElement DEF ClaimsOk
<1>6. inFlight' = {ContentAt(x) : x \in Staging \cup {me}}
  BY <1>4 DEF ClaimsOk
<1>7. inFlight' = {ContentAt(x)' : x \in Staging'}
  BY <1>1, <1>2, <1>3, <1>6
<1>8. \A x, y \in Staging' : ContentAt(x)' = ContentAt(y)' => x = y
  BY <1>1, <1>2, <1>3, <1>4 DEF ClaimsOk
<1> QED
  BY <1>5, <1>7, <1>8 DEF ClaimsOk

LEMMA ClaimsStep ==
  ASSUME RunsInv, ClaimsOk, [Next]_vars
  PROVE  ClaimsOk'
<1>1. /\ item \in [Runs -> [Positions -> ItemStates]]
      /\ \A s \in Runs, j \in Positions : ItemOk(s, j)
  BY DEF RunsInv, TypeOK
<1>2. CASE UNCHANGED <<item, inFlight>>
  BY <1>2, ClaimsSame
<1>3. ASSUME NEW r \in Runs, NEW q \in QueueIds,
             RefuseRun(r, q) \/ \E b \in Batches : StartRun(r, b, q)
      PROVE  UNCHANGED <<item, inFlight>>
  BY <1>3 DEF RefuseRun, StartRun
<1>4. ASSUME NEW r \in Runs, NEW i \in Positions, NEW y, item' = [item EXCEPT ![r][i] = y],
             item[r][i].stage = "none", y.stage \in {"none", "preview"}, inFlight' = inFlight
      PROVE  ClaimsOk'
  <2>1. \A s \in Runs, j \in Positions : item'[s][j].stage \in Stages <=> item[s][j].stage \in Stages
    BY <1>1, <1>4 DEF Stages
  <2> QED
    BY <1>4, <2>1, ClaimsSame
<1>5. ASSUME NEW r \in Runs, PrepareItem(r)
      PROVE  ClaimsOk'
  <2>1. PICK i \in Positions, y \in ItemStates : Prepares(r, i, y)
    BY <1>5, PrepareItemPrepares
  <2>2. item[r][i].stage = "none" /\ inFlight' = inFlight
    BY <1>1, <1>5, <2>1 DEF PrepareItem, Prepares, ItemOk
  <2> QED
    BY <1>4, <2>1, <2>2 DEF Prepares
<1>6. ASSUME NEW r \in Runs, StartWorkers(r)
      PROVE  UNCHANGED <<item, inFlight>>
  BY <1>6 DEF StartWorkers
<1>7. ASSUME NEW r \in Runs, StartItem(r)
      PROVE  ClaimsOk'
  <2> DEFINE i == Min(run[r].pending)
             y == [item[r][i] EXCEPT !.status = "running", !.stage = "preview",
                                     !.known = @ \cup listed \cup run[r].gathered]
  <2>1. i \in Positions /\ item[r][i].stage = "none" /\ inFlight' = inFlight
    BY <1>7, NextPending DEF StartItem
  <2>2. item' = [item EXCEPT ![r][i] = y]
    BY <1>7 DEF StartItem
  <2> HIDE DEF i
  <2>3. y.stage = "preview"
    BY <1>1, <2>1 DEF ItemStates
  <2> HIDE DEF y
  <2> QED
    BY <1>4, <2>1, <2>2, <2>3
<1>8. ASSUME NEW r \in Runs, CancelUnstarted(r)
      PROVE  ClaimsOk'
  <2> DEFINE i == Min(run[r].pending)
             y == [item[r][i] EXCEPT !.status = "canceled"]
  <2>1. i \in Positions /\ item[r][i].stage = "none" /\ inFlight' = inFlight
    BY <1>8, NextPending DEF CancelUnstarted
  <2>2. item' = [item EXCEPT ![r][i] = y]
    BY <1>8 DEF CancelUnstarted
  <2> HIDE DEF i
  <2>3. y.stage = "none"
    BY <1>1, <2>1 DEF ItemStates
  <2> HIDE DEF y
  <2> QED
    BY <1>4, <2>1, <2>2, <2>3
<1>9. ASSUME NEW r \in Runs, EndRun(r) \/ PreparationThrows(r)
      PROVE  ClaimsOk'
  <2>1. item' = Aborted(item, {active[run[r].id]}) /\ inFlight' = inFlight
    BY <1>9 DEF EndRun, PreparationThrows
  <2> QED
    BY <1>1, <2>1, AbortedItems, ClaimsSame
<1>10. ASSUME NEW r \in Runs, NEW i \in Positions, ItemStep(r, i) \/ ProviderAnswers(r, i)
       PROVE  ClaimsOk'
  <2>1. PICK y : Ends(r, i, y) \/ MovesOn(r, i, y)
    BY <1>10, ItemSteps DEF EndsOrMoves
  <2>2. item' = [item EXCEPT ![r][i] = y] /\ item[r][i].stage # "none"
    BY <1>10, <2>1, ItemSteps DEF Ends, MovesOn
  <2>3. /\ item'[r][i] = y
        /\ \A s \in Runs, j \in Positions : <<s, j>> # <<r, i>> => item'[s][j] = item[s][j]
    BY <1>1, <2>2
  <2>4. item[r][i].stage # "preview" =>
           item[r][i].stage \in Stages /\ ContentOf[SourceAt(r, i)] \in inFlight
    <3> SUFFICES ASSUME item[r][i].stage # "preview"
                 PROVE  item[r][i].stage \in Stages /\ ContentOf[SourceAt(r, i)] \in inFlight
      OBVIOUS
    <3>1. item[r][i].stage \in Stages
      BY <1>1, <2>2 DEF ItemStates, Stages
    <3>2. <<r, i>> \in Staging
      BY <3>1, StagingPairs
    <3> QED
      BY <3>1, <3>2, ContentAtPair DEF ClaimsOk
  <2>5. CASE Ends(r, i, y) /\ item[r][i].stage = "preview"
    <3>1. inFlight' = inFlight /\ y.stage \notin Stages /\ item[r][i].stage \notin Stages
      BY <2>5 DEF Ends, Stages
    <3>2. \A s \in Runs, j \in Positions : item'[s][j].stage \in Stages <=> item[s][j].stage \in Stages
      BY <2>3, <3>1
    <3> QED
      BY <3>1, <3>2, ClaimsSame
  <2>6. CASE Ends(r, i, y) /\ item[r][i].stage # "preview"
    BY <2>3, <2>4, <2>6, ClaimReleased DEF Ends, Stages
  <2>7. CASE MovesOn(r, i, y) /\ item[r][i].stage = "preview"
    BY <2>3, <2>7, ClaimTaken DEF MovesOn, Stages
  <2>8. CASE MovesOn(r, i, y) /\ item[r][i].stage # "preview"
    <3>1. inFlight' = inFlight
      BY <2>4, <2>8 DEF MovesOn
    <3>2. \A s \in Runs, j \in Positions : item'[s][j].stage \in Stages <=> item[s][j].stage \in Stages
      BY <2>3, <2>4, <2>8 DEF MovesOn, Stages
    <3> QED
      BY <3>1, <3>2, ClaimsSame
  <2> QED
    BY <2>1, <2>5, <2>6, <2>7, <2>8
<1>11. ASSUME NEW r \in Runs, NEW i \in Positions, ItemThrows(r, i)
       PROVE  ClaimsOk'
  <2>1. /\ item[r][i].stage # "none" /\ item'[r][i].stage \notin Stages
        /\ \A s \in Runs, j \in Positions :
              <<s, j>> # <<r, i>> => item'[s][j].stage = item[s][j].stage
    BY <1>11, ThrownItem DEF Stages
  <2>2. CASE item[r][i].stage = "preview"
    <3>1. inFlight' = inFlight
      BY <1>11, <2>2 DEF ItemThrows
    <3>2. \A s \in Runs, j \in Positions : item'[s][j].stage \in Stages <=> item[s][j].stage \in Stages
      BY <2>1, <2>2 DEF Stages
    <3> QED
      BY <3>1, <3>2, ClaimsSame
  <2>3. CASE item[r][i].stage # "preview"
    <3>1. inFlight' = inFlight \ {ContentOf[SourceAt(r, i)]}
      BY <1>11, <2>3 DEF ItemThrows, Release
    <3>2. item[r][i].stage \in Stages
      BY <1>1, <2>1, <2>3 DEF ItemStates, Stages
    <3> QED
      BY <2>1, <3>1, <3>2, ClaimReleased
  <2> QED
    BY <2>2, <2>3
<1>12. CASE ClickCancel \/ Dispose
  <2>1. \A s \in Runs, j \in Positions : item'[s][j].stage = item[s][j].stage
    BY <1>12, CancelsSomeRuns, CancelRunsCancels DEF CancelEffect
  <2>2. inFlight' = inFlight
    BY <1>12 DEF ClickCancel, Dispose
  <2> QED
    BY <2>1, <2>2, ClaimsSame
<1>13. CASE SaveSettings \/ (\E t \in Shared : OthersChange(t)) \/ UNCHANGED vars
  BY <1>2, <1>13 DEF SaveSettings, OthersChange, vars
<1> QED
  BY <1>2, <1>3, <1>5, <1>6, <1>7, <1>8, <1>9, <1>10, <1>11, <1>12, <1>13 DEF Next, RunStep

LEMMA ClaimsCounted == ClaimsOk => FingerprintsHeld
<1> SUFFICES ASSUME ClaimsOk
             PROVE  FingerprintsHeld
  OBVIOUS
<1> DEFINE f == [x \in Staging |-> ContentAt(x)]
<1>1. f \in Bijection(Staging, inFlight)
  BY DEF ClaimsOk, Bijection, Injection, Surjection, IsInjective
<1>2. ExistsBijection(Staging, inFlight)
  BY <1>1 DEF ExistsBijection
<1>3. Cardinality(inFlight) = Cardinality(Staging)
  BY <1>2, FS_Bijection DEF ClaimsOk
<1>4. inFlight = {ContentAt(x) : x \in Staging}
  BY DEF ClaimsOk
<1> QED
  BY <1>3, <1>4 DEF FingerprintsHeld, Staging, ContentAt

(* A content is in flight exactly while one item is staging it: no failure, *)
(* cancellation or refusal of another item with the same content keeps it   *)
(* claimed or releases it too early (inFlightFingerprints).                 *)
THEOREM ClaimsHeld == Spec => []FingerprintsHeld
<1>1. Init => RunsInv /\ StoreOk /\ ClaimsOk
  <2> SUFFICES ASSUME Init
               PROVE  ClaimsOk
    BY RunsInit
  <2>1. Staging = {}
    BY NoItemIsItem DEF Init, Staging
  <2> QED
    BY <2>1, FS_EmptySet DEF Init, ClaimsOk
<1>2. RunsInv /\ StoreOk /\ ClaimsOk /\ [Next]_vars => (RunsInv /\ StoreOk /\ ClaimsOk)'
  BY RunsStep, StoreStep, ClaimsStep
<1> QED
  BY <1>1, <1>2, ClaimsCounted, PTL DEF Spec

-----------------------------------------------------------------------------
(* The queue keeps the contract of a batch *)

(* The state of the contract, as the queue has it.                          *)
OutcomeOf(status) == IF status \in {"none", "queued", "running"} THEN "open" ELSE status

VerdictOf(phase) ==
    CASE phase \in {"idle", "preparing", "running"} -> "open"
      [] phase = "done" -> "published"
      [] phase \in {"refused", "rejected"} -> "givenUp"

GivenBatch == [r \in Runs |-> run[r].batch]

ItemOutcome == [r \in Runs |-> [i \in Positions |-> OutcomeOf(item[r][i].status)]]

RunVerdict == [r \in Runs |-> VerdictOf(run[r].phase)]

(* What a step leaves alone.                                                *)
BatchesSame == \A s \in Runs : run'[s].batch = run[s].batch

OutcomesSame ==
    \A s \in Runs, j \in Positions :
        OutcomeOf(item'[s][j].status) = OutcomeOf(item[s][j].status)

VerdictsSame == \A s \in Runs : VerdictOf(run'[s].phase) = VerdictOf(run[s].phase)

OnlyPhaseOf(r) == \A s \in Runs \ {r} : run'[s].phase = run[s].phase

LEMMA GivenBatchSame == BatchesSame => GivenBatch' = GivenBatch
BY DEF BatchesSame, GivenBatch

LEMMA ItemOutcomeSame == OutcomesSame => ItemOutcome' = ItemOutcome
BY DEF OutcomesSame, ItemOutcome

LEMMA RunVerdictSame == VerdictsSame => RunVerdict' = RunVerdict
BY DEF VerdictsSame, RunVerdict

LEMMA RunVerdictChanges ==
  ASSUME NEW r \in Runs, OnlyPhaseOf(r)
  PROVE  RunVerdict' = [RunVerdict EXCEPT ![r] = VerdictOf(run'[r].phase)]
BY DEF OnlyPhaseOf, RunVerdict

(* Whatever the step, what is decided of an item stays.                     *)
LEMMA ItemsSettle ==
  ASSUME RunsInv, RunsInv', [Next]_vars
  PROVE  /\ ItemOutcome' \in [Runs -> [Positions -> {"staged", "failed", "canceled", "skipped", "open"}]]
         /\ \A r \in Runs, i \in Positions :
               ItemOutcome[r][i] # "open" => ItemOutcome'[r][i] = ItemOutcome[r][i]
<1>1. ASSUME NEW r \in Runs, NEW i \in Positions
      PROVE  /\ OutcomeOf(item'[r][i].status) \in {"staged", "failed", "canceled", "skipped", "open"}
             /\ OutcomeOf(item[r][i].status) # "open"
                   => OutcomeOf(item'[r][i].status) = OutcomeOf(item[r][i].status)
  <2>1. item'[r][i].status \in ItemStatuses
    BY DEF RunsInv, TypeOK, ItemStates
  <2>2. ItemAdvances(r, i)
    BY ItemsOnlyAdvance
  <2> QED
    BY <2>1, <2>2 DEF ItemStatuses, OutcomeOf, ItemAdvances, StatusChanges, ItemPrepared
<1> QED
  BY <1>1 DEF ItemOutcome

(* A run that neither begins nor is refused keeps its batch, or has none.   *)
LEMMA BatchSameWith ==
  ASSUME RunsInv, RunsInv', [Next]_vars, NEW s \in Runs,
         run'[s].phase \in {"idle", "refused"} <=> run[s].phase \in {"idle", "refused"}
  PROVE  run'[s].batch = run[s].batch
<1>1. BatchOk(s) /\ BatchOk(s)'
  BY DEF RunsInv
<1>2. CASE run[s].batch = <<>>
  BY <1>1, <1>2 DEF BatchOk
<1>3. CASE run[s].batch # <<>>
  BY <1>3, BatchesStay
<1> QED
  BY <1>2, <1>3

LEMMA DecidesItems ==
  ASSUME RunsInv, RunsInv', [Next]_vars, listed' = listed,
         \A s \in Runs : \/ run'[s].phase = run[s].phase
                         \/ run[s].phase = "preparing" /\ run'[s].phase = "running"
  PROVE  Contract!DecideItems
<1>1. BatchesSame
  BY BatchSameWith DEF BatchesSame
<1>2. VerdictsSame
  BY DEF VerdictsSame, VerdictOf
<1>3. GivenBatch' = GivenBatch /\ RunVerdict' = RunVerdict
  BY <1>1, <1>2, GivenBatchSame, RunVerdictSame
<1> QED
  BY <1>3, ItemsSettle DEF Contract!DecideItems, Contract!SettleItems, Contract!Outcomes,
                           GivenBatch, RunVerdict, ItemOutcome, OutcomeOf, VerdictOf

LEMMA GivesUp ==
  ASSUME RunsInv, RunsInv', [Next]_vars, NEW r \in Runs, OutcomesSame, OnlyPhaseOf(r),
         BatchesSame, listed' = listed,
         run[r].phase \in {"idle", "preparing", "running"},
         run'[r].phase \in {"refused", "rejected"}
  PROVE  Contract!GiveUp(r)
<1>1. GivenBatch' = GivenBatch /\ ItemOutcome' = ItemOutcome
  BY GivenBatchSame, ItemOutcomeSame
<1>2. RunVerdict' = [RunVerdict EXCEPT ![r] = "givenUp"]
  BY RunVerdictChanges DEF VerdictOf
<1>3. RunVerdict[r] = "open"
  BY DEF RunVerdict, VerdictOf
<1> QED
  BY <1>1, <1>2, <1>3 DEF Contract!GiveUp, GivenBatch, RunVerdict, ItemOutcome, OutcomeOf, VerdictOf

LEMMA SubmitsBatch ==
  ASSUME RunsInv, NEW r \in Runs, NEW q \in QueueIds, NEW b \in Batches, StartRun(r, b, q)
  PROVE  Contract!Submit(r, b)
<1> DEFINE v == [NoRun EXCEPT !.phase = "preparing", !.batch = b, !.id = q, !.snapshot = listed]
<1>1. v.phase = "preparing" /\ v.batch = b
  BY NoRunIsRun DEF RunStates
<1>2. run[r].phase = "idle" /\ run' = [run EXCEPT ![r] = v] /\ item' = item /\ listed' = listed
  BY DEF StartRun
<1> HIDE DEF v
<1>3. run \in [Runs -> RunStates] /\ BatchOk(r)
  BY DEF RunsInv, TypeOK
<1>4. GivenBatch[r] = <<>> /\ RunVerdict[r] = "open"
  BY <1>2, <1>3 DEF GivenBatch, RunVerdict, BatchOk, VerdictOf
<1>5. GivenBatch' = [GivenBatch EXCEPT ![r] = b]
  BY <1>1, <1>2, <1>3 DEF GivenBatch
<1>6. RunVerdict' = RunVerdict /\ ItemOutcome' = ItemOutcome
  <2>1. VerdictsSame
    BY <1>1, <1>2, <1>3 DEF VerdictsSame, VerdictOf
  <2> QED
    BY <1>2, <2>1, RunVerdictSame DEF ItemOutcome
<1> QED
  BY <1>2, <1>4, <1>5, <1>6 DEF Contract!Submit, GivenBatch, RunVerdict, ItemOutcome,
                                OutcomeOf, VerdictOf

(* A run is refused, its preparation throws, or one of its items does.      *)
LEMMA ThrowingRunGivesUp ==
  ASSUME RunsInv, RunsInv', [Next]_vars, NEW r \in Runs,
         \/ \E q \in QueueIds : RefuseRun(r, q)
         \/ PreparationThrows(r)
         \/ run[r].phase = "running" /\ \E i \in Positions : ItemThrows(r, i)
  PROVE  Contract!GiveUp(r)
<1>1. run \in [Runs -> RunStates] /\ item \in [Runs -> [Positions -> ItemStates]]
  BY DEF RunsInv, TypeOK
<1>2. ASSUME NEW q \in QueueIds, RefuseRun(r, q)
      PROVE  Contract!GiveUp(r)
  <2>1. run' = [run EXCEPT ![r].phase = "refused", ![r].id = q]
        /\ run[r].phase = "idle" /\ item' = item /\ listed' = listed
    BY <1>2 DEF RefuseRun
  <2>2. run'[r].phase = "refused" /\ OnlyPhaseOf(r) /\ BatchesSame
    BY <1>1, <2>1 DEF RunStates, OnlyPhaseOf, BatchesSame
  <2>3. OutcomesSame
    BY <2>1 DEF OutcomesSame
  <2> QED
    BY <2>1, <2>2, <2>3, GivesUp
<1>3. CASE PreparationThrows(r)
  <2>1. /\ run[r].phase = "preparing" /\ run'[r].phase = "rejected" /\ OnlyPhaseOf(r)
        /\ BatchesSame /\ listed' = listed
    BY <1>1, <1>3 DEF PreparationThrows, RunStates, OnlyPhaseOf, BatchesSame
  <2>2. OutcomesSame
    BY <1>1, <1>3, AbortedItems DEF PreparationThrows, OutcomesSame
  <2> QED
    BY <2>1, <2>2, GivesUp
<1>4. ASSUME NEW i \in Positions, run[r].phase = "running", ItemThrows(r, i)
      PROVE  Contract!GiveUp(r)
  <2>1. /\ run' = [run EXCEPT ![r].phase = "rejected", ![r].live = @ - 1]
        /\ listed' = listed
    BY <1>4 DEF ItemThrows
  <2>2. run'[r].phase = "rejected" /\ OnlyPhaseOf(r) /\ BatchesSame
    BY <1>1, <2>1 DEF RunStates, OnlyPhaseOf, BatchesSame
  <2>3. item[r][i].status = "running"
    BY <1>4, ThrownItem, HeldItem
  <2>4. OutcomesSame
    <3> SUFFICES ASSUME NEW s \in Runs, NEW j \in Positions
                 PROVE  item'[s][j].status = item[s][j].status
      BY DEF OutcomesSame
    <3> QED
      BY <1>4, <2>3, ThrownItem
  <2> QED
    BY <1>4, <2>1, <2>2, <2>4, GivesUp
<1> QED
  BY <1>2, <1>3, <1>4

(* A run that ends lists the notes of exactly its staged items.             *)
LEMMA EndRunPublishes ==
  ASSUME RunsInv, RunsInv', [Next]_vars, NEW r \in Runs, EndRun(r)
  PROVE  Contract!Publish(r)
<1>1. /\ run \in [Runs -> RunStates] /\ item \in [Runs -> [Positions -> ItemStates]]
      /\ BatchOk(r) /\ GatheredOk(r) /\ \A i \in Positions : ItemOk(r, i)
  BY DEF RunsInv, TypeOK
<1>2. /\ run[r].phase = "running" /\ run[r].pending = {} /\ Held(r) = {}
      /\ run' = [run EXCEPT ![r].phase = "done"]
      /\ item' = Aborted(item, {active[run[r].id]})
      /\ listed' = listed \cup run[r].gathered
  BY DEF EndRun
<1>3. run[r].batch \in Batches /\ DOMAIN run[r].batch \subseteq Positions
  BY <1>1, <1>2, PositionsOfBatch DEF BatchOk, RunStates
<1>4. run'[r].phase = "done" /\ OnlyPhaseOf(r) /\ BatchesSame
  BY <1>1, <1>2 DEF RunStates, OnlyPhaseOf, BatchesSame
<1>5. OutcomesSame
  BY <1>1, <1>2, AbortedItems DEF OutcomesSame
<1>6. GivenBatch' = GivenBatch /\ ItemOutcome' = ItemOutcome
  BY <1>4, <1>5, GivenBatchSame, ItemOutcomeSame
<1>7. RunVerdict' = [RunVerdict EXCEPT ![r] = "published"]
  BY <1>4, RunVerdictChanges DEF VerdictOf
<1>8. RunVerdict[r] = "open" /\ GivenBatch[r] # <<>>
  BY <1>1, <1>2 DEF RunVerdict, GivenBatch, VerdictOf, BatchOk
<1>9. \A i \in DOMAIN GivenBatch[r] : ItemOutcome[r][i] # "open"
  <2> SUFFICES ASSUME NEW i \in DOMAIN run[r].batch
               PROVE  item[r][i].status \notin {"none", "queued", "running"}
    <3>1. \A i \in Positions : item[r][i].status \in ItemStatuses
      BY <1>1 DEF ItemStates
    <3>2. "open" \notin ItemStatuses
      BY DEF ItemStatuses
    <3>3. \A i \in Positions :
             item[r][i].status \notin {"none", "queued", "running"}
                => OutcomeOf(item[r][i].status) # "open"
      BY <3>1, <3>2 DEF OutcomeOf
    <3> QED
      BY <1>3, <3>3 DEF GivenBatch, ItemOutcome
  <2>1. i \in Positions /\ item[r][i].stage = "none" /\ ItemOk(r, i)
    BY <1>1, <1>2, <1>3 DEF Held
  <2> QED
    BY <1>2, <2>1 DEF ItemOk
<1>10. run[r].gathered =
          UNION {TargetsOf[GivenBatch[r][i]] :
                    i \in {j \in DOMAIN GivenBatch[r] : ItemOutcome[r][j] = "staged"}}
  <2>1. \A j \in Positions : ItemOutcome[r][j] = "staged" <=> item[r][j].status = "staged"
    BY <1>1 DEF ItemOutcome, OutcomeOf, ItemStates
  <2>2. GivenBatch[r] = run[r].batch
    BY DEF GivenBatch
  <2>3. {j \in DOMAIN GivenBatch[r] : ItemOutcome[r][j] = "staged"}
           = {j \in Positions : item[r][j].status = "staged"}
    BY <1>1, <1>3, <2>1, <2>2 DEF BatchOk
  <2> QED
    BY <1>1, <2>2, <2>3 DEF GatheredOk, SourceAt
<1> QED
  BY <1>2, <1>6, <1>7, <1>8, <1>9, <1>10
  DEF Contract!Publish, Contract!Staged, GivenBatch, RunVerdict, ItemOutcome, OutcomeOf, VerdictOf

LEMMA UnloadsList ==
  ASSUME RunsInv, RunsInv', [Next]_vars, Dispose
  PROVE  Contract!Unload
<1>1. PICK rs : CancelEffect(rs)
  BY CancelsSomeRuns, CancelRunsCancels
<1>2. BatchesSame /\ VerdictsSame /\ listed' = {}
  BY <1>1 DEF CancelEffect, BatchesSame, VerdictsSame, Dispose
<1>3. GivenBatch' = GivenBatch /\ RunVerdict' = RunVerdict
  BY <1>2, GivenBatchSame, RunVerdictSame
<1> QED
  BY <1>2, <1>3, ItemsSettle DEF Contract!Unload, Contract!SettleItems, Contract!Outcomes,
                                 GivenBatch, RunVerdict, ItemOutcome, OutcomeOf, VerdictOf

(* The steps that bring runs and items on, and the cancellation.            *)
LEMMA WorkDecidesItems ==
  ASSUME RunsInv, RunsInv', [Next]_vars,
         \/ \E r \in Runs : RunStep(r) /\ ~EndRun(r)
         \/ \E r \in Runs, i \in Positions : ItemStep(r, i) \/ ProviderAnswers(r, i)
         \/ \E r \in Runs, i \in Positions : run[r].phase # "running" /\ ItemThrows(r, i)
         \/ ClickCancel
  PROVE  Contract!DecideItems
<1>1. run \in [Runs -> RunStates]
  BY DEF RunsInv, TypeOK
<1>2. ASSUME NEW r \in Runs, PrepareItem(r) \/ StartItem(r) \/ CancelUnstarted(r)
      PROVE  listed' = listed /\ \A s \in Runs : run'[s].phase = run[s].phase
  BY <1>1, <1>2 DEF PrepareItem, StartItem, CancelUnstarted, Pick, RunStates
<1>3. ASSUME NEW r \in Runs, StartWorkers(r)
      PROVE  /\ listed' = listed
             /\ \A s \in Runs : \/ run'[s].phase = run[s].phase
                                \/ run[s].phase = "preparing" /\ run'[s].phase = "running"
  <2>1. PICK p, n : run' = [run EXCEPT ![r].phase = "running", ![r].snapshot = {},
                                       ![r].pending = p, ![r].live = n]
    BY <1>3 DEF StartWorkers
  <2>2. run[r].phase = "preparing" /\ listed' = listed
    BY <1>3 DEF StartWorkers
  <2> QED
    BY <1>1, <2>1, <2>2 DEF RunStates
<1>4. ASSUME NEW r \in Runs, NEW i \in Positions, ItemStep(r, i) \/ ProviderAnswers(r, i)
      PROVE  listed' = listed /\ \A s \in Runs : run'[s].phase = run[s].phase
  <2>1. PICK y : Ends(r, i, y) \/ MovesOn(r, i, y)
    BY <1>4, ItemSteps DEF EndsOrMoves
  <2>2. listed' = listed
    BY <1>4, ItemSteps DEF OtherVars
  <2> QED
    BY <1>1, <2>1, <2>2 DEF Ends, MovesOn, RunStates
<1>5. ASSUME NEW r \in Runs, NEW i \in Positions, run[r].phase # "running", ItemThrows(r, i)
      PROVE  listed' = listed /\ \A s \in Runs : run'[s].phase = run[s].phase
  <2>1. run' = [run EXCEPT ![r].live = @ - 1] /\ listed' = listed
    BY <1>5 DEF ItemThrows
  <2> QED
    BY <1>1, <2>1 DEF RunStates
<1>6. CASE ClickCancel
  BY <1>6, CancelsSomeRuns, CancelRunsCancels, DecidesItems DEF CancelEffect, ClickCancel
<1> QED
  BY <1>2, <1>3, <1>4, <1>5, <1>6, DecidesItems DEF RunStep

LEMMA ContractStep ==
  ASSUME RunsInv, RunsInv', [Next]_vars
  PROVE  [Contract!Next]_Contract!vars
<1>1. ASSUME NEW r \in Runs, NEW q \in QueueIds, NEW b \in Batches, StartRun(r, b, q)
      PROVE  Contract!Next
  BY <1>1, SubmitsBatch DEF Contract!Next
<1>2. CASE \/ \E r \in Runs, q \in QueueIds : RefuseRun(r, q)
           \/ \E r \in Runs : PreparationThrows(r)
           \/ \E r \in Runs, i \in Positions : run[r].phase = "running" /\ ItemThrows(r, i)
  BY <1>2, ThrowingRunGivesUp DEF Contract!Next
<1>3. CASE \E r \in Runs : EndRun(r)
  BY <1>3, EndRunPublishes DEF Contract!Next
<1>4. CASE \/ \E r \in Runs : RunStep(r) /\ ~EndRun(r)
           \/ \E r \in Runs, i \in Positions : ItemStep(r, i) \/ ProviderAnswers(r, i)
           \/ \E r \in Runs, i \in Positions : run[r].phase # "running" /\ ItemThrows(r, i)
           \/ ClickCancel
  BY <1>4, WorkDecidesItems DEF Contract!Next
<1>5. CASE Dispose
  BY <1>5, UnloadsList DEF Contract!Next
<1>6. ASSUME SaveSettings \/ UNCHANGED vars
      PROVE  UNCHANGED Contract!vars
  <2>1. run' = run /\ item' = item /\ listed' = listed
    BY <1>6 DEF SaveSettings, vars
  <2> QED
    BY <2>1 DEF Contract!vars
<1>7. ASSUME NEW t \in Shared, OthersChange(t)
      PROVE  Contract!Next
  BY <1>7, SharedAreTargets DEF OthersChange, Contract!OthersChange, Contract!Next
<1> QED
  BY <1>1, <1>2, <1>3, <1>4, <1>5, <1>6, <1>7 DEF Next

(* The queue implements the contract of a batch: the outcome of an item is  *)
(* final, and the notes of exactly the staged items of a run are listed,    *)
(* together, when every item is decided, or none is.                        *)
THEOREM QueueKeepsContract == Spec => KeepsContract
<1>1. Init => RunsInv /\ StoreOk /\ Contract!Init
  <2>1. ASSUME Init
        PROVE  Contract!Init
    BY <2>1, NoRunIsRun, NoItemIsItem DEF Init, Contract!Init
  <2> QED
    BY <2>1, RunsInit
<1>2. RunsInv /\ StoreOk /\ [Next]_vars => (RunsInv /\ StoreOk)' /\ [Contract!Next]_Contract!vars
  BY RunsStep, StoreStep, ContractStep
<1> QED
  BY <1>1, <1>2, PTL DEF Spec, KeepsContract, Contract!Spec

=============================================================================

------------------------ MODULE IndexingRuntimeProofs ------------------------
(***************************************************************************)
(* Theorems about IndexingRuntime for any number of notes, readers,        *)
(* sessions and writes.                                                    *)
(***************************************************************************)
EXTENDS IndexingRuntime, TLAPS

(* The marker for "no index" is no set of notes.                            *)
LEMMA NoIndexIsNoSetOfNotes == \A notes \in SUBSET Notes : notes # NoIndex
BY NoneIsNoNote DEF NoIndex

(* A session that waits for nothing has a state of its type.                *)
LEMMA NoRefreshType == NoRefresh \in Refreshes /\ NoRefresh.pc = "idle"
BY DEF NoRefresh, Refreshes

-----------------------------------------------------------------------------
(* What the steps of several actions have in common *)

(* A reindex starts a build in the place, which was free, or turns the      *)
(* index off, or does nothing.                                              *)
LEMMA StartBuildType ==
  ASSUME TypeOK, NEW j \in Readers, StartBuild(j)
  PROVE  /\ reader' \in [Readers -> ReaderStates] /\ inFlight' \in Readers \cup {None}
         /\ report' \in Statuses /\ index' \in (SUBSET Notes) \cup {NoIndex}
         /\ \A i \in Readers \ {j} : reader'[i] = reader[i]
         /\ reader'[j].kind = "build" /\ reader'[j].notes = {} /\ ~reader'[j].aborted
<1> DEFINE new == [NoReader EXCEPT !.kind = "build", !.todo = Existing]
<1>1. /\ new \in ReaderStates
      /\ new.kind = "build" /\ new.notes = {} /\ new.aborted = FALSE
  BY DEF NoReader, ReaderStates, Existing
<1>2. reader' = [reader EXCEPT ![j] = new]
  BY DEF StartBuild
<1> HIDE DEF new
<1> QED
  BY <1>1, <1>2 DEF StartBuild, TypeOK, Statuses

(* What a session learns is of the type of its state.                       *)
LEMMA SettledType ==
  ASSUME TypeOK, NEW j \in Readers, NEW accepted \in BOOLEAN
  PROVE  /\ Settled(j, accepted) \in [Sessions -> Refreshes]
         /\ \A s \in Sessions :
              IF refresh[s].pc = "waiting" /\ refresh[s].job = j
              THEN /\ Settled(j, accepted)[s].pc = "done"
                   /\ Settled(j, accepted)[s].ok = accepted
              ELSE Settled(j, accepted)[s] = refresh[s]
<1> DEFINE told == [NoRefresh EXCEPT !.pc = "done", !.ok = accepted]
<1>1. \A r \in Refreshes :
        LET q == [r EXCEPT !.pc = "done", !.ok = accepted]
        IN  q \in Refreshes /\ q.pc = "done" /\ q.ok = accepted
  BY DEF Refreshes
<1>2. told \in Refreshes /\ told.pc = "done" /\ told.ok = accepted
  BY <1>1, NoRefreshType
<1>3. Settled(j, accepted) = [s \in Sessions |->
        IF refresh[s].pc = "waiting" /\ refresh[s].job = j THEN told ELSE refresh[s]]
  BY DEF Settled
<1> HIDE DEF told
<1> QED
  BY <1>2, <1>3 DEF TypeOK

LEMMA EndBuildType ==
  ASSUME TypeOK, NEW j \in Readers, NEW accepted \in BOOLEAN, EndBuild(j, accepted),
         report' \in Statuses, index' \in (SUBSET Notes) \cup {NoIndex}
  PROVE  TypeOK'
<1>1. NoReader \in ReaderStates
  BY DEF NoReader, ReaderStates
<1>2. refresh' \in [Sessions -> Refreshes]
  BY SettledType DEF EndBuild
<1> QED
  BY <1>1, <1>2 DEF EndBuild, GiveUpPlace, TypeOK

-----------------------------------------------------------------------------
(* Types *)

LEMMA TypeInit == Init => TypeOK
<1>1. NoReader \in ReaderStates
  BY DEF NoReader, ReaderStates
<1> SUFFICES ASSUME Init
             PROVE  TypeOK
  OBVIOUS
<1>2. vault \in Vaults /\ writes \in Nat /\ enabled \in BOOLEAN /\ disposed \in BOOLEAN
  BY InitialVaultsAreVaults DEF Init
<1>3. index \in (SUBSET Notes) \cup {NoIndex} /\ report \in Statuses
  BY DEF Init, Statuses
<1> QED
  BY <1>1, <1>2, <1>3, NoRefreshType DEF Init, TypeOK

LEMMA TypeUser ==
  ASSUME TypeOK, (\E p \in Paths : Edit(p)) \/ SaveSettings
  PROVE  TypeOK'
<1>1. CASE SaveSettings
  BY <1>1 DEF SaveSettings, TypeOK
<1>2. ASSUME NEW p \in Paths, Edit(p)
      PROVE  TypeOK'
  <2>1. writes + 1 \in Nat /\ Absent \in Nat \cup {Absent}
    BY DEF TypeOK
  <2>2. vault' \in Vaults
    BY <1>2, <2>1 DEF Edit, TypeOK, Vaults
  <2> QED
    BY <1>2, <2>1, <2>2 DEF Edit, TypeOK
<1> QED
  BY <1>1, <1>2

LEMMA TypeReindex ==
  ASSUME TypeOK, ReindexLexical
  PROVE  TypeOK'
<1>1. CASE TurnOff
  BY <1>1 DEF TurnOff, ReindexLexical, TypeOK, Statuses
<1>2. CASE AlreadyRunning
  BY <1>2 DEF AlreadyRunning, ReindexLexical, TypeOK
<1>3. ASSUME NEW j \in Readers, StartBuild(j)
      PROVE  TypeOK'
  BY <1>3, StartBuildType DEF ReindexLexical, TypeOK
<1> QED
  BY <1>1, <1>2, <1>3 DEF ReindexLexical

LEMMA TypeCancelDispose ==
  ASSUME TypeOK, CancelLexical \/ Dispose
  PROVE  TypeOK'
<1>1. \A j \in Readers : Abort(j) \in [Readers -> ReaderStates]
  BY DEF Abort, TypeOK, ReaderStates
<1>2. CASE CancelLexical
  BY <1>1, <1>2 DEF CancelLexical, Abort, TypeOK, Statuses
<1>3. CASE Dispose
  BY <1>1, <1>3 DEF Dispose, TypeOK
<1> QED
  BY <1>2, <1>3

LEMMA TypeReader ==
  ASSUME TypeOK, NEW j \in Readers, ReaderStep(j) \/ StartCheck(j)
  PROVE  TypeOK'
<1>1. ASSUME NEW p \in Paths, ReadNote(j, p)
      PROVE  TypeOK'
  <2>1. [path |-> p, version |-> vault[p]] \in Notes
    BY <1>1 DEF ReadNote, Existing, TypeOK, Vaults, Notes
  <2> QED
    BY <1>1, <2>1 DEF ReadNote, TypeOK, ReaderStates
<1>2. ASSUME NEW p \in Paths, SkipNote(j, p)
      PROVE  TypeOK'
  BY <1>2 DEF SkipNote, TypeOK, ReaderStates
<1>3. CASE Publish(j)
  <2>1. reader[j].notes \in SUBSET Notes
    BY DEF TypeOK, ReaderStates
  <2> QED
    BY <1>3, <2>1, EndBuildType DEF Publish, Statuses
<1>4. CASE NoticeCancel(j)
  BY <1>4, EndBuildType DEF NoticeCancel, Statuses
<1>5. CASE Fail(j)
  BY <1>5, EndBuildType DEF Fail, Statuses
<1>6. CASE EndCheck(j)
  BY <1>6 DEF EndCheck, Freshness, TypeOK, NoReader, ReaderStates, Statuses
<1>7. CASE StartCheck(j)
  <2>1. [NoReader EXCEPT !.kind = "check", !.todo = Existing] \in ReaderStates
    BY DEF NoReader, ReaderStates, Existing
  <2> QED
    BY <1>7, <2>1 DEF StartCheck, TypeOK
<1> QED
  BY <1>1, <1>2, <1>3, <1>4, <1>5, <1>6, <1>7 DEF ReaderStep

LEMMA TypeRequestRefresh ==
  ASSUME TypeOK, NEW s \in Sessions, RequestRefresh(s)
  PROVE  TypeOK'
<1>1. [NoRefresh EXCEPT !.pc = "done"] \in Refreshes
  BY NoRefreshType DEF Refreshes
<1>2. CASE ~disposed /\ (TurnOff \/ AlreadyRunning) /\ GiveUpRefresh(s)
  BY <1>1, <1>2
  DEF RequestRefresh, GiveUpRefresh, TurnOff, AlreadyRunning, TypeOK, Statuses
<1>3. ASSUME NEW j \in Readers, StartBuild(j), WaitFor(s, j)
      PROVE  TypeOK'
  <2>1. [refresh[s] EXCEPT !.pc = "waiting", !.job = j] \in Refreshes
    BY DEF TypeOK, Refreshes
  <2>2. refresh' \in [Sessions -> Refreshes]
    BY <1>3, <2>1 DEF WaitFor, TypeOK
  <2> QED
    BY <1>3, <2>2, StartBuildType DEF RequestRefresh, TypeOK
<1>4. CASE disposed /\ GiveUpRefresh(s) /\ UNCHANGED <<index, report, reader, inFlight>>
  BY <1>1, <1>4 DEF RequestRefresh, GiveUpRefresh, TypeOK
<1> QED
  BY <1>2, <1>3, <1>4 DEF RequestRefresh

LEMMA TypeSession ==
  ASSUME TypeOK, NEW s \in Sessions,
         SessionStep(s) \/ \E ps \in (SUBSET Paths) \ {{}} : ApplyChanges(s, ps)
  PROVE  TypeOK'
<1>1. CASE RequestRefresh(s)
  BY <1>1, TypeRequestRefresh
<1>2. CASE RefreshTimesOut(s)
  <2>1. \A r \in Refreshes : [r EXCEPT !.pc = "done"] \in Refreshes
    BY DEF Refreshes
  <2>4. \A r \in Refreshes, a \in 1 .. 2, j \in Readers \cup {None} :
          [r EXCEPT !.pc = "asking", !.attempt = a, !.job = j] \in Refreshes
    BY DEF Refreshes
  <2>5. 2 \in 1 .. 2 /\ None \in Readers \cup {None}
    OBVIOUS
  <2>2. refresh[s] \in Refreshes
    BY DEF TypeOK
  <2>3. refresh' \in [Sessions -> Refreshes]
    BY <1>2, <2>1, <2>2, <2>4, <2>5, NoRefreshType DEF RefreshTimesOut, TypeOK
  <2> QED
    BY <1>2, <2>3 DEF RefreshTimesOut, TypeOK
<1>3. ASSUME NEW ps \in SUBSET Paths, ApplyChanges(s, ps)
      PROVE  TypeOK'
  <2>0. writes + 1 \in Nat
    BY DEF TypeOK
  <2>1. writes' \in Nat /\ writes + 1 \in Nat
    BY <1>3, <2>0 DEF ApplyChanges
  <2>2. vault' \in Vaults
    BY <1>3, <2>1 DEF ApplyChanges, TypeOK, Vaults
  <2> DEFINE applied == {[path |-> p, version |-> writes + 1] : p \in ps}
  <2>3. applied \in SUBSET Notes
    BY <2>1 DEF Notes
  <2>4. \A r \in Refreshes, a \in SUBSET Notes :
          [r EXCEPT !.pc = "asking", !.applied = a] \in Refreshes
    BY DEF Refreshes
  <2>5. [NoRefresh EXCEPT !.pc = "asking", !.applied = applied] \in Refreshes
    BY <2>3, <2>4, NoRefreshType
  <2>6. refresh' \in [Sessions -> Refreshes]
    BY <1>3, <2>5 DEF ApplyChanges, TypeOK
  <2> QED
    BY <1>3, <2>1, <2>2, <2>6 DEF ApplyChanges, TypeOK
<1> QED
  BY <1>1, <1>2, <1>3 DEF SessionStep

LEMMA TypeNext ==
  ASSUME TypeOK, [Next]_vars
  PROVE  TypeOK'
<1>1. CASE UNCHANGED vars
  BY <1>1 DEF vars, TypeOK
<1>2. CASE Next
  BY <1>2, TypeUser, TypeReindex, TypeCancelDispose, TypeReader, TypeSession
  DEF Next, RetryLexical
<1> QED
  BY <1>1, <1>2

(* The report, the place of the build, the readers and the waiting sessions *)
(* stay in the states the service has for them.                             *)
THEOREM TypeCorrect == Spec => []TypeOK
<1>1. TypeOK /\ [Next]_vars => TypeOK'
  BY TypeNext
<1> QED
  BY <1>1, TypeInit, PTL DEF Spec

-----------------------------------------------------------------------------
(* The inductive invariant: the place, the report and the index             *)

(* A step that leaves alone what the invariant speaks of, or only lets the  *)
(* readers go on, preserves it.                                             *)
LEMMA PlaceInvKept ==
  ASSUME TypeOK, PlaceInv, UNCHANGED <<disposed, index, report, inFlight>>,
         \A j \in Readers : /\ Building(j)' <=> Building(j)
                            /\ Building(j) => reader'[j].aborted = reader[j].aborted
  PROVE  PlaceInv'
<1>1. PlaceIsBuild'
  BY DEF PlaceInv, PlaceIsBuild, TypeOK
<1>2. BuildHoldsPlace' /\ CancelReaches'
  BY DEF PlaceInv, BuildHoldsPlace, CancelReaches
<1>3. ReadyHasIndex' /\ BuildWillSettle'
  BY DEF PlaceInv, ReadyHasIndex, BuildWillSettle
<1> QED
  BY <1>1, <1>2, <1>3 DEF PlaceInv

LEMMA PlaceInvStartBuild ==
  ASSUME TypeOK, PlaceInv, UNCHANGED disposed, NEW j \in Readers, StartBuild(j)
  PROVE  PlaceInv'
<1>1. /\ \A i \in Readers \ {j} : reader'[i] = reader[i]
      /\ reader'[j].kind = "build" /\ inFlight' = j
      /\ inFlight = None /\ report' = "building"
  BY StartBuildType DEF StartBuild
<1>2. \A i \in Readers \ {j} : Building(i)' => disposed /\ reader'[i].aborted
  BY <1>1, NoneIsNoReader DEF PlaceInv, BuildHoldsPlace, Building
<1>3. PlaceIsBuild' /\ BuildHoldsPlace'
  BY <1>1, <1>2 DEF PlaceIsBuild, BuildHoldsPlace, Building
<1>4. ReadyHasIndex' /\ BuildWillSettle' /\ CancelReaches'
  BY <1>1 DEF ReadyHasIndex, BuildWillSettle, CancelReaches, Building
<1> QED
  BY <1>3, <1>4 DEF PlaceInv

LEMMA PlaceInvTurnOff ==
  ASSUME TypeOK, PlaceInv, UNCHANGED disposed, TurnOff
  PROVE  PlaceInv'
<1>1. PlaceIsBuild' /\ BuildHoldsPlace'
  BY DEF TurnOff, PlaceInv, PlaceIsBuild, BuildHoldsPlace, Building
<1>2. ReadyHasIndex' /\ BuildWillSettle' /\ CancelReaches'
  BY DEF TurnOff, ReadyHasIndex, BuildWillSettle, CancelReaches
<1> QED
  BY <1>1, <1>2 DEF PlaceInv

(* The end of a build, published or not: the place is free if it was the    *)
(* build's own, and report and index agree.                                 *)
LEMMA PlaceInvEndBuild ==
  ASSUME TypeOK, PlaceInv, NEW j \in Readers, NEW accepted, EndBuild(j, accepted), Building(j),
         report' \in {"ready", "stale"} <=> index' \notin {NoIndex, {}},
         ~disposed /\ report' = "canceled" => inFlight = j
  PROVE  PlaceInv'
<1>1. /\ \A i \in Readers \ {j} : reader'[i] = reader[i]
      /\ reader'[j].kind = "idle" /\ disposed' = disposed
      /\ inFlight' = IF inFlight = j THEN None ELSE inFlight
  BY DEF EndBuild, GiveUpPlace, TypeOK, NoReader
<1>2. PlaceIsBuild'
  BY <1>1 DEF PlaceInv, PlaceIsBuild, Building, TypeOK
<1>3. BuildHoldsPlace'
  BY <1>1, NoneIsNoReader DEF PlaceInv, BuildHoldsPlace, Building
<1>4. ReadyHasIndex' /\ BuildWillSettle'
  BY DEF ReadyHasIndex, BuildWillSettle
<1>5. CancelReaches'
  BY <1>1 DEF PlaceInv, BuildHoldsPlace, CancelReaches, Building
<1> QED
  BY <1>2, <1>3, <1>4, <1>5 DEF PlaceInv

LEMMA PlaceInvReader ==
  ASSUME TypeOK, PlaceInv, NEW j \in Readers, ReaderStep(j) \/ StartCheck(j)
  PROVE  PlaceInv'
<1>1. ASSUME NEW p \in Paths, ReadNote(j, p) \/ SkipNote(j, p)
      PROVE  PlaceInv'
  <2>1. \A i \in Readers : reader'[i].kind = reader[i].kind /\ reader'[i].aborted = reader[i].aborted
    BY <1>1 DEF ReadNote, SkipNote, TypeOK, ReaderStates
  <2> QED
    BY <1>1, <2>1, PlaceInvKept DEF ReadNote, SkipNote, Building
<1>2. CASE Publish(j)
  <2>1. reader[j].notes # NoIndex
    BY NoIndexIsNoSetOfNotes DEF TypeOK, ReaderStates
  <2>2. NoIndex # {}
    BY DEF NoIndex
  <2> QED
    BY <1>2, <2>1, <2>2, PlaceInvEndBuild DEF Publish
<1>3. CASE NoticeCancel(j)
  <2>1. ~disposed => inFlight = j
    BY <1>3 DEF NoticeCancel, PlaceInv, BuildHoldsPlace
  <2> QED
    BY <1>3, <2>1, PlaceInvEndBuild DEF NoticeCancel
<1>4. CASE Fail(j)
  BY <1>4, PlaceInvEndBuild DEF Fail
<1>5. CASE EndCheck(j)
  <2>1. \A i \in Readers : /\ Building(i)' <=> Building(i)
                           /\ Building(i) => reader'[i] = reader[i]
    BY <1>5 DEF EndCheck, Building, NoReader, TypeOK
  <2>2. PlaceIsBuild' /\ BuildHoldsPlace'
    BY <1>5, <2>1 DEF EndCheck, PlaceInv, PlaceIsBuild, BuildHoldsPlace, TypeOK
  <2>3. ReadyHasIndex' /\ BuildWillSettle'
    BY <1>5, <2>1 DEF EndCheck, Freshness, PlaceInv, ReadyHasIndex, BuildWillSettle
  <2>4. CancelReaches'
    BY <1>5, <2>1 DEF EndCheck, Freshness, PlaceInv, CancelReaches
  <2> QED
    BY <2>2, <2>3, <2>4 DEF PlaceInv
<1>6. CASE StartCheck(j)
  <2>1. \A i \in Readers : /\ Building(i)' <=> Building(i)
                           /\ Building(i) => reader'[i] = reader[i]
    BY <1>6 DEF StartCheck, Building, Reading, NoReader, TypeOK
  <2> QED
    BY <1>6, <2>1, PlaceInvKept DEF StartCheck
<1> QED
  BY <1>1, <1>2, <1>3, <1>4, <1>5, <1>6 DEF ReaderStep

LEMMA PlaceInvReindex ==
  ASSUME TypeOK, PlaceInv, UNCHANGED disposed,
         TurnOff \/ AlreadyRunning \/ \E j \in Readers : StartBuild(j)
  PROVE  PlaceInv'
<1>1. CASE AlreadyRunning
  BY <1>1, PlaceInvKept DEF AlreadyRunning, Building
<1> QED
  BY <1>1, PlaceInvTurnOff, PlaceInvStartBuild

LEMMA PlaceInvCancelDispose ==
  ASSUME TypeOK, PlaceInv, CancelLexical \/ Dispose
  PROVE  PlaceInv'
<1>1. CASE CancelLexical
  <2>1. inFlight \in Readers /\ Building(inFlight)
    BY <1>1 DEF CancelLexical, PlaceInv, PlaceIsBuild, TypeOK
  <2>2. \A i \in Readers : /\ reader'[i].kind = reader[i].kind
                           /\ reader[i].aborted \/ i = inFlight => reader'[i].aborted
    BY <1>1, <2>1 DEF CancelLexical, TypeOK, ReaderStates
  <2>3. PlaceIsBuild' /\ BuildHoldsPlace' /\ CancelReaches'
    BY <1>1, <2>1, <2>2
    DEF CancelLexical, PlaceInv, PlaceIsBuild, BuildHoldsPlace, CancelReaches, Building
  <2>4. ReadyHasIndex' /\ BuildWillSettle'
    BY <1>1, <2>1, <2>2 DEF CancelLexical, ReadyHasIndex, BuildWillSettle, Building
  <2> QED
    BY <2>3, <2>4 DEF PlaceInv
<1>2. CASE Dispose
  <2>1. \A i \in Readers : /\ reader'[i].kind = reader[i].kind
                           /\ reader[i].aborted \/ i = inFlight => reader'[i].aborted
    BY <1>2, NoneIsNoReader DEF Dispose, Abort, TypeOK, ReaderStates
  <2>2. PlaceIsBuild' /\ BuildHoldsPlace' /\ CancelReaches'
    BY <1>2, <2>1
    DEF Dispose, PlaceInv, PlaceIsBuild, BuildHoldsPlace, CancelReaches, Building
  <2>3. ReadyHasIndex' /\ BuildWillSettle'
    BY <1>2, <2>1 DEF Dispose, PlaceInv, ReadyHasIndex, BuildWillSettle, Building
  <2> QED
    BY <2>2, <2>3 DEF PlaceInv
<1> QED
  BY <1>1, <1>2

LEMMA PlaceInvNext ==
  ASSUME TypeOK, PlaceInv, [Next]_vars
  PROVE  PlaceInv'
<1>1. CASE UNCHANGED vars
  BY <1>1, PlaceInvKept DEF vars, Building
<1>2. CASE (\E p \in Paths : Edit(p)) \/ SaveSettings
  BY <1>2, PlaceInvKept DEF Edit, SaveSettings, Building
<1>3. CASE ReindexLexical \/ RetryLexical
  BY <1>3, PlaceInvReindex DEF ReindexLexical, RetryLexical
<1>4. CASE CancelLexical \/ Dispose
  BY <1>4, PlaceInvCancelDispose
<1>5. ASSUME NEW j \in Readers, ReaderStep(j) \/ StartCheck(j)
      PROVE  PlaceInv'
  BY <1>5, PlaceInvReader
<1>6. ASSUME NEW s \in Sessions, RequestRefresh(s)
      PROVE  PlaceInv'
  <2>1. CASE disposed /\ UNCHANGED <<index, report, reader, inFlight>>
    BY <1>6, <2>1, PlaceInvKept DEF RequestRefresh, Building
  <2> QED
    BY <1>6, <2>1, PlaceInvReindex DEF RequestRefresh
<1>7. ASSUME NEW s \in Sessions,
             RefreshTimesOut(s) \/ \E ps \in (SUBSET Paths) \ {{}} : ApplyChanges(s, ps)
      PROVE  PlaceInv'
  BY <1>7, PlaceInvKept DEF RefreshTimesOut, ApplyChanges, Building
<1> QED
  BY <1>1, <1>2, <1>3, <1>4, <1>5, <1>6, <1>7 DEF Next, SessionStep

-----------------------------------------------------------------------------
(* The inductive invariant: what a waiting session will find               *)

(* A step in which the vault and the session's own state stay, and the      *)
(* build it waits for goes on without reading.                              *)
LEMMA ReadsNewKept ==
  ASSUME TypeOK, NEW s \in Sessions, ReadsNew(s), UNCHANGED <<vault, writes>>,
         refresh'[s] = refresh[s],
         refresh[s].pc = "waiting" =>
            \A j \in Readers : j = refresh[s].job => /\ reader'[j].kind = reader[j].kind
                                                    /\ reader'[j].notes = reader[j].notes
  PROVE  ReadsNew(s)'
<1>1. refresh[s].pc = "waiting" => refresh[s].job \in Readers
  BY DEF ReadsNew, TypeOK, Refreshes
<1> QED
  BY <1>1 DEF ReadsNew, Building

(* A session that is done waits for nothing.                                *)
LEMMA DoneReadsNew ==
  ASSUME NEW s \in Sessions, refresh'[s].pc = "done"
  PROVE  ReadsNew(s)'
BY DEF ReadsNew

(* A note that is written gets a version above all those applied before.    *)
LEMMA ReadsNewAfterWrite ==
  ASSUME TypeOK, NEW s \in Sessions, ReadsNew(s), refresh'[s] = refresh[s],
         reader' = reader, writes' = writes + 1,
         \A p \in Paths : vault'[p] \in {vault[p], Absent, writes + 1}
  PROVE  ReadsNew(s)'
<1>1. CASE refresh[s].pc \in {"asking", "waiting"}
  <2>1. ASSUME NEW a \in refresh[s].applied
        PROVE  a.version <= writes' /\ vault'[a.path] \in {Absent} \cup (a.version .. writes')
    <3>1. a.path \in Paths /\ a.version \in Nat /\ writes \in Nat
      BY DEF TypeOK, Refreshes, Notes
    <3>2. a.version <= writes /\ vault[a.path] \in {Absent} \cup (a.version .. writes)
      BY <1>1 DEF ReadsNew
    <3> QED
      BY <3>1, <3>2
  <2> QED
    BY <2>1 DEF ReadsNew, Building
<1>2. CASE refresh[s].pc \notin {"asking", "waiting"}
  BY <1>2 DEF ReadsNew
<1> QED
  BY <1>1, <1>2

LEMMA ReadsNewReadNote ==
  ASSUME TypeOK, NEW s \in Sessions, ReadsNew(s),
         NEW j \in Readers, NEW p \in Paths, ReadNote(j, p)
  PROVE  ReadsNew(s)'
<1>1. /\ \A i \in Readers \ {j} : reader'[i] = reader[i]
      /\ reader'[j].kind = reader[j].kind
      /\ reader'[j].notes = reader[j].notes \cup {[path |-> p, version |-> vault[p]]}
  BY DEF ReadNote, TypeOK, ReaderStates
<1>2. CASE refresh[s].pc = "waiting" /\ refresh[s].job = j
  <2>1. ASSUME NEW a \in refresh[s].applied, NEW n \in reader'[j].notes, n.path = a.path
        PROVE  n.version >= a.version
    <3>1. CASE n \in reader[j].notes
      BY <1>2, <2>1, <3>1 DEF ReadsNew
    <3>2. CASE n = [path |-> p, version |-> vault[p]]
      <4>1. vault[p] \in {Absent} \cup (a.version .. writes)
        BY <1>2, <2>1, <3>2 DEF ReadsNew
      <4>2. vault[p] # Absent
        BY DEF ReadNote, Existing
      <4>3. a.version \in Nat /\ writes \in Nat
        BY DEF TypeOK, Refreshes, Notes
      <4> QED
        BY <3>2, <4>1, <4>2, <4>3
    <3> QED
      BY <1>1, <3>1, <3>2
  <2> QED
    BY <1>1, <1>2, <2>1 DEF ReadNote, ReadsNew, Building
<1>3. CASE ~(refresh[s].pc = "waiting" /\ refresh[s].job = j)
  BY <1>1, <1>3, ReadsNewKept DEF ReadNote
<1> QED
  BY <1>2, <1>3

(* A build that ends takes the sessions that wait for it with it.           *)
LEMMA ReadsNewEndBuild ==
  ASSUME TypeOK, NEW s \in Sessions, ReadsNew(s),
         NEW j \in Readers, NEW accepted \in BOOLEAN, EndBuild(j, accepted),
         UNCHANGED <<vault, writes>>
  PROVE  ReadsNew(s)'
<1>1. \A i \in Readers \ {j} : reader'[i] = reader[i]
  BY DEF EndBuild, TypeOK
<1>2. CASE refresh[s].pc = "waiting" /\ refresh[s].job = j
  BY <1>2, SettledType, DoneReadsNew DEF EndBuild
<1>3. CASE ~(refresh[s].pc = "waiting" /\ refresh[s].job = j)
  <2>1. refresh'[s] = refresh[s]
    BY <1>3, SettledType DEF EndBuild
  <2> QED
    BY <1>1, <1>3, <2>1, ReadsNewKept
<1> QED
  BY <1>2, <1>3

(* Nobody waits for a reader that is not building, so it may be taken.      *)
LEMMA ReadsNewTakeReader ==
  ASSUME TypeOK, NEW s \in Sessions, ReadsNew(s), UNCHANGED <<vault, writes>>,
         refresh'[s] = refresh[s], NEW j \in Readers, ~Building(j),
         \A i \in Readers \ {j} : reader'[i] = reader[i]
  PROVE  ReadsNew(s)'
<1>1. refresh[s].pc = "waiting" => refresh[s].job # j
  BY DEF ReadsNew
<1> QED
  BY <1>1, ReadsNewKept

LEMMA ReadsNewReader ==
  ASSUME TypeOK, NEW s \in Sessions, ReadsNew(s),
         NEW j \in Readers, ReaderStep(j) \/ StartCheck(j)
  PROVE  ReadsNew(s)'
<1>1. ASSUME NEW p \in Paths, ReadNote(j, p)
      PROVE  ReadsNew(s)'
  BY <1>1, ReadsNewReadNote
<1>2. ASSUME NEW p \in Paths, SkipNote(j, p)
      PROVE  ReadsNew(s)'
  <2>1. \A i \in Readers : reader'[i].kind = reader[i].kind /\ reader'[i].notes = reader[i].notes
    BY <1>2 DEF SkipNote, TypeOK, ReaderStates
  <2> QED
    BY <1>2, <2>1, ReadsNewKept DEF SkipNote
<1>3. CASE Publish(j)
  BY <1>3, ReadsNewEndBuild DEF Publish, EndBuild
<1>4. CASE NoticeCancel(j)
  BY <1>4, ReadsNewEndBuild DEF NoticeCancel, EndBuild
<1>5. CASE Fail(j)
  BY <1>5, ReadsNewEndBuild DEF Fail, EndBuild
<1>6. CASE EndCheck(j)
  <2>1. \A i \in Readers \ {j} : reader'[i] = reader[i]
    BY <1>6 DEF EndCheck, TypeOK
  <2> QED
    BY <1>6, <2>1, ReadsNewTakeReader DEF EndCheck, Building
<1>7. CASE StartCheck(j)
  <2>1. \A i \in Readers \ {j} : reader'[i] = reader[i]
    BY <1>7 DEF StartCheck, TypeOK
  <2> QED
    BY <1>7, <2>1, ReadsNewTakeReader DEF StartCheck, Building, Reading
<1> QED
  BY <1>1, <1>2, <1>3, <1>4, <1>5, <1>6, <1>7 DEF ReaderStep

LEMMA ReadsNewStartBuild ==
  ASSUME TypeOK, NEW s \in Sessions, ReadsNew(s), UNCHANGED <<vault, writes>>,
         refresh'[s] = refresh[s], NEW j \in Readers, StartBuild(j)
  PROVE  ReadsNew(s)'
BY StartBuildType, ReadsNewTakeReader DEF StartBuild, Building, Reading

LEMMA ReadsNewReindex ==
  ASSUME TypeOK, NEW s \in Sessions, ReadsNew(s), UNCHANGED <<vault, writes>>,
         refresh'[s] = refresh[s],
         TurnOff \/ AlreadyRunning \/ \E j \in Readers : StartBuild(j)
  PROVE  ReadsNew(s)'
BY ReadsNewStartBuild, ReadsNewKept DEF TurnOff, AlreadyRunning

LEMMA ReadsNewCancelDispose ==
  ASSUME TypeOK, NEW s \in Sessions, ReadsNew(s), CancelLexical \/ Dispose
  PROVE  ReadsNew(s)'
<1>1. \A i \in Readers : reader'[i].kind = reader[i].kind /\ reader'[i].notes = reader[i].notes
  BY DEF CancelLexical, Dispose, Abort, TypeOK, ReaderStates
<1> QED
  BY <1>1, ReadsNewKept DEF CancelLexical, Dispose

(* The session s asks for a refresh; for another one nothing changes but    *)
(* that a build may have been started.                                      *)
LEMMA ReadsNewRequest ==
  ASSUME TypeOK, NEW s \in Sessions, ReadsNew(s), NEW o \in Sessions, RequestRefresh(o)
  PROVE  ReadsNew(s)'
<1>1. CASE s # o
  <2>1. refresh'[s] = refresh[s] /\ UNCHANGED <<vault, writes>>
    BY <1>1 DEF RequestRefresh, GiveUpRefresh, WaitFor, TypeOK
  <2>2. CASE UNCHANGED <<index, report, reader, inFlight>>
    BY <2>1, <2>2, ReadsNewKept
  <2> QED
    BY <2>1, <2>2, ReadsNewReindex DEF RequestRefresh
<1>2. CASE s = o /\ GiveUpRefresh(o)
  <2>1. refresh'[s].pc = "done"
    BY <1>2 DEF GiveUpRefresh, NoRefresh, TypeOK
  <2> QED
    BY <2>1, DoneReadsNew
<1>3. ASSUME s = o, NEW j \in Readers, StartBuild(j), WaitFor(o, j)
      PROVE  ReadsNew(s)'
  <2>1. /\ refresh'[s].pc = "waiting" /\ refresh'[s].job = j
        /\ refresh'[s].applied = refresh[s].applied
    BY <1>3 DEF WaitFor, TypeOK, Refreshes
  <2>2. reader'[j].kind = "build" /\ reader'[j].notes = {} /\ j # None
    BY <1>3, StartBuildType, NoneIsNoReader
  <2> QED
    BY <1>3, <2>1, <2>2 DEF RequestRefresh, ReadsNew, Building
<1> QED
  BY <1>1, <1>2, <1>3 DEF RequestRefresh

LEMMA ReadsNewTimeout ==
  ASSUME TypeOK, NEW s \in Sessions, ReadsNew(s), NEW o \in Sessions, RefreshTimesOut(o)
  PROVE  ReadsNew(s)'
<1>1. CASE s # o
  <2>1. refresh'[s] = refresh[s]
    BY <1>1 DEF RefreshTimesOut, TypeOK
  <2> QED
    BY <2>1, ReadsNewKept DEF RefreshTimesOut
<1>2. CASE s = o /\ refresh[s].attempt = 1
  <2>1. refresh'[s].pc = "asking" /\ refresh'[s].applied = refresh[s].applied
    BY <1>2 DEF RefreshTimesOut, TypeOK, Refreshes
  <2> QED
    BY <1>2, <2>1 DEF RefreshTimesOut, ReadsNew
<1>3. CASE s = o /\ refresh[s].attempt # 1
  <2>1. refresh'[s].pc = "done"
    BY <1>3 DEF RefreshTimesOut, NoRefresh, TypeOK
  <2> QED
    BY <2>1, DoneReadsNew
<1> QED
  BY <1>1, <1>2, <1>3

(* What a session has just written is in the vault with its own version.    *)
LEMMA ReadsNewApply ==
  ASSUME TypeOK, NEW s \in Sessions, ReadsNew(s),
         NEW o \in Sessions, NEW ps \in SUBSET Paths, ApplyChanges(o, ps)
  PROVE  ReadsNew(s)'
<1>1. \A p \in Paths : vault'[p] = IF p \in ps THEN writes + 1 ELSE vault[p]
  BY DEF ApplyChanges
<1>2. CASE s # o
  <2>1. refresh'[s] = refresh[s]
    BY <1>2 DEF ApplyChanges, TypeOK
  <2> QED
    BY <1>1, <2>1, ReadsNewAfterWrite DEF ApplyChanges
<1>3. CASE s = o
  <2> DEFINE written == {[path |-> p, version |-> writes + 1] : p \in ps}
  <2>1. \A a \in SUBSET Notes :
          LET q == [NoRefresh EXCEPT !.pc = "asking", !.applied = a]
          IN  q.pc = "asking" /\ q.applied = a
    BY DEF NoRefresh
  <2>2. writes \in Nat /\ written \in SUBSET Notes
    BY DEF TypeOK, Notes
  <2>3. refresh'[s].pc = "asking" /\ refresh'[s].applied = written
    BY <1>3, <2>1, <2>2 DEF ApplyChanges, TypeOK
  <2>4. \A a \in written : a.path \in ps /\ a.version = writes + 1
    OBVIOUS
  <2> HIDE DEF written
  <2>5. writes' = writes + 1
    BY DEF ApplyChanges
  <2>6. \A a \in written : a.version <= writes' /\ vault'[a.path] \in {Absent} \cup (a.version .. writes')
    BY <1>1, <2>2, <2>4, <2>5
  <2> QED
    BY <2>3, <2>6 DEF ReadsNew
<1> QED
  BY <1>2, <1>3

LEMMA ReadsNewNext ==
  ASSUME TypeOK, SessionsReadNew, [Next]_vars
  PROVE  SessionsReadNew'
<1> SUFFICES ASSUME NEW s \in Sessions
             PROVE  ReadsNew(s)'
  BY DEF SessionsReadNew
<1>0. ReadsNew(s)
  BY DEF SessionsReadNew
<1>1. CASE UNCHANGED vars
  BY <1>0, <1>1, ReadsNewKept DEF vars
<1>2. ASSUME NEW p \in Paths, Edit(p)
      PROVE  ReadsNew(s)'
  <2>1. \A q \in Paths : vault'[q] \in {vault[q], Absent, writes + 1}
    BY <1>2 DEF Edit, TypeOK, Vaults
  <2> QED
    BY <1>0, <1>2, <2>1, ReadsNewAfterWrite DEF Edit
<1>3. CASE SaveSettings
  BY <1>0, <1>3, ReadsNewKept DEF SaveSettings
<1>4. CASE ReindexLexical \/ RetryLexical
  BY <1>0, <1>4, ReadsNewReindex DEF ReindexLexical, RetryLexical
<1>5. CASE CancelLexical \/ Dispose
  BY <1>0, <1>5, ReadsNewCancelDispose
<1>6. ASSUME NEW j \in Readers, ReaderStep(j) \/ StartCheck(j)
      PROVE  ReadsNew(s)'
  BY <1>0, <1>6, ReadsNewReader
<1>7. ASSUME NEW o \in Sessions, SessionStep(o)
      PROVE  ReadsNew(s)'
  BY <1>0, <1>7, ReadsNewRequest, ReadsNewTimeout DEF SessionStep
<1>8. ASSUME NEW o \in Sessions, NEW ps \in SUBSET Paths, ApplyChanges(o, ps)
      PROVE  ReadsNew(s)'
  BY <1>0, <1>8, ReadsNewApply
<1> QED
  BY <1>1, <1>2, <1>3, <1>4, <1>5, <1>6, <1>7, <1>8 DEF Next

-----------------------------------------------------------------------------
(* The theorems *)

LEMMA IndexInvInit == Init => IndexInv
<1> SUFFICES ASSUME Init
             PROVE  IndexInv
  OBVIOUS
<1>1. \A j \in Readers : ~Building(j)
  BY DEF Init, Building, NoReader
<1>2. PlaceInv
  BY <1>1
  DEF Init, PlaceInv, PlaceIsBuild, BuildHoldsPlace, ReadyHasIndex, BuildWillSettle,
      CancelReaches
<1>3. SessionsReadNew
  BY NoRefreshType DEF Init, SessionsReadNew, ReadsNew
<1> QED
  BY <1>2, <1>3, TypeInit DEF IndexInv

(* The invariant that the theorems below follow from.                       *)
THEOREM IndexInvariant == Spec => []IndexInv
<1>1. IndexInv /\ [Next]_vars => IndexInv'
  BY TypeNext, PlaceInvNext, ReadsNewNext DEF IndexInv
<1> QED
  BY <1>1, IndexInvInit, PTL DEF Spec

(* At most one build that was not aborted runs: the finally block of        *)
(* reindexLexical frees the place only for its own job, and an unload       *)
(* aborts the build that it takes the place from.                           *)
THEOREM BuildsDoNotOverlap == Spec => []OneBuild
<1>1. IndexInv => OneBuild
  BY DEF IndexInv, PlaceInv, BuildHoldsPlace, OneBuild
<1> QED
  BY <1>1, IndexInvariant, PTL

(* The report never says ready without an index, and agrees with the index  *)
(* once nothing reads, for any number of builds, checks and unloads.        *)
THEOREM ReportTellsTheIndex == Spec => []ReportAgrees
<1>1. ASSUME IndexInv
      PROVE  ReportAgrees
  <2>1. (\A j \in Readers : ~Reading(j)) => \A j \in Readers : ~Building(j)
    BY DEF Reading, Building
  <2>2. QuietReportAgrees
    BY <1>1, <2>1 DEF IndexInv, PlaceInv, BuildWillSettle, QuietReportAgrees
  <2> QED
    BY <1>1, <2>2 DEF IndexInv, PlaceInv, ReportAgrees
<1> QED
  BY <1>1, IndexInvariant, PTL

(* A canceled build never publishes, while the plugin is loaded.            *)
THEOREM CancellationIsKept == Spec => CanceledStaysCanceled
<1> DEFINE Kept == ~disposed /\ report = "canceled" /\ report' = "ready" =>
                     \E j \in Readers : reader[j].kind = "check" /\ reader'[j].kind = "idle"
<1>1. ASSUME IndexInv, Next
      PROVE  Kept
  <2> SUFFICES ASSUME ~disposed, report = "canceled", report' = "ready"
               PROVE  \E j \in Readers : reader[j].kind = "check" /\ reader'[j].kind = "idle"
    OBVIOUS
  <2>1. PICK j \in Readers : Publish(j) \/ EndCheck(j)
    BY <1>1
    DEF Next, Edit, SaveSettings, ReindexLexical, RetryLexical, TurnOff, AlreadyRunning,
        StartBuild, CancelLexical, Dispose, ReaderStep, ReadNote, SkipNote, NoticeCancel, Fail,
        StartCheck, SessionStep, RequestRefresh, RefreshTimesOut, ApplyChanges
  <2>2. ~Publish(j)
    BY <1>1 DEF IndexInv, PlaceInv, CancelReaches, Publish
  <2> QED
    BY <1>1, <2>1, <2>2 DEF EndCheck, NoReader, IndexInv, TypeOK
<1>2. IndexInv /\ [Next]_vars => [Kept]_vars
  BY <1>1
<1> QED
  BY <1>2, IndexInvariant, PTL DEF Spec, CanceledStaysCanceled

(* A session whose refresh is done finds no note older than what it         *)
(* applied, whoever wrote, canceled or unloaded meanwhile.                  *)
THEOREM RefreshedIsNotOlder == Spec => RefreshIsNotOlder
<1> DEFINE Newer(s) ==
             /\ refresh[s].pc = "waiting" /\ refresh'[s].pc = "done"
             /\ refresh'[s].ok /\ index' # NoIndex
             => \A a \in refresh[s].applied, n \in index' :
                   n.path = a.path => n.version >= a.version
<1>1. ASSUME IndexInv, Next, NEW s \in Sessions
      PROVE  Newer(s)
  <2> SUFFICES ASSUME refresh[s].pc = "waiting", refresh'[s].pc = "done",
                      refresh'[s].ok, index' # NoIndex
               PROVE  \A a \in refresh[s].applied, n \in index' :
                         n.path = a.path => n.version >= a.version
    OBVIOUS
  <2>1. TypeOK /\ ReadsNew(s)
    BY <1>1 DEF IndexInv, SessionsReadNew
  <2>2. PICK j \in Readers : Publish(j) /\ refresh[s].job = j
    <3>1. ASSUME NEW o \in Sessions,
                 \/ RequestRefresh(o) \/ RefreshTimesOut(o)
                 \/ \E ps \in (SUBSET Paths) \ {{}} : ApplyChanges(o, ps)
          PROVE  FALSE
      <4>1. refresh \in [Sessions -> Refreshes]
        BY <2>1 DEF TypeOK
      <4>2. CASE o = s /\ RefreshTimesOut(s)
        <5>1. CASE refresh[s].attempt = 1
          BY <4>1, <4>2, <5>1 DEF RefreshTimesOut, Refreshes
        <5>2. CASE refresh[s].attempt # 1
          BY <4>1, <4>2, <5>2 DEF RefreshTimesOut, NoRefresh
        <5> QED
          BY <5>1, <5>2
      <4>3. o = s => RefreshTimesOut(s)
        BY <3>1 DEF RequestRefresh, ApplyChanges
      <4>4. o # s => refresh'[s] = refresh[s]
        BY <3>1, <4>1 DEF RequestRefresh, RefreshTimesOut, ApplyChanges, GiveUpRefresh, WaitFor
      <4> QED
        BY <4>2, <4>3, <4>4
    <3>2. PICK j \in Readers : Publish(j) \/ NoticeCancel(j) \/ Fail(j)
      BY <1>1, <3>1
      DEF Next, Edit, SaveSettings, ReindexLexical, RetryLexical, CancelLexical, Dispose,
          ReaderStep, ReadNote, SkipNote, EndCheck, StartCheck, SessionStep
    <3>3. ~NoticeCancel(j) /\ ~Fail(j)
      BY DEF NoticeCancel, Fail
    <3>4. refresh' = Settled(j, TRUE)
      BY <3>2, <3>3 DEF Publish, EndBuild
    <3>5. refresh[s].job = j
      BY <2>1, <3>4, SettledType
    <3> QED
      BY <3>2, <3>3, <3>5
  <2> QED
    BY <2>1, <2>2 DEF Publish, ReadsNew
<1>2. IndexInv /\ [Next]_vars => [\A s \in Sessions : Newer(s)]_vars
  BY <1>1
<1> QED
  BY <1>2, IndexInvariant, PTL DEF Spec, RefreshIsNotOlder
=============================================================================

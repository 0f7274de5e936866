----------------------- MODULE ObsidianInstallProofs -----------------------
(***************************************************************************)
(* Theorems about ObsidianInstall for any versions, checkouts, plugin      *)
(* folders, options and number of scripts, failing calls and kills.        *)
(***************************************************************************)
EXTENDS ObsidianInstall, SequenceTheorems, TLAPS

-----------------------------------------------------------------------------
(* The inductive invariant *)

Installing == {"executing", "copying"}

AtWork == Installing \cup {"compensating"}

Before == {"off", "building", "bundling", "validating", "planning"}

CopyOf(a) == [op |-> "copy", file |-> a]

(* The copy of artifact a is still to be made, or being made, by run d.     *)
CopyDue(d, a) == \E i \in 1 .. Len(run[d].todo) : run[d].todo[i] = CopyOf(a)

(* Copies come last, and while something else is to be done all of them do. *)
TodoOk(d) ==
    /\ \A i, j \in 1 .. Len(run[d].todo) :
          i < j /\ run[d].todo[i].op = "copy" => run[d].todo[j].op = "copy"
    /\ (\E i \in 1 .. Len(run[d].todo) : run[d].todo[i].op # "copy")
          => \A a \in Artifacts : CopyDue(d, a)
    /\ run[d].at = "copying" => run[d].todo # <<>> /\ Next1(d).op = "copy"

(* A plan judged what it replaces: nothing unreadable, nothing that cannot  *)
(* be compared, nothing newer unless that was allowed.                      *)
Judged(old, new, o) ==
    /\ new \in Versions
    /\ old # Broken
    /\ \/ old = Absent
       \/ old = new
       \/ IsOlder(old, new)
       \/ IsOlder(new, old) /\ o.downgrade

(* What a run knows by its step, whatever others do.                        *)
RunOk(d) ==
    /\ run[d].at \in Before => run[d].copied = <<>> /\ ~run[d].plan.ready
    /\ run[d].at = "failed" => run[d].copied = <<>>
    /\ run[d].at \in AtWork \cup {"succeeded"} =>
          /\ run[d].release.ok
          /\ run[d].plan.incoming = run[d].release.incoming
          /\ Judged(run[d].before["manifest.json"], run[d].plan.incoming, run[d].opts)
    /\ run[d].at = "succeeded" => run[d].todo = <<>>

(* The metadata of a release is there.                                      *)
Sound == repo.manifest.text = "ours" /\ repo.versions.text = "ours"

(* Nobody else changed what an undisturbed run has read, built and copied.  *)
Settled(d) ==
    /\ run[d].at = "bundling" =>
          \A a \in Built \ run[d].unwritten : built[a] = repo.package.version
    /\ run[d].at \in {"planning", "succeeded"} \cup AtWork => run[d].release = Release
    /\ /\ run[d].at \in {"validating", "planning", "succeeded"} \cup AtWork
       /\ ~run[d].opts.skipBuild /\ ~run[d].opts.dryRun
       => \A a \in Built : built[a] = repo.package.version
    /\ run[d].at \in Installing \cup {"succeeded"} =>
          \A a \in Artifacts : plugin[a] = SourceOf(a) \/ CopyDue(d, a)
    /\ run[d].at \in AtWork \cup {"failed"} /\ run[d].plan.ready =>
          \A a \in Artifacts :
             \/ plugin[a] \in {run[d].before[a], Absent}
             \/ a \in run[d].stuck
             \/ \E i \in 1 .. Len(run[d].copied) : run[d].copied[i] = a
             \/ run[d].at # "executing" /\ run[d].todo # <<>> /\ Next1(d).file = a

InstallInv ==
    /\ TypeOK
    /\ \A d \in Deploys : TodoOk(d) /\ RunOk(d)
    /\ \A d \in Deploys \ disturbed : Settled(d)

-----------------------------------------------------------------------------
(* What the operators return                                                *)

(* A function on 1 .. n is a sequence of length n.                          *)
LEMMA FunctionIsSequence ==
  ASSUME NEW n \in Nat, NEW S, NEW s \in [1 .. n -> S]
  PROVE  s \in Seq(S) /\ Len(s) = n
<1>1. s \in Seq(S)
  BY SeqDef
<1>2. DOMAIN s = 1 .. Len(s) /\ Len(s) \in Nat
  BY <1>1, LenProperties
<1> QED
  BY <1>1, <1>2

(* The tasks of a run: the folders, the cleaning if asked for, the copies.  *)
LEMMA TodoForm ==
  ASSUME NEW o
  PROVE  /\ Todo(o) \in Seq(Tasks)
         /\ \E n \in {2, 6} :
               /\ Len(Todo(o)) = n + 4
               /\ \A i \in 1 .. n : Todo(o)[i].op # "copy"
               /\ \A i \in 1 .. 4 : Todo(o)[n + i] = CopyOf(Contract[i])
<1> DEFINE folders == <<Task("ensure-obsidian"), Task("ensure-plugin")>>
           cleans == IF o.clean THEN Cleans ELSE <<>>
<1>1. folders \in Seq(Tasks) /\ Len(folders) = 2 /\ \A i \in 1 .. 2 : folders[i].op # "copy"
  BY DEF Task, Tasks, Artifacts, Built
<1>2. \A i \in 1 .. 4 : Contract[i] \in Artifacts
  BY DEF Contract, Artifacts, Built, Metadata
<1>3. /\ Cleans \in Seq(Tasks) /\ Len(Cleans) = 4
      /\ \A i \in 1 .. 4 : Cleans[i].op = "clean"
  <2>1. Cleans \in [1 .. 4 -> Tasks] /\ \A i \in 1 .. 4 : Cleans[i].op = "clean"
    BY <1>2 DEF Cleans, Tasks
  <2> QED
    BY <2>1, FunctionIsSequence
<1>4. /\ Copies \in Seq(Tasks) /\ Len(Copies) = 4
      /\ \A i \in 1 .. 4 : Copies[i] = CopyOf(Contract[i])
  <2>1. Copies \in [1 .. 4 -> Tasks] /\ \A i \in 1 .. 4 : Copies[i] = CopyOf(Contract[i])
    BY <1>2 DEF Copies, Tasks, CopyOf
  <2>2. Copies \in Seq(Tasks) /\ Len(Copies) = 4
    <3>1. Copies \in [1 .. 4 -> Tasks] /\ 4 \in Nat
      BY <2>1
    <3> QED
      BY <3>1, FunctionIsSequence
  <2> QED
    BY <2>1, <2>2
<1>5. /\ cleans \in Seq(Tasks) /\ Len(cleans) \in {0, 4}
      /\ \A i \in 1 .. Len(cleans) : cleans[i].op # "copy"
  <2>1. <<>> \in Seq(Tasks) /\ Len(<<>>) = 0
    BY EmptySeq
  <2>2. CASE o.clean
    <3>1. cleans = Cleans
      BY <2>2
    <3> HIDE DEF cleans
    <3> QED
      BY <1>3, <3>1
  <2>3. CASE ~o.clean
    <3>1. cleans = <<>>
      BY <2>3
    <3> HIDE DEF cleans
    <3> QED
      BY <2>1, <3>1
  <2> QED
    BY <2>2, <2>3
<1> HIDE DEF folders, cleans
<1> DEFINE first == folders \o cleans
<1>6. /\ first \in Seq(Tasks) /\ Len(first) \in {2, 6}
      /\ \A i \in 1 .. Len(first) : first[i].op # "copy"
  <2>1. /\ first \in Seq(Tasks) /\ Len(first) = Len(folders) + Len(cleans)
        /\ \A i \in 1 .. Len(folders) + Len(cleans) :
              first[i] = IF i <= Len(folders) THEN folders[i] ELSE cleans[i - Len(folders)]
    BY <1>1, <1>5, ConcatProperties
  <2> HIDE DEF first
  <2>2. ASSUME NEW i \in 1 .. Len(first)
        PROVE  first[i].op # "copy"
    <3>1. CASE i <= 2
      BY <1>1, <2>1, <3>1
    <3>2. CASE i > 2
      <4>1. i - 2 \in 1 .. Len(cleans) /\ first[i] = cleans[i - 2]
        BY <1>1, <1>5, <2>1, <3>2
      <4> QED
        BY <1>5, <4>1
    <3> QED
      BY <3>1, <3>2
  <2>3. Len(first) \in {2, 6}
    BY <1>1, <1>5, <2>1
  <2> QED
    BY <2>1, <2>2, <2>3
<1> HIDE DEF first
<1>7. Todo(o) = first \o Copies
  BY DEF Todo, first, folders, cleans
<1> DEFINE all == first \o Copies
<1>8. /\ all \in Seq(Tasks) /\ Len(all) = Len(first) + Len(Copies)
      /\ \A i \in 1 .. Len(first) + Len(Copies) :
            all[i] = IF i <= Len(first) THEN first[i] ELSE Copies[i - Len(first)]
  BY <1>4, <1>6, ConcatProperties
<1> HIDE DEF all
<1>9. /\ Todo(o) \in Seq(Tasks) /\ Len(Todo(o)) = Len(first) + 4
      /\ \A i \in 1 .. Len(first) + 4 :
            Todo(o)[i] = IF i <= Len(first) THEN first[i] ELSE Copies[i - Len(first)]
  BY <1>4, <1>7, <1>8 DEF all
<1>10. \A i \in 1 .. Len(first) : Todo(o)[i].op # "copy"
  BY <1>6, <1>9
<1>11. \A i \in 1 .. 4 : Todo(o)[Len(first) + i] = CopyOf(Contract[i])
  <2> TAKE i \in 1 .. 4
  <2>1. PICK k \in 1 .. Len(first) + 4 : k = Len(first) + i
    BY <1>6
  <2>2. ~(k <= Len(first)) /\ k - Len(first) = i
    BY <1>6, <2>1
  <2>3. Todo(o)[k] = Copies[k - Len(first)]
    BY <1>9, <2>2
  <2> QED
    BY <1>4, <2>1, <2>2, <2>3
<1> QED
  BY <1>6, <1>9, <1>10, <1>11

(* All copies are to be made, after everything else.                        *)
LEMMA TodoInOrder ==
  ASSUME NEW o
  PROVE  /\ \A i, j \in 1 .. Len(Todo(o)) :
               i < j /\ Todo(o)[i].op = "copy" => Todo(o)[j].op = "copy"
         /\ \A a \in Artifacts : \E i \in 1 .. Len(Todo(o)) : Todo(o)[i] = CopyOf(a)
<1>1. PICK n \in {2, 6} : /\ Len(Todo(o)) = n + 4
                          /\ \A i \in 1 .. n : Todo(o)[i].op # "copy"
                          /\ \A i \in 1 .. 4 : Todo(o)[n + i] = CopyOf(Contract[i])
  BY TodoForm
<1>2. \A i \in 1 .. 4 : CopyOf(Contract[i]).op = "copy"
  BY DEF CopyOf
<1>3. ASSUME NEW j \in 1 .. Len(Todo(o)), j > n
      PROVE  Todo(o)[j].op = "copy"
  <2>1. j - n \in 1 .. 4 /\ n + (j - n) = j
    BY <1>1, <1>3
  <2> QED
    BY <1>1, <1>2, <2>1
<1>4. \A i, j \in 1 .. Len(Todo(o)) :
         i < j /\ Todo(o)[i].op = "copy" => Todo(o)[j].op = "copy"
  <2> SUFFICES ASSUME NEW i \in 1 .. Len(Todo(o)), NEW j \in 1 .. Len(Todo(o)), i < j,
                      Todo(o)[i].op = "copy"
               PROVE  Todo(o)[j].op = "copy"
    OBVIOUS
  <2>1. i > n
    BY <1>1
  <2> QED
    BY <1>1, <1>3, <2>1
<1>5. ASSUME NEW a \in Artifacts
      PROVE  \E i \in 1 .. Len(Todo(o)) : Todo(o)[i] = CopyOf(a)
  <2>1. PICK i \in 1 .. 4 : Contract[i] = a
    BY DEF Contract, Artifacts, Built, Metadata
  <2>2. n + i \in 1 .. Len(Todo(o)) /\ Todo(o)[n + i] = CopyOf(a)
    BY <1>1, <2>1
  <2> QED
    BY <2>2
<1> QED
  BY <1>4, <1>5

(* compareVersions finds an order in any two different release numbers, the *)
(* one of IsOlder.                                                          *)
LEMMA OlderIsOlder ==
  ASSUME NEW v \in Numbered, NEW w \in Numbered
  PROVE  /\ Older(v, w) <=> IsOlder(v, w)
         /\ v # w => IsOlder(v, w) \/ IsOlder(w, v)
<1>1. v \in Nat \X Nat \X Nat /\ w \in Nat \X Nat \X Nat
  BY NumberedAreTriples
<1>2. /\ v[1] \in Nat /\ v[2] \in Nat /\ v[3] \in Nat /\ w[1] \in Nat /\ w[2] \in Nat /\ w[3] \in Nat
      /\ v = <<v[1], v[2], v[3]>> /\ w = <<w[1], w[2], w[3]>>
  BY <1>1
<1>3. Older(v, w) <=> \/ v[1] < w[1]
                      \/ v[2] < w[2] /\ v[1] = w[1]
                      \/ v[3] < w[3] /\ v[1] = w[1] /\ v[2] = w[2]
  <2>1. /\ 1 .. 3 = {1, 2, 3}
        /\ 1 .. 1 - 1 = {} /\ 1 .. 2 - 1 = {1} /\ 1 .. 3 - 1 = {1, 2}
    OBVIOUS
  <2> QED
    BY <2>1 DEF Older
<1>4. Older(v, w) <=> IsOlder(v, w)
  BY <1>3 DEF IsOlder
<1>5. v # w => IsOlder(v, w) \/ IsOlder(w, v)
  <2>1. v # w => v[1] # w[1] \/ v[2] # w[2] \/ v[3] # w[3]
    BY <1>2
  <2> QED
    BY <1>2, <2>1 DEF IsOlder
<1> QED
  BY <1>4, <1>5

(* A release without an issue is there, its metadata whole and of one       *)
(* version.                                                                 *)
LEMMA ReleaseIsSound ==
  ASSUME TypeOK, Release.ok
  PROVE  /\ repo.manifest.text = "ours" /\ repo.versions.text = "ours"
         /\ repo.package.version = repo.manifest.version
         /\ repo.manifest.version \in Versions
         /\ Release.incoming = repo.manifest.version
         /\ Release.artifacts = Artifacts
         /\ \A a \in Built : built[a] # Absent
<1>1. ReleaseIssues(repo, built, stray) = {}
  BY DEF Release
<1>2. MetadataIssues(repo) = {} /\ ArtifactIssues(repo, built, stray) = {}
  BY <1>1 DEF ReleaseIssues
<1>3. Unread(repo) = {} /\ Malformed(repo) = {} /\ AlignmentIssues(repo) = {}
  BY <1>2 DEF MetadataIssues
<1>4. repo \in AllCheckouts
  BY CheckoutsAreCheckouts DEF TypeOK
<1>5. {"package", "manifest", "versions"} \subseteq DOMAIN repo \ {"config"}
  BY <1>4 DEF AllCheckouts
<1>6. /\ repo["manifest"].text \notin {"unreadable", "not-json", "malformed"}
      /\ repo["versions"].text \notin {"unreadable", "not-json", "malformed"}
  BY <1>3, <1>5 DEF Unread, Malformed
<1>7. "foreign-manifest" \notin AlignmentIssues(repo) /\ "version-drift" \notin AlignmentIssues(repo)
  BY <1>3
<1>8. repo.manifest.text # "foreign" /\ repo.package.version = repo.manifest.version
  BY <1>7 DEF AlignmentIssues
<1>9. /\ repo.manifest.text \in Texts /\ repo.versions.text \in Texts \ {"foreign"}
      /\ repo.manifest.version \in Versions
  BY <1>4 DEF AllCheckouts
<1>10. repo.manifest.text = "ours" /\ repo.versions.text = "ours"
  BY <1>6, <1>8, <1>9 DEF Texts
<1>11. Present(repo, built) = Artifacts
  BY <1>2 DEF ArtifactIssues
<1>12. \A a \in Built : built[a] # Absent
  <2>1. \A a \in Built : a \in Present(repo, built) /\ a \notin Metadata
    BY <1>11 DEF Artifacts, Built, Metadata
  <2> QED
    BY <2>1 DEF Present
<1>14. VersionsKnown(repo)
  BY <1>3 DEF VersionsKnown
<1>15. Release.incoming = repo.manifest.version /\ Release.artifacts = Artifacts
  BY <1>11, <1>14 DEF Release
<1> QED
  BY <1>8, <1>9, <1>10, <1>12, <1>15

(* A copy takes the metadata of the version of the manifest, or the bundle. *)
LEMMA SourceIsRight ==
  ASSUME Sound, NEW a \in Artifacts
  PROVE  /\ a \in Metadata => SourceOf(a) = repo.manifest.version
         /\ a \in Built => SourceOf(a) = built[a]
BY DEF SourceOf, Sound, Metadata, Built

(* What a copy reads is a file of some version, a broken one or none.       *)
LEMMA SourceType ==
  ASSUME TypeOK, NEW a \in Artifacts
  PROVE  SourceOf(a) \in Versions \cup {Absent, Broken}
<1>1. repo.manifest.version \in Versions
  BY CheckoutsAreCheckouts DEF TypeOK, AllCheckouts
<1> QED
  BY <1>1 DEF SourceOf, TypeOK

(* A plan that is ready judged what it replaces.                            *)
LEMMA PlanJudges ==
  ASSUME TypeOK, NEW release, NEW path, NEW o,
         release.incoming \in Versions \cup {Absent},
         PlanOf(release, path, o).ready
  PROVE  /\ release.ok
         /\ PlanOf(release, path, o).incoming = release.incoming
         /\ Judged(plugin["manifest.json"], release.incoming, o)
<1> DEFINE hasTarget == path # "refused"
           invalid == hasTarget /\ plugin["manifest.json"] = Broken
           installed == IF hasTarget THEN Installed(plugin) ELSE Absent
           old == plugin["manifest.json"]
           new == release.incoming
<1>1. /\ TargetIssues(path, o) = {}
      /\ OperationIssues(installed, new, invalid, o) = {}
      /\ ~invalid
      /\ release.ok
  BY DEF PlanOf
<1>2. PlanOf(release, path, o).incoming = release.incoming
  BY DEF PlanOf
<1>3. hasTarget
  BY <1>1 DEF TargetIssues
<1>4. old # Broken /\ installed = Installed(plugin)
  BY <1>1, <1>3
<1>5. old \in Versions \cup {Absent, Broken}
  BY DEF TypeOK, AllFolders, Artifacts, Metadata
<1>6. old = Absent \/ (old \in Versions /\ installed = old)
  BY <1>4, <1>5 DEF Installed
<1>7. installed # Absent <=> old \in Versions
  BY <1>4, <1>5, AbsentIsNothing DEF Installed
<1> HIDE DEF installed, invalid, hasTarget
<1>8. /\ "no-incoming-version" \notin OperationIssues(installed, new, invalid, o)
      /\ "version-compare-unknown" \notin OperationIssues(installed, new, invalid, o)
      /\ "downgrade-blocked" \notin OperationIssues(installed, new, invalid, o)
  BY <1>1
<1>9. new # Absent
  BY <1>1, <1>8 DEF OperationIssues
<1>10. new \in Versions
  BY <1>9
<1>11. ASSUME old \in Versions, old # new
       PROVE  IsOlder(old, new) \/ (IsOlder(new, old) /\ o.downgrade)
  <2>1. installed = old /\ installed # Absent
    BY <1>6, <1>7, <1>11, AbsentIsNothing
  <2>2. {installed, new} \cap Labels = {}
    BY <1>1, <1>8, <1>9, <1>11, <2>1 DEF OperationIssues
  <2>3. old \in Numbered /\ new \in Numbered
    BY <1>10, <1>11, <2>1, <2>2 DEF Versions
  <2>4. IsOlder(old, new) \/ IsOlder(new, old)
    BY <1>11, <2>3, OlderIsOlder
  <2>5. ASSUME IsOlder(new, old)
        PROVE  o.downgrade
    <3>1. Older(new, installed)
      BY <2>1, <2>3, <2>5, OlderIsOlder
    <3>2. Kind(installed, new, invalid) = "downgrade"
      BY <1>1, <1>9, <1>11, <2>1, <3>1 DEF Kind
    <3> QED
      BY <1>1, <1>8, <3>2 DEF OperationIssues
  <2> QED
    BY <2>4, <2>5
<1>12. Judged(old, new, o)
  BY <1>4, <1>5, <1>6, <1>10, <1>11 DEF Judged
<1> QED
  BY <1>1, <1>2, <1>12

-----------------------------------------------------------------------------
(* Types, and what each step makes of its run                               *)

(* What a step may put in a run is typed.                                   *)
LEMMA RunUpdates ==
  ASSUME NEW r \in RunStates, NEW at \in Steps, NEW release \in Releases, NEW pl \in Plans,
         NEW before \in AllFolders, NEW todo \in Seq(Tasks), NEW copied \in Seq(Artifacts),
         NEW stuck \in SUBSET Artifacts
  PROVE  /\ [r EXCEPT !.at = at] \in RunStates
         /\ [r EXCEPT !.at = at, !.release = release] \in RunStates
         /\ [r EXCEPT !.plan = pl, !.before = before, !.at = at, !.todo = todo] \in RunStates
         /\ [r EXCEPT !.todo = todo] \in RunStates
         /\ [r EXCEPT !.at = at, !.todo = todo, !.copied = copied] \in RunStates
         /\ [r EXCEPT !.copied = copied] \in RunStates
         /\ [r EXCEPT !.copied = copied, !.stuck = stuck] \in RunStates
BY DEF RunStates

(* The parts of a run are typed.                                            *)
LEMMA RunFields ==
  ASSUME TypeOK, NEW d \in Deploys
  PROVE  /\ run[d] \in RunStates
         /\ run[d].at \in Steps
         /\ run[d].opts \in Invocations
         /\ run[d].release \in Releases
         /\ run[d].plan \in Plans
         /\ run[d].before \in AllFolders
         /\ run[d].todo \in Seq(Tasks)
         /\ run[d].copied \in Seq(Artifacts)
         /\ run[d].stuck \in SUBSET Artifacts
         /\ run[d].unwritten \in SUBSET Built
BY DEF TypeOK, RunStates

(* A run that is typed can replace a run.                                   *)
LEMMA RunReplaced ==
  ASSUME TypeOK, NEW d \in Deploys, NEW w \in RunStates, run' = [run EXCEPT ![d] = w]
  PROVE  /\ run' \in [Deploys -> RunStates]
         /\ run'[d] = w
         /\ \A e \in Deploys \ {d} : run'[e] = run[e]
BY DEF TypeOK

Stays(d) == run' \in [Deploys -> RunStates] /\ \A e \in Deploys \ {d} : run'[e] = run[e]

(* A new run has seen and done nothing.                                     *)
LEMMA NewRunType ==
  ASSUME NEW o \in Invocations
  PROVE  /\ NewRun(o) \in RunStates
         /\ NewRun(o).at = "off" /\ NewRun(o).opts = o
         /\ NewRun(o).todo = <<>> /\ NewRun(o).copied = <<>>
         /\ ~NewRun(o).plan.ready
<1> DEFINE release == [ok |-> FALSE, incoming |-> Absent, artifacts |-> {}]
           before == [a \in Artifacts |-> Absent]
<1>1. "off" \in Steps /\ release \in Releases
  BY DEF Steps, Releases
<1>2. NoPlan \in Plans /\ ~NoPlan.ready
  BY DEF NoPlan, Plans, Kinds, RollbackModes
<1>3. before \in AllFolders
  BY DEF AllFolders
<1>4. <<>> \in Seq(Tasks) /\ <<>> \in Seq(Artifacts)
  BY EmptySeq
<1> HIDE DEF release, before
<1>5. NewRun(o) = [at |-> "off", opts |-> o, release |-> release, plan |-> NoPlan,
                   before |-> before, todo |-> <<>>, copied |-> <<>>, stuck |-> {},
                   unwritten |-> {}]
  BY DEF NewRun, release, before
<1> QED
  BY <1>1, <1>2, <1>3, <1>4, <1>5 DEF RunStates

(* What validateReleaseArtifacts returns.                                   *)
LEMMA ReleaseType ==
  ASSUME TypeOK
  PROVE  Release \in Releases
<1>1. repo.manifest.version \in Versions
  BY CheckoutsAreCheckouts DEF TypeOK, AllCheckouts
<1>2. Present(repo, built) \subseteq Artifacts
  BY DEF Present, Artifacts
<1>3. (ReleaseIssues(repo, built, stray) = {}) \in BOOLEAN
  OBVIOUS
<1>4. (IF VersionsKnown(repo) THEN repo.manifest.version ELSE Absent) \in Versions \cup {Absent}
  BY <1>1
<1> QED
  BY <1>2, <1>3, <1>4 DEF Release, Releases

(* What createObsidianInstallPlan returns.                                  *)
LEMMA PlanType ==
  ASSUME TypeOK, NEW release \in Releases, NEW path, NEW o
  PROVE  PlanOf(release, path, o) \in Plans
<1> DEFINE hasTarget == path # "refused"
           invalid == hasTarget /\ plugin["manifest.json"] = Broken
           installed == IF hasTarget THEN Installed(plugin) ELSE Absent
           kind == Kind(installed, release.incoming, invalid)
           ready == PlanOf(release, path, o).ready
<1>1. installed \in Versions \cup {Absent}
  BY DEF Installed
<1>2. kind \in Kinds
  BY DEF Kind, Kinds
<1>3. RollbackIntent(kind, o) \in RollbackModes
  BY DEF RollbackIntent, RollbackModes
<1>4. ready \in BOOLEAN
  BY DEF PlanOf
<1>5. release.incoming \in Versions \cup {Absent}
  BY DEF Releases
<1>6. PlanOf(release, path, o) =
         [ready |-> ready, kind |-> kind, installed |-> installed,
          incoming |-> release.incoming, rollback |-> RollbackIntent(kind, o)]
  BY DEF PlanOf
<1> HIDE DEF hasTarget, invalid, installed, kind, ready
<1> QED
  BY <1>1, <1>2, <1>3, <1>4, <1>5, <1>6 DEF Plans

(* The head and the tail of what is to be done, and of what is copied.      *)
LEMMA HeadAndTail ==
  ASSUME NEW S, NEW s \in Seq(S), s # <<>>
  PROVE  /\ Head(s) \in S /\ Head(s) = s[1] /\ Tail(s) \in Seq(S)
         /\ Len(s) \in Nat /\ Len(s) >= 1 /\ Len(Tail(s)) = Len(s) - 1
         /\ \A i \in 1 .. Len(s) - 1 : Tail(s)[i] = s[i + 1]
<1>1. /\ Head(s) \in S /\ Tail(s) \in Seq(S) /\ Len(Tail(s)) = Len(s) - 1
      /\ \A i \in 1 .. Len(Tail(s)) : Tail(s)[i] = s[i + 1]
  BY HeadTailProperties
<1>2. Len(s) \in Nat /\ Len(s) >= 1
  BY EmptySeq, LenProperties
<1> QED
  BY <1>1, <1>2

LEMMA StartRun ==
  ASSUME TypeOK, NEW d \in Deploys, NEW o \in Invocations, Start(d, o)
  PROVE  /\ Stays(d)
         /\ run'[d].at \in {"failed", "validating", "building"}
         /\ run'[d].at = "validating" => o.dryRun \/ o.skipBuild
         /\ run'[d].opts = o
         /\ run'[d].todo = <<>> /\ run'[d].copied = <<>>
         /\ ~run'[d].plan.ready
<1> DEFINE at == IF ~Complete \/ VaultPath(o) = Absent THEN "failed"
                 ELSE IF o.dryRun \/ o.skipBuild THEN "validating" ELSE "building"
           w == [NewRun(o) EXCEPT !.at = at]
<1>1. /\ at \in {"failed", "validating", "building"} /\ at \in Steps
      /\ at = "validating" => o.dryRun \/ o.skipBuild
  BY DEF Steps
<1>2. run' = [run EXCEPT ![d] = w]
  BY DEF Start
<1> HIDE DEF at
<1>3. w \in RunStates
  BY <1>1, NewRunType DEF RunStates
<1>4. /\ w.at = at /\ w.opts = o /\ w.todo = <<>> /\ w.copied = <<>>
      /\ ~w.plan.ready
  BY NewRunType DEF RunStates
<1> HIDE DEF w
<1>5. Stays(d) /\ run'[d] = w
  BY <1>2, <1>3, RunReplaced DEF Stays
<1> QED
  BY <1>1, <1>4, <1>5

(* A run that takes a step and keeps the rest of what it knows.             *)
Keeps(d) ==
    /\ run'[d].opts = run[d].opts
    /\ run'[d].release = run[d].release
    /\ run'[d].plan = run[d].plan
    /\ run'[d].before = run[d].before

LEMMA StepRun ==
  ASSUME TypeOK, NEW d \in Deploys, NEW at \in Steps, run' = [run EXCEPT ![d].at = at]
  PROVE  /\ Stays(d) /\ Keeps(d)
         /\ run'[d].at = at
         /\ run'[d].todo = run[d].todo /\ run'[d].copied = run[d].copied
         /\ run'[d].stuck = run[d].stuck
<1> DEFINE w == [run[d] EXCEPT !.at = at]
<1>1. run' = [run EXCEPT ![d] = w]
  OBVIOUS
<1>2. w \in RunStates
  BY RunFields, RunUpdates
<1>3. /\ w.at = at /\ w.opts = run[d].opts /\ w.release = run[d].release
      /\ w.plan = run[d].plan /\ w.before = run[d].before /\ w.todo = run[d].todo
      /\ w.copied = run[d].copied /\ w.stuck = run[d].stuck
  BY RunFields DEF RunStates
<1> HIDE DEF w
<1>4. Stays(d) /\ run'[d] = w
  BY <1>1, <1>2, RunReplaced DEF Stays
<1> QED
  BY <1>3, <1>4 DEF Keeps

(* The steps of a build.                                                    *)
LEMMA EmptyRun ==
  ASSUME TypeOK, NEW d \in Deploys, EmptyOutput(d)
  PROVE  /\ Stays(d) /\ Keeps(d)
         /\ \/ run'[d].at = "building"
            \/ run'[d].at = "bundling" /\ run'[d].unwritten = Built
         /\ run'[d].todo = run[d].todo /\ run'[d].copied = run[d].copied
<1>1. run[d].at = "building"
  BY DEF EmptyOutput
<1>2. CASE run' = run
  BY <1>1, <1>2 DEF Stays, Keeps, TypeOK
<1>3. CASE run' # run
  <2> DEFINE w == [run[d] EXCEPT !.at = "bundling", !.unwritten = Built]
  <2>1. run' = [run EXCEPT ![d] = w]
    BY <1>3 DEF EmptyOutput
  <2>2. "bundling" \in Steps /\ Built \in SUBSET Built
    BY DEF Steps
  <2>3. w \in RunStates
    <3>1. run[d] \in RunStates
      BY RunFields
    <3> QED
      BY <2>2, <3>1 DEF RunStates
  <2>4. /\ w.at = "bundling" /\ w.unwritten = Built /\ w.opts = run[d].opts
        /\ w.release = run[d].release /\ w.plan = run[d].plan /\ w.before = run[d].before
        /\ w.todo = run[d].todo /\ w.copied = run[d].copied
    BY RunFields DEF RunStates
  <2> HIDE DEF w
  <2>5. Stays(d) /\ run'[d] = w
    BY <2>1, <2>3, RunReplaced DEF Stays
  <2> QED
    BY <2>4, <2>5 DEF Keeps
<1> QED
  BY <1>2, <1>3

LEMMA WriteRun ==
  ASSUME TypeOK, NEW d \in Deploys, WriteOutput(d)
  PROVE  /\ Stays(d) /\ Keeps(d)
         /\ run[d].at = "bundling" /\ run'[d].at = "bundling"
         /\ run'[d].todo = run[d].todo /\ run'[d].copied = run[d].copied
         /\ \E a \in run[d].unwritten :
               \/ /\ built' = [built EXCEPT ![a] = Broken]
                  /\ run'[d].unwritten = run[d].unwritten
               \/ /\ built' = [built EXCEPT ![a] = repo.package.version]
                  /\ run'[d].unwritten = run[d].unwritten \ {a}
<1>1. PICK a \in run[d].unwritten :
         \/ built' = [built EXCEPT ![a] = Broken] /\ run' = run
         \/ /\ built' = [built EXCEPT ![a] = repo.package.version]
            /\ run' = [run EXCEPT ![d].unwritten = @ \ {a}]
  BY DEF WriteOutput
<1>2. run[d].at = "bundling"
  BY DEF WriteOutput
<1>3. CASE built' = [built EXCEPT ![a] = Broken] /\ run' = run
  BY <1>2, <1>3 DEF Stays, Keeps, TypeOK
<1>4. CASE /\ built' = [built EXCEPT ![a] = repo.package.version]
           /\ run' = [run EXCEPT ![d].unwritten = @ \ {a}]
  <2> DEFINE rest == run[d].unwritten \ {a}
             w == [run[d] EXCEPT !.unwritten = rest]
  <2>1. run' = [run EXCEPT ![d] = w]
    BY <1>4
  <2>2. rest \in SUBSET Built
    BY RunFields
  <2>3. w \in RunStates
    <3>1. run[d] \in RunStates
      BY RunFields
    <3> QED
      BY <2>2, <3>1 DEF RunStates
  <2>4. /\ w.at = run[d].at /\ w.unwritten = rest /\ w.opts = run[d].opts
        /\ w.release = run[d].release /\ w.plan = run[d].plan /\ w.before = run[d].before
        /\ w.todo = run[d].todo /\ w.copied = run[d].copied
    BY RunFields DEF RunStates
  <2> HIDE DEF w
  <2>5. Stays(d) /\ run'[d] = w
    BY <2>1, <2>3, RunReplaced DEF Stays
  <2> QED
    BY <1>2, <1>4, <2>4, <2>5 DEF Keeps
<1> QED
  BY <1>1, <1>3, <1>4

LEMMA EndBuildRun ==
  ASSUME TypeOK, NEW d \in Deploys, EndBuild(d)
  PROVE  /\ Stays(d) /\ Keeps(d)
         /\ run[d].at \in {"building", "bundling"}
         /\ run'[d].at \in {"validating", "failed"}
         /\ run'[d].at = "validating" => run[d].at = "bundling" /\ run[d].unwritten = {}
         /\ run'[d].todo = run[d].todo /\ run'[d].copied = run[d].copied
<1>1. {"validating", "failed"} \subseteq Steps
  BY DEF Steps
<1>2. CASE /\ run[d].at = "bundling" /\ run[d].unwritten = {}
           /\ run' = [run EXCEPT ![d].at = "validating"]
  BY <1>1, <1>2, StepRun
<1>3. CASE /\ run[d].at \in {"building", "bundling"}
           /\ run' = [run EXCEPT ![d].at = "failed"]
  <2>1. run'[d].at = "failed"
    BY <1>1, <1>3, StepRun
  <2> QED
    BY <1>1, <1>3, <2>1, StepRun
<1> QED
  BY <1>2, <1>3 DEF EndBuild

(* What all of them leave as it is.                                         *)
LEMMA BuildRun ==
  ASSUME TypeOK, NEW d \in Deploys, EmptyOutput(d) \/ WriteOutput(d) \/ EndBuild(d)
  PROVE  /\ Stays(d) /\ Keeps(d)
         /\ run[d].at \in {"building", "bundling"}
         /\ run'[d].at \in {"building", "bundling", "validating", "failed"}
         /\ run'[d].todo = run[d].todo /\ run'[d].copied = run[d].copied
<1>1. EmptyOutput(d) => run[d].at = "building"
  BY DEF EmptyOutput
<1> QED
  BY <1>1, EmptyRun, WriteRun, EndBuildRun

LEMMA ValidateRun ==
  ASSUME TypeOK, NEW d \in Deploys, Validate(d)
  PROVE  /\ Stays(d)
         /\ run'[d].at = "planning" /\ run'[d].release = Release
         /\ run'[d].opts = run[d].opts /\ run'[d].plan = run[d].plan
         /\ run'[d].todo = run[d].todo /\ run'[d].copied = run[d].copied
<1> DEFINE w == [run[d] EXCEPT !.at = "planning", !.release = Release]
<1>1. run' = [run EXCEPT ![d] = w]
  BY DEF Validate
<1>2. w \in RunStates
  <2>1. "planning" \in Steps
    BY DEF Steps
  <2> QED
    BY <2>1, RunFields, RunUpdates, ReleaseType
<1>3. /\ w.at = "planning" /\ w.release = Release /\ w.opts = run[d].opts
      /\ w.plan = run[d].plan /\ w.todo = run[d].todo /\ w.copied = run[d].copied
  BY RunFields DEF RunStates
<1> HIDE DEF w
<1>4. Stays(d) /\ run'[d] = w
  BY <1>1, <1>2, RunReplaced DEF Stays
<1> QED
  BY <1>3, <1>4

LEMMA MakePlanRun ==
  ASSUME TypeOK, NEW d \in Deploys, MakePlan(d)
  PROVE  LET plan == PlanOf(run[d].release, VaultPath(run[d].opts), run[d].opts)
         IN  /\ Stays(d)
             /\ run'[d].opts = run[d].opts /\ run'[d].release = run[d].release
             /\ run'[d].plan = plan /\ run'[d].before = plugin
             /\ run'[d].copied = run[d].copied
             /\ run'[d].at \in {"failed", "previewed", "executing"}
             /\ run'[d].at = "failed" => ~plan.ready
             /\ run'[d].at = "executing" => /\ plan.ready /\ ~run[d].opts.dryRun
                                            /\ run'[d].todo = Todo(run[d].opts)
             /\ run'[d].at # "executing" => run'[d].todo = <<>>
<1> DEFINE o == run[d].opts
           plan == PlanOf(run[d].release, VaultPath(o), o)
           at == IF ~plan.ready THEN "failed" ELSE IF o.dryRun THEN "previewed" ELSE "executing"
           todo == IF plan.ready /\ ~o.dryRun THEN Todo(o) ELSE <<>>
           w == [run[d] EXCEPT !.plan = plan, !.before = plugin, !.at = at, !.todo = todo]
<1>1. run' = [run EXCEPT ![d] = w]
  BY DEF MakePlan
<1>2. /\ at \in {"failed", "previewed", "executing"} /\ at \in Steps
      /\ at = "failed" => ~plan.ready
      /\ at = "executing" => plan.ready /\ ~o.dryRun /\ todo = Todo(o)
      /\ at # "executing" => todo = <<>>
  BY DEF Steps
<1>3. todo \in Seq(Tasks)
  BY TodoForm, EmptySeq
<1>4. plan \in Plans /\ plugin \in AllFolders
  BY RunFields, PlanType DEF TypeOK
<1> HIDE DEF plan, at, todo
<1>5. w \in RunStates
  BY <1>2, <1>3, <1>4, RunFields, RunUpdates
<1>6. /\ w.at = at /\ w.release = run[d].release /\ w.opts = run[d].opts /\ w.before = plugin
      /\ w.plan = plan /\ w.todo = todo /\ w.copied = run[d].copied
  BY RunFields DEF RunStates
<1> HIDE DEF w
<1>7. Stays(d) /\ run'[d] = w
  BY <1>1, <1>5, RunReplaced DEF Stays
<1> QED
  BY <1>2, <1>6, <1>7 DEF plan

(* A folder is ensured, or a file removed.                                  *)
LEMMA TaskRun ==
  ASSUME TypeOK, NEW d \in Deploys, run[d].at = "executing", run[d].todo # <<>>,
         run' = [run EXCEPT ![d].todo = Tail(@)]
  PROVE  /\ Stays(d) /\ Keeps(d)
         /\ run'[d].at = "executing"
         /\ run'[d].todo = Tail(run[d].todo) /\ run'[d].copied = run[d].copied
         /\ run'[d].stuck = run[d].stuck
<1> DEFINE w == [run[d] EXCEPT !.todo = Tail(run[d].todo)]
<1>1. run' = [run EXCEPT ![d] = w]
  OBVIOUS
<1>2. Tail(run[d].todo) \in Seq(Tasks)
  BY RunFields, HeadAndTail
<1>3. w \in RunStates
  BY <1>2, RunFields DEF RunStates
<1>4. /\ w.at = "executing" /\ w.opts = run[d].opts /\ w.release = run[d].release
      /\ w.plan = run[d].plan /\ w.before = run[d].before /\ w.todo = Tail(run[d].todo)
      /\ w.copied = run[d].copied /\ w.stuck = run[d].stuck
  BY RunFields DEF RunStates
<1> HIDE DEF w
<1>5. Stays(d) /\ run'[d] = w
  BY <1>1, <1>3, RunReplaced DEF Stays
<1> QED
  BY <1>4, <1>5 DEF Keeps

LEMMA EndCopyRun ==
  ASSUME TypeOK, NEW d \in Deploys, run[d].todo # <<>>, EndCopy(d)
  PROVE  /\ Stays(d) /\ Keeps(d)
         /\ run'[d].at = "executing"
         /\ run'[d].todo = Tail(run[d].todo)
         /\ run'[d].copied = <<Next1(d).file>> \o run[d].copied
         /\ run'[d].stuck = run[d].stuck
<1> DEFINE copied == <<Next1(d).file>> \o run[d].copied
           w == [run[d] EXCEPT !.at = "executing", !.todo = Tail(run[d].todo), !.copied = copied]
<1>1. run' = [run EXCEPT ![d] = w]
  BY DEF EndCopy
<1>2. Tail(run[d].todo) \in Seq(Tasks) /\ Next1(d) \in Tasks
  BY RunFields, HeadAndTail DEF Next1
<1>3. copied \in Seq(Artifacts)
  <2>1. <<Next1(d).file>> \in Seq(Artifacts)
    BY <1>2 DEF Tasks
  <2> QED
    BY <2>1, RunFields, ConcatProperties
<1> HIDE DEF copied
<1>4. w \in RunStates
  <2>1. "executing" \in Steps
    BY DEF Steps
  <2> QED
    BY <1>2, <1>3, <2>1, RunFields, RunUpdates
<1>5. /\ w.at = "executing" /\ w.opts = run[d].opts /\ w.release = run[d].release
      /\ w.plan = run[d].plan /\ w.before = run[d].before /\ w.todo = Tail(run[d].todo)
      /\ w.copied = copied /\ w.stuck = run[d].stuck
  BY RunFields DEF RunStates
<1> HIDE DEF w
<1>6. Stays(d) /\ run'[d] = w
  BY <1>1, <1>4, RunReplaced DEF Stays
<1> QED
  BY <1>5, <1>6 DEF Keeps, copied

(* The file copied last is removed, or it stays and is put on record.       *)
LEMMA CompensateRun ==
  ASSUME TypeOK, NEW d \in Deploys, Compensate(d)
  PROVE  /\ Stays(d) /\ Keeps(d)
         /\ run'[d].at = "compensating"
         /\ run'[d].todo = run[d].todo /\ run'[d].copied = Tail(run[d].copied)
         /\ \/ /\ run'[d].stuck = run[d].stuck
               /\ plugin' = [plugin EXCEPT ![Head(run[d].copied)] = Absent]
            \/ /\ run'[d].stuck = run[d].stuck \cup {Head(run[d].copied)}
               /\ plugin' = plugin
<1> DEFINE w == [run[d] EXCEPT !.copied = Tail(run[d].copied)]
           u == [run[d] EXCEPT !.copied = Tail(run[d].copied),
                               !.stuck = run[d].stuck \cup {Head(run[d].copied)}]
<1>1. \/ /\ run' = [run EXCEPT ![d] = w]
         /\ plugin' = [plugin EXCEPT ![Head(run[d].copied)] = Absent]
      \/ run' = [run EXCEPT ![d] = u] /\ plugin' = plugin
  BY DEF Compensate
<1>2. Tail(run[d].copied) \in Seq(Artifacts) /\ Head(run[d].copied) \in Artifacts
  BY RunFields, HeadAndTail DEF Compensate
<1>3. w \in RunStates
  BY <1>2, RunFields, RunUpdates
<1>4. u \in RunStates
  <2>1. run[d].stuck \cup {Head(run[d].copied)} \in SUBSET Artifacts
    BY <1>2, RunFields
  <2> QED
    BY <1>2, <2>1, RunFields DEF RunStates
<1>5. /\ w.at = run[d].at /\ w.opts = run[d].opts /\ w.release = run[d].release
      /\ w.plan = run[d].plan /\ w.before = run[d].before /\ w.todo = run[d].todo
      /\ w.copied = Tail(run[d].copied) /\ w.stuck = run[d].stuck
  BY RunFields DEF RunStates
<1>6. /\ u.at = run[d].at /\ u.opts = run[d].opts /\ u.release = run[d].release
      /\ u.plan = run[d].plan /\ u.before = run[d].before /\ u.todo = run[d].todo
      /\ u.copied = Tail(run[d].copied)
      /\ u.stuck = run[d].stuck \cup {Head(run[d].copied)}
  BY RunFields DEF RunStates
<1>7. run[d].at = "compensating"
  BY DEF Compensate
<1> HIDE DEF w, u
<1>8. CASE run' = [run EXCEPT ![d] = w]
           /\ plugin' = [plugin EXCEPT ![Head(run[d].copied)] = Absent]
  <2>1. Stays(d) /\ run'[d] = w
    BY <1>3, <1>8, RunReplaced DEF Stays
  <2> QED
    BY <1>5, <1>7, <1>8, <2>1 DEF Keeps
<1>9. CASE run' = [run EXCEPT ![d] = u] /\ plugin' = plugin
  <2>1. Stays(d) /\ run'[d] = u
    BY <1>4, <1>9, RunReplaced DEF Stays
  <2> QED
    BY <1>6, <1>7, <1>9, <2>1 DEF Keeps
<1> QED
  BY <1>1, <1>8, <1>9

LEMMA ExitRun ==
  ASSUME TypeOK, NEW d \in Deploys, Exit(d)
  PROVE  /\ Stays(d)
         /\ run'[d].at = "off" /\ run'[d].todo = <<>> /\ run'[d].copied = <<>>
         /\ ~run'[d].plan.ready
<1>1. Off \in Invocations
  BY InvocationsAreInvocations DEF Off
<1> QED
  BY <1>1, NewRunType, RunReplaced DEF Exit, Stays

(* BeginCopy, CallFails and Finish only take a step.                        *)
LEMMA OnlyStepRun ==
  ASSUME TypeOK, NEW d \in Deploys, BeginCopy(d) \/ CallFails(d) \/ Finish(d)
  PROVE  /\ Stays(d) /\ Keeps(d)
         /\ run'[d].todo = run[d].todo /\ run'[d].copied = run[d].copied
         /\ run'[d].stuck = run[d].stuck
         /\ BeginCopy(d) => run'[d].at = "copying"
         /\ CallFails(d) => run'[d].at = "compensating"
         /\ Finish(d) => \/ /\ run[d].at = "executing" /\ run[d].todo = <<>>
                            /\ run'[d].at = "succeeded"
                         \/ /\ run[d].at = "compensating" /\ run[d].copied = <<>>
                            /\ run'[d].at = "failed"
<1> {"copying", "compensating", "succeeded", "failed"} \subseteq Steps
  BY DEF Steps
<1>1. CASE BeginCopy(d)
  <2>1. run' = [run EXCEPT ![d].at = "copying"] /\ run[d].at = "executing"
    BY <1>1 DEF BeginCopy, Doing
  <2>2. ~CallFails(d) /\ ~Finish(d)
    <3>1. run'[d].at = "copying"
      BY <2>1, StepRun
    <3>2. CallFails(d) => run'[d].at = "compensating"
      <4> SUFFICES ASSUME CallFails(d) PROVE run'[d].at = "compensating"
        OBVIOUS
      <4>1. run' = [run EXCEPT ![d].at = "compensating"]
        BY DEF CallFails
      <4> QED
        BY <4>1, StepRun
    <3>3. Finish(d) => run'[d].at \in {"succeeded", "failed"}
      <4> SUFFICES ASSUME Finish(d) PROVE run'[d].at \in {"succeeded", "failed"}
        OBVIOUS
      <4>1. \/ run' = [run EXCEPT ![d].at = "succeeded"]
            \/ run' = [run EXCEPT ![d].at = "failed"]
        BY DEF Finish
      <4> QED
        BY <4>1, StepRun
    <3> QED
      BY <3>1, <3>2, <3>3
  <2> QED
    BY <2>1, <2>2, StepRun
<1>2. CASE CallFails(d) /\ ~BeginCopy(d)
  <2>1. run' = [run EXCEPT ![d].at = "compensating"] 
    BY <1>2 DEF CallFails
  <2>2. run'[d].at = "compensating"
    BY <2>1, StepRun
  <2>3. ~Finish(d)
    <3> SUFFICES ASSUME Finish(d) PROVE FALSE
      OBVIOUS
    <3>1. \/ run' = [run EXCEPT ![d].at = "succeeded"]
          \/ run' = [run EXCEPT ![d].at = "failed"]
      BY DEF Finish
    <3> QED
      BY <2>2, <3>1, StepRun
  <2> QED
    BY <1>2, <2>1, <2>2, <2>3, StepRun
<1>3. CASE Finish(d) /\ ~BeginCopy(d) /\ ~CallFails(d)
  <2>1. \/ /\ run[d].at = "executing" /\ run[d].todo = <<>>
           /\ run' = [run EXCEPT ![d].at = "succeeded"]
        \/ /\ run[d].at = "compensating" /\ run[d].copied = <<>>
           /\ run' = [run EXCEPT ![d].at = "failed"]
    BY <1>3 DEF Finish
  <2> QED
    BY <1>3, <2>1, StepRun
<1> QED
  BY <1>1, <1>2, <1>3

-----------------------------------------------------------------------------
(* Every step keeps the types                                               *)

(* What a script that writes to the folder is told to do is there.          *)
LEMMA NextTask ==
  ASSUME TypeOK, NEW d \in Deploys, run[d].todo # <<>>
  PROVE  /\ Next1(d) \in Tasks /\ Next1(d).file \in Artifacts
         /\ Next1(d) = run[d].todo[1] /\ 1 \in 1 .. Len(run[d].todo)
         /\ Next1(d).op = "copy" => Next1(d) = CopyOf(Next1(d).file)
<1>1. Next1(d) \in Tasks /\ Next1(d) = run[d].todo[1] /\ 1 \in 1 .. Len(run[d].todo)
  BY RunFields, HeadAndTail DEF Next1
<1> QED
  BY <1>1 DEF Tasks, CopyOf

(* The files and the counters                                               *)
LEMMA WorldTyped ==
  ASSUME TypeOK, \A d \in Deploys : TodoOk(d), Next
  PROVE  /\ repo' \in Checkouts
         /\ built' \in [Built -> Versions \cup {Absent, Broken}]
         /\ stray' \in BOOLEAN
         /\ vault' \in AllVaults
         /\ plugin' \in AllFolders
         /\ starts' \in 0 .. MaxStarts
         /\ faults' \in 0 .. MaxFaults
         /\ disturbed' \subseteq Deploys
<1>0. /\ repo \in Checkouts /\ built \in [Built -> Versions \cup {Absent, Broken}]
      /\ stray \in BOOLEAN /\ vault \in AllVaults /\ plugin \in AllFolders
      /\ starts \in 0 .. MaxStarts /\ faults \in 0 .. MaxFaults /\ disturbed \subseteq Deploys
  BY DEF TypeOK
<1>1. ASSUME NEW f \in Artifacts, NEW x \in Versions \cup {Absent, Broken}
      PROVE  [plugin EXCEPT ![f] = x] \in AllFolders
  BY <1>0 DEF AllFolders
<1>2. \A n \in 0 .. MaxFaults : n < MaxFaults => n + 1 \in 0 .. MaxFaults
  BY BoundsAreNaturals
<1>3. ASSUME NEW d \in Deploys, NEW o \in Invocations, Start(d, o)
      PROVE  /\ starts' \in 0 .. MaxStarts /\ disturbed' \subseteq Deploys
             /\ UNCHANGED <<repo, built, stray, vault, plugin, faults>>
  <2>1. starts < MaxStarts /\ starts' = starts + 1 /\ disturbed' = disturbed \ {d}
        /\ UNCHANGED <<repo, built, stray, vault, plugin, faults>>
    BY <1>3 DEF Start
  <2> QED
    BY <1>0, <2>1, BoundsAreNaturals
<1>4. ASSUME NEW d \in Deploys, EmptyOutput(d) \/ WriteOutput(d) \/ EndBuild(d)
      PROVE  /\ built' \in [Built -> Versions \cup {Absent, Broken}] /\ stray' \in BOOLEAN
             /\ faults' \in 0 .. MaxFaults /\ disturbed' \subseteq Deploys
             /\ UNCHANGED <<repo, vault, plugin, starts>>
  <2>1. repo.package.version \in Versions
    BY <1>0, CheckoutsAreCheckouts DEF AllCheckouts
  <2>2. CASE EmptyOutput(d)
    <3>1. /\ \E kept \in SUBSET Built :
                built' = [a \in Built |-> IF a \in kept THEN built[a] ELSE Absent]
          /\ stray' \in {FALSE, stray} /\ disturbed' = disturbed \cup (Deploys \ {d})
          /\ UNCHANGED <<repo, vault, plugin, faults, starts>>
      BY <2>2 DEF EmptyOutput, Disturb
    <3> QED
      BY <1>0, <3>1
  <2>3. CASE WriteOutput(d)
    <3>1. /\ \E a \in run[d].unwritten, v \in {Broken, repo.package.version} :
                built' = [built EXCEPT ![a] = v]
          /\ disturbed' = disturbed \cup (Deploys \ {d})
          /\ UNCHANGED <<repo, stray, vault, plugin, faults, starts>>
      BY <2>3 DEF WriteOutput, Disturb
    <3> QED
      BY <1>0, <2>1, <3>1
  <2>4. CASE EndBuild(d)
    <3>1. faults' = faults \/ (faults < MaxFaults /\ faults' = faults + 1)
      BY <2>4 DEF EndBuild
    <3>2. UNCHANGED <<repo, built, stray, vault, plugin, disturbed, starts>>
      BY <2>4 DEF EndBuild
    <3> QED
      BY <1>0, <1>2, <3>1, <3>2
  <2> QED
    BY <1>4, <2>2, <2>3, <2>4
<1>5. ASSUME NEW d \in Deploys, Validate(d) \/ MakePlan(d) \/ Finish(d)
      PROVE  UNCHANGED <<repo, built, stray, vault, plugin, faults, disturbed, starts>>
  BY <1>5 DEF Validate, MakePlan, Finish
<1>6. ASSUME NEW d \in Deploys, EnsureFolder(d)
      PROVE  /\ vault' \in AllVaults
             /\ UNCHANGED <<repo, built, stray, plugin, faults, disturbed, starts>>
  <2>1. /\ vault' = [vault EXCEPT !.obsidian = "folder"]
        /\ UNCHANGED <<repo, built, stray, plugin, faults, disturbed, starts>>
    BY <1>6 DEF EnsureFolder
  <2> QED
    BY <1>0, <2>1 DEF AllVaults
<1>7. ASSUME NEW d \in Deploys, Clean(d) \/ BeginCopy(d) \/ EndCopy(d)
      PROVE  /\ plugin' \in AllFolders /\ disturbed' \subseteq Deploys
             /\ UNCHANGED <<repo, built, stray, vault, faults, starts>>
  <2>1. /\ run[d].todo # <<>>
        /\ \E x \in {Absent, Broken, SourceOf(Next1(d).file)} :
              plugin' = [plugin EXCEPT ![Next1(d).file] = x]
        /\ disturbed' = disturbed \cup (Deploys \ {d})
        /\ UNCHANGED <<repo, built, stray, vault, faults, starts>>
    BY <1>7 DEF Clean, BeginCopy, EndCopy, Doing, Disturb, TodoOk
  <2>2. Next1(d).file \in Artifacts
    BY <2>1, NextTask
  <2>3. SourceOf(Next1(d).file) \in Versions \cup {Absent, Broken}
    BY <2>2, SourceType
  <2>4. plugin' \in AllFolders
    BY <1>1, <2>1, <2>2, <2>3
  <2> QED
    BY <1>0, <2>1, <2>4
<1>8. ASSUME NEW d \in Deploys, CallFails(d)
      PROVE  /\ plugin' \in AllFolders /\ disturbed' \subseteq Deploys
             /\ faults' \in 0 .. MaxFaults
             /\ UNCHANGED <<repo, built, stray, vault, starts>>
  <2>1. /\ run[d].todo # <<>>
        /\ plugin' \in {plugin, [plugin EXCEPT ![Next1(d).file] = SourceOf(Next1(d).file)]}
        /\ disturbed' = disturbed \cup (Deploys \ {d})
        /\ UNCHANGED <<repo, built, stray, vault, starts>>
    BY <1>8 DEF CallFails, Disturb
  <2>2. faults' = faults \/ (faults < MaxFaults /\ faults' = faults + 1)
    BY <1>8 DEF CallFails
  <2>3. Next1(d).file \in Artifacts
    BY <2>1, NextTask
  <2>4. SourceOf(Next1(d).file) \in Versions \cup {Absent, Broken}
    BY <2>3, SourceType
  <2> QED
    BY <1>0, <1>1, <1>2, <2>1, <2>2, <2>3, <2>4
<1>9. ASSUME NEW d \in Deploys, Compensate(d)
      PROVE  /\ plugin' \in AllFolders /\ disturbed' \subseteq Deploys
             /\ faults' \in 0 .. MaxFaults
             /\ UNCHANGED <<repo, built, stray, vault, starts>>
  <2>1. /\ run[d].copied # <<>>
        /\ plugin' \in {plugin, [plugin EXCEPT ![Head(run[d].copied)] = Absent]}
        /\ disturbed' = disturbed \cup (Deploys \ {d})
        /\ faults' = faults \/ (faults < MaxFaults /\ faults' = faults + 1)
        /\ UNCHANGED <<repo, built, stray, vault, starts>>
    BY <1>9 DEF Compensate, Disturb
  <2>2. Head(run[d].copied) \in Artifacts
    BY <2>1, RunFields, HeadAndTail
  <2> QED
    BY <1>0, <1>1, <1>2, <2>1, <2>2
<1>10. ASSUME NEW d \in Deploys, Exit(d)
       PROVE  /\ faults' \in 0 .. MaxFaults
              /\ UNCHANGED <<repo, built, stray, vault, plugin, disturbed, starts>>
  <2>1. faults' = faults \/ (faults < MaxFaults /\ faults' = faults + 1)
    BY <1>10 DEF Exit
  <2> QED
    BY <1>0, <1>2, <1>10, <2>1 DEF Exit
<1>11. ASSUME ChangeRepository
       PROVE  /\ repo' \in Checkouts /\ stray' \in BOOLEAN /\ disturbed' \subseteq Deploys
              /\ faults' \in 0 .. MaxFaults
              /\ UNCHANGED <<built, vault, plugin, starts>>
  BY <1>0, <1>2, <1>11 DEF ChangeRepository
<1>12. ASSUME RemoveInvalid
       PROVE  /\ plugin' \in AllFolders /\ disturbed' \subseteq Deploys
              /\ UNCHANGED <<repo, built, stray, vault, faults, starts>>
  BY <1>12 DEF RemoveInvalid, AllFolders
<1> QED
  BY <1>0, <1>3, <1>4, <1>5, <1>6, <1>7, <1>8, <1>9, <1>10, <1>11, <1>12 DEF Next

(* A run whose plan may be carried out.                                     *)
Approved(d) == run[d].plan.ready /\ ~run[d].opts.dryRun

(* The runs                                                                 *)
LEMMA RunsTyped ==
  ASSUME TypeOK, \A d \in Deploys : TodoOk(d), Next
  PROVE  /\ run' \in [Deploys -> RunStates]
         /\ \A d \in Deploys :
               run'[d].at \in {"executing", "copying", "compensating", "succeeded"}
                 => run'[d].plan.ready /\ ~run'[d].opts.dryRun
<1> DEFINE Wrote == {"executing", "copying", "compensating", "succeeded"}
           Typed == /\ run' \in [Deploys -> RunStates]
                    /\ \A d \in Deploys : run'[d].at \in Wrote
                                            => run'[d].plan.ready /\ ~run'[d].opts.dryRun
<1>0. run \in [Deploys -> RunStates] /\ \A d \in Deploys : run[d].at \in Wrote => Approved(d)
  BY DEF TypeOK, Approved
<1>1. ASSUME NEW d \in Deploys, Stays(d),
             run'[d].at \in Wrote => run'[d].plan.ready /\ ~run'[d].opts.dryRun
      PROVE  Typed
  BY <1>0, <1>1 DEF Stays, Approved
<1>2. ASSUME NEW d \in Deploys, Stays(d), Keeps(d), run[d].at \in Wrote
      PROVE  Typed
  <2>1. run[d].plan.ready /\ ~run[d].opts.dryRun
    BY <1>0, <1>2 DEF Approved
  <2>2. run'[d].plan.ready /\ ~run'[d].opts.dryRun
    BY <1>2, <2>1 DEF Keeps
  <2> QED
    BY <1>1, <1>2, <2>2
<1> HIDE DEF Typed
<1>3. ASSUME NEW d \in Deploys, NEW o \in Invocations, Start(d, o)
      PROVE  Typed
  BY <1>1, <1>3, StartRun
<1>4. ASSUME NEW d \in Deploys, EmptyOutput(d) \/ WriteOutput(d) \/ EndBuild(d)
      PROVE  Typed
  BY <1>1, <1>4, BuildRun
<1>5. ASSUME NEW d \in Deploys, Validate(d)
      PROVE  Typed
  BY <1>1, <1>5, ValidateRun
<1>6. ASSUME NEW d \in Deploys, MakePlan(d)
      PROVE  Typed
  BY <1>1, <1>6, MakePlanRun
<1>7. ASSUME NEW d \in Deploys, EnsureFolder(d) \/ Clean(d)
      PROVE  Typed
  <2>1. run[d].at = "executing" /\ run[d].todo # <<>> /\ run' = [run EXCEPT ![d].todo = Tail(@)]
    BY <1>7 DEF EnsureFolder, Clean, Doing
  <2> QED
    BY <1>2, <2>1, TaskRun
<1>8. ASSUME NEW d \in Deploys, EndCopy(d)
      PROVE  Typed
  <2>1. run[d].at = "copying" /\ run[d].todo # <<>>
    BY <1>8 DEF EndCopy, TodoOk
  <2> QED
    BY <1>2, <1>8, <2>1, EndCopyRun
<1>9. ASSUME NEW d \in Deploys, BeginCopy(d) \/ CallFails(d) \/ Finish(d)
      PROVE  Typed
  <2>1. run[d].at \in Wrote
    BY <1>9 DEF BeginCopy, CallFails, Finish, Doing
  <2> QED
    BY <1>2, <1>9, <2>1, OnlyStepRun
<1>10. ASSUME NEW d \in Deploys, Compensate(d)
       PROVE  Typed
  <2>1. run[d].at \in Wrote
    BY <1>10 DEF Compensate
  <2> QED
    BY <1>2, <1>10, <2>1, CompensateRun
<1>11. ASSUME NEW d \in Deploys, Exit(d)
       PROVE  Typed
  BY <1>1, <1>11, ExitRun
<1>12. ASSUME UNCHANGED run
       PROVE  Typed
  BY <1>0, <1>12 DEF Typed, Approved
<1>13. ChangeRepository \/ RemoveInvalid => UNCHANGED run
  BY DEF ChangeRepository, RemoveInvalid
<1>14. Typed
  BY <1>3, <1>4, <1>5, <1>6, <1>7, <1>8, <1>9, <1>10, <1>11, <1>12, <1>13 DEF Next
<1> QED
  BY <1>14 DEF Typed

LEMMA TypeStep ==
  ASSUME TypeOK, \A d \in Deploys : TodoOk(d), [Next]_vars
  PROVE  TypeOK'
<1>1. CASE Next
  BY <1>1, WorldTyped, RunsTyped DEF TypeOK
<1>2. CASE UNCHANGED vars
  BY <1>2 DEF vars, TypeOK
<1> QED
  BY <1>1, <1>2

-----------------------------------------------------------------------------
(* What is to be done stays in order                                        *)

(* The head of what is to be done is done.                                  *)
LEMMA TailDue ==
  ASSUME TypeOK, NEW d \in Deploys, TodoOk(d), run[d].todo # <<>>,
         run'[d].todo = Tail(run[d].todo), run'[d].at = "executing"
  PROVE  /\ TodoOk(d)'
         /\ \A a \in Artifacts : CopyDue(d, a) /\ Next1(d) # CopyOf(a) => CopyDue(d, a)'
         /\ \A a \in Artifacts : CopyDue(d, a)' => CopyDue(d, a)
<1> DEFINE todo == run[d].todo
           rest == run'[d].todo
<1>1. /\ Len(todo) \in Nat /\ Len(todo) >= 1 /\ Len(rest) = Len(todo) - 1
      /\ \A i \in 1 .. Len(todo) - 1 : rest[i] = todo[i + 1]
      /\ Next1(d) = todo[1]
  BY RunFields, HeadAndTail DEF Next1
<1>2. /\ \A i, j \in 1 .. Len(todo) : i < j /\ todo[i].op = "copy" => todo[j].op = "copy"
      /\ (\E i \in 1 .. Len(todo) : todo[i].op # "copy")
            => \A a \in Artifacts : \E i \in 1 .. Len(todo) : todo[i] = CopyOf(a)
  BY DEF TodoOk, CopyDue
<1> HIDE DEF todo, rest
<1>3. \A a \in Artifacts : CopyOf(a).op = "copy"
  BY DEF CopyOf
<1>4. \A i \in 1 .. Len(rest) : i \in 1 .. Len(todo) - 1 /\ i + 1 \in 1 .. Len(todo) /\ rest[i] = todo[i + 1]
  BY <1>1
<1>5. \A i, j \in 1 .. Len(rest) : i < j /\ rest[i].op = "copy" => rest[j].op = "copy"
  <2> SUFFICES ASSUME NEW i \in 1 .. Len(rest), NEW j \in 1 .. Len(rest), i < j, rest[i].op = "copy"
               PROVE  rest[j].op = "copy"
    OBVIOUS
  <2>1. /\ i + 1 \in 1 .. Len(todo) /\ j + 1 \in 1 .. Len(todo) /\ i + 1 < j + 1
        /\ rest[i] = todo[i + 1] /\ rest[j] = todo[j + 1]
    BY <1>1, <1>4
  <2> QED
    BY <1>2, <2>1
<1>6. ASSUME NEW a \in Artifacts, NEW i \in 1 .. Len(todo), todo[i] = CopyOf(a), todo[1] # CopyOf(a)
      PROVE  \E j \in 1 .. Len(rest) : rest[j] = CopyOf(a)
  <2>1. i - 1 \in 1 .. Len(rest) /\ (i - 1) + 1 = i
    BY <1>1, <1>6
  <2>2. rest[i - 1] = CopyOf(a)
    BY <1>4, <1>6, <2>1
  <2> QED
    BY <2>1, <2>2
<1>7. ASSUME NEW i \in 1 .. Len(rest), rest[i].op # "copy", NEW a \in Artifacts
      PROVE  \E j \in 1 .. Len(rest) : rest[j] = CopyOf(a)
  <2>1. i + 1 \in 1 .. Len(todo) /\ todo[i + 1].op # "copy" /\ 1 \in 1 .. Len(todo) /\ 1 < i + 1
    BY <1>1, <1>4, <1>7
  <2>2. todo[1].op # "copy"
    BY <1>2, <2>1
  <2>3. PICK k \in 1 .. Len(todo) : todo[k] = CopyOf(a)
    BY <1>2, <2>1
  <2>4. todo[1] # CopyOf(a)
    BY <1>3, <2>2
  <2> QED
    BY <1>6, <2>3, <2>4
<1>8. TodoOk(d)'
  <2>1. run'[d].at # "copying"
    OBVIOUS
  <2> QED
    BY <1>5, <1>7, <2>1 DEF TodoOk, CopyDue, rest
<1>9. \A a \in Artifacts : CopyDue(d, a) /\ Next1(d) # CopyOf(a) => CopyDue(d, a)'
  BY <1>1, <1>6 DEF CopyDue, todo, rest
<1>10. \A a \in Artifacts : CopyDue(d, a)' => CopyDue(d, a)
  BY <1>4 DEF CopyDue, todo, rest
<1> QED
  BY <1>8, <1>9, <1>10

(* Nothing is to be done.                                                   *)
LEMMA NothingDue ==
  ASSUME NEW d \in Deploys, run'[d].todo = <<>>, run'[d].at # "copying"
  PROVE  TodoOk(d)'
<1>1. Len(run'[d].todo) = 0
  BY EmptySeq
<1>2. 1 .. Len(run'[d].todo) = {}
  BY <1>1
<1> QED
  BY <1>2 DEF TodoOk

(* What is to be done stays the same.                                       *)
LEMMA SameDue ==
  ASSUME NEW d \in Deploys, TodoOk(d), run'[d].todo = run[d].todo,
         run'[d].at = "copying" => \/ run[d].at = "copying"
                                   \/ run[d].todo # <<>> /\ Next1(d).op = "copy"
  PROVE  /\ TodoOk(d)'
         /\ \A a \in Artifacts : CopyDue(d, a)' <=> CopyDue(d, a)
<1>1. \A a \in Artifacts : CopyDue(d, a)' <=> CopyDue(d, a)
  BY DEF CopyDue
<1> QED
  BY <1>1 DEF TodoOk, CopyDue, Next1

(* A step leaves the other runs as they are.                                *)
LEMMA OthersStay ==
  ASSUME NEW d \in Deploys, Stays(d), NEW e \in Deploys \ {d}
  PROVE  /\ run'[e] = run[e]
         /\ TodoOk(e) => TodoOk(e)'
         /\ RunOk(e) => RunOk(e)'
         /\ \A a \in Artifacts : CopyDue(e, a)' <=> CopyDue(e, a)
BY DEF Stays, TodoOk, RunOk, CopyDue, Next1

(* The head of what is to be done is no copy: all copies are due.           *)
LEMMA AllDue ==
  ASSUME TypeOK, NEW d \in Deploys, TodoOk(d), run[d].todo # <<>>, Next1(d).op # "copy"
  PROVE  \A a \in Artifacts : CopyDue(d, a) /\ Next1(d) # CopyOf(a)
<1>1. 1 \in 1 .. Len(run[d].todo) /\ run[d].todo[1].op # "copy"
  BY NextTask
<1>2. \A a \in Artifacts : CopyDue(d, a)
  BY <1>1 DEF TodoOk
<1> QED
  BY <1>2 DEF CopyOf

(* What is to be done by any run is in order after any step.                *)
LEMMA TodoStep ==
  ASSUME TypeOK, \A e \in Deploys : TodoOk(e), [Next]_vars
  PROVE  \A e \in Deploys : TodoOk(e)'
<1> DEFINE Done == \A e \in Deploys : TodoOk(e)'
<1>1. ASSUME NEW d \in Deploys, Stays(d), TodoOk(d)'
      PROVE  Done
  BY <1>1, OthersStay
<1>2. ASSUME UNCHANGED run
      PROVE  Done
  BY <1>2 DEF TodoOk, CopyDue, Next1
<1> HIDE DEF Done
<1>3. ASSUME NEW d \in Deploys, NEW o \in Invocations, Start(d, o)
      PROVE  Done
  BY <1>1, <1>3, StartRun, NothingDue
<1>4. ASSUME NEW d \in Deploys, EmptyOutput(d) \/ WriteOutput(d) \/ EndBuild(d)
      PROVE  Done
  BY <1>1, <1>4, BuildRun, SameDue
<1>5. ASSUME NEW d \in Deploys, Validate(d)
      PROVE  Done
  BY <1>1, <1>5, ValidateRun, SameDue
<1>6. ASSUME NEW d \in Deploys, MakePlan(d)
      PROVE  Done
  <2>1. /\ Stays(d) /\ run'[d].at # "copying"
        /\ run'[d].todo = <<>> \/ run'[d].todo = Todo(run[d].opts)
    BY <1>6, MakePlanRun
  <2>2. CASE run'[d].todo = <<>>
    BY <1>1, <2>1, <2>2, NothingDue
  <2>3. CASE run'[d].todo = Todo(run[d].opts)
    <3>1. TodoOk(d)'
      BY <2>1, <2>3, TodoInOrder DEF TodoOk, CopyDue
    <3> QED
      BY <1>1, <2>1, <3>1
  <2> QED
    BY <2>1, <2>2, <2>3
<1>7. ASSUME NEW d \in Deploys, EnsureFolder(d) \/ Clean(d)
      PROVE  Done
  <2>1. run[d].at = "executing" /\ run[d].todo # <<>> /\ run' = [run EXCEPT ![d].todo = Tail(@)]
    BY <1>7 DEF EnsureFolder, Clean, Doing
  <2> QED
    BY <1>1, <2>1, TaskRun, TailDue
<1>8. ASSUME NEW d \in Deploys, EndCopy(d)
      PROVE  Done
  <2>1. run[d].todo # <<>>
    BY <1>8 DEF EndCopy, TodoOk
  <2> QED
    BY <1>1, <1>8, <2>1, EndCopyRun, TailDue
<1>9. ASSUME NEW d \in Deploys, BeginCopy(d) \/ CallFails(d) \/ Finish(d)
      PROVE  Done
  <2>1. BeginCopy(d) => run[d].todo # <<>> /\ Next1(d).op = "copy"
    BY DEF BeginCopy, Doing
  <2> QED
    BY <1>1, <1>9, <2>1, OnlyStepRun, SameDue
<1>10. ASSUME NEW d \in Deploys, Compensate(d)
       PROVE  Done
  BY <1>1, <1>10, CompensateRun, SameDue
<1>11. ASSUME NEW d \in Deploys, Exit(d)
       PROVE  Done
  BY <1>1, <1>11, ExitRun, NothingDue
<1>12. ChangeRepository \/ RemoveInvalid \/ UNCHANGED vars => UNCHANGED run
  BY DEF ChangeRepository, RemoveInvalid, vars
<1>13. Done
  BY <1>2, <1>3, <1>4, <1>5, <1>6, <1>7, <1>8, <1>9, <1>10, <1>11, <1>12 DEF Next
<1> QED
  BY <1>13 DEF Done

-----------------------------------------------------------------------------
(* What a run knows by its step                                             *)

(* A run at work that keeps what it knows goes on, succeeds or fails.       *)
LEMMA WorkGoesOn ==
  ASSUME NEW d \in Deploys, RunOk(d), Keeps(d), run[d].at \in AtWork,
         run'[d].at \in AtWork \cup {"succeeded", "failed"},
         run'[d].at = "failed" => run'[d].copied = <<>>,
         run'[d].at = "succeeded" => run'[d].todo = <<>>
  PROVE  RunOk(d)'
BY DEF RunOk, Keeps, Before, AtWork, Installing

LEMMA RunStep ==
  ASSUME TypeOK, \A e \in Deploys : TodoOk(e) /\ RunOk(e), [Next]_vars
  PROVE  \A e \in Deploys : RunOk(e)'
<1> DEFINE Done == \A e \in Deploys : RunOk(e)'
<1>1. ASSUME NEW d \in Deploys, Stays(d), RunOk(d)'
      PROVE  Done
  BY <1>1, OthersStay
<1>2. ASSUME UNCHANGED run
      PROVE  Done
  BY <1>2 DEF RunOk
<1> HIDE DEF Done
<1>3. ASSUME NEW d \in Deploys, NEW o \in Invocations, Start(d, o)
      PROVE  Done
  <2>1. RunOk(d)'
    BY <1>3, StartRun DEF RunOk, Before, AtWork, Installing
  <2> QED
    BY <1>1, <1>3, <2>1, StartRun
<1>4. ASSUME NEW d \in Deploys, EmptyOutput(d) \/ WriteOutput(d) \/ EndBuild(d)
      PROVE  Done
  <2>1. /\ Stays(d) /\ Keeps(d) /\ run'[d].copied = run[d].copied
        /\ run[d].at \in {"building", "bundling"}
        /\ run'[d].at \in {"building", "bundling", "validating", "failed"}
    BY <1>4, BuildRun
  <2>2. RunOk(d)'
    BY <2>1 DEF RunOk, Before, AtWork, Installing, Keeps
  <2> QED
    BY <1>1, <2>1, <2>2
<1>5. ASSUME NEW d \in Deploys, Validate(d)
      PROVE  Done
  <2>1. run[d].at = "validating"
    BY <1>5 DEF Validate
  <2>2. RunOk(d)'
    BY <1>5, <2>1, ValidateRun DEF RunOk, Before, AtWork, Installing
  <2> QED
    BY <1>1, <1>5, <2>2, ValidateRun
<1>6. ASSUME NEW d \in Deploys, MakePlan(d)
      PROVE  Done
  <2> DEFINE plan == PlanOf(run[d].release, VaultPath(run[d].opts), run[d].opts)
  <2>1. /\ Stays(d)
        /\ run'[d].opts = run[d].opts /\ run'[d].release = run[d].release
        /\ run'[d].plan = plan /\ run'[d].before = plugin
        /\ run'[d].copied = run[d].copied
        /\ run'[d].at \in {"failed", "previewed", "executing"}
        /\ run'[d].at = "executing" => plan.ready
    BY <1>6, MakePlanRun
  <2>2. run[d].at = "planning"
    BY <1>6 DEF MakePlan
  <2>3. run'[d].copied = <<>>
    BY <2>1, <2>2 DEF RunOk, Before
  <2>4. run[d].release.incoming \in Versions \cup {Absent}
    BY RunFields DEF Releases
  <2>5. ASSUME run'[d].at = "executing"
        PROVE  /\ run[d].release.ok
               /\ plan.incoming = run[d].release.incoming
               /\ Judged(plugin["manifest.json"], run[d].release.incoming, run[d].opts)
    BY <2>1, <2>4, <2>5, PlanJudges
  <2> HIDE DEF plan
  <2>6. RunOk(d)'
    BY <2>1, <2>3, <2>5 DEF RunOk, Before, AtWork, Installing
  <2> QED
    BY <1>1, <2>1, <2>6
<1>7. ASSUME NEW d \in Deploys, EnsureFolder(d) \/ Clean(d)
      PROVE  Done
  <2>1. run[d].at = "executing" /\ run[d].todo # <<>> /\ run' = [run EXCEPT ![d].todo = Tail(@)]
    BY <1>7 DEF EnsureFolder, Clean, Doing
  <2>2. Stays(d) /\ Keeps(d) /\ run'[d].at = "executing"
    BY <2>1, TaskRun
  <2> QED
    BY <1>1, <2>1, <2>2, WorkGoesOn DEF AtWork, Installing
<1>8. ASSUME NEW d \in Deploys, EndCopy(d)
      PROVE  Done
  <2>1. run[d].todo # <<>> /\ run[d].at = "copying"
    BY <1>8 DEF EndCopy, TodoOk
  <2>2. Stays(d) /\ Keeps(d) /\ run'[d].at = "executing"
    BY <1>8, <2>1, EndCopyRun
  <2> QED
    BY <1>1, <2>1, <2>2, WorkGoesOn DEF AtWork, Installing
<1>9. ASSUME NEW d \in Deploys, BeginCopy(d) \/ CallFails(d) \/ Finish(d)
      PROVE  Done
  <2>1. run[d].at \in AtWork
    BY <1>9 DEF BeginCopy, CallFails, Finish, Doing, AtWork, Installing
  <2>2. /\ Stays(d) /\ Keeps(d)
        /\ run'[d].at \in AtWork \cup {"succeeded", "failed"}
        /\ run'[d].at = "failed" => run'[d].copied = <<>>
        /\ run'[d].at = "succeeded" => run'[d].todo = <<>>
    BY <1>9, OnlyStepRun DEF AtWork, Installing
  <2> QED
    BY <1>1, <2>1, <2>2, WorkGoesOn
<1>10. ASSUME NEW d \in Deploys, Compensate(d)
       PROVE  Done
  <2>1. run[d].at = "compensating"
    BY <1>10 DEF Compensate
  <2>2. Stays(d) /\ Keeps(d) /\ run'[d].at = "compensating"
    BY <1>10, CompensateRun
  <2> QED
    BY <1>1, <2>1, <2>2, WorkGoesOn DEF AtWork
<1>11. ASSUME NEW d \in Deploys, Exit(d)
       PROVE  Done
  <2>1. RunOk(d)'
    BY <1>11, ExitRun DEF RunOk, Before, AtWork, Installing
  <2> QED
    BY <1>1, <1>11, <2>1, ExitRun
<1>12. ChangeRepository \/ RemoveInvalid \/ UNCHANGED vars => UNCHANGED run
  BY DEF ChangeRepository, RemoveInvalid, vars
<1>13. Done
  BY <1>2, <1>3, <1>4, <1>5, <1>6, <1>7, <1>8, <1>9, <1>10, <1>11, <1>12 DEF Next
<1> QED
  BY <1>13 DEF Done

-----------------------------------------------------------------------------
(* What an undisturbed run has read, built and copied                       *)

(* Copies and releases are read from the repository and the bundle alone.   *)
LEMMA SameFiles ==
  ASSUME UNCHANGED <<repo, built>>
  PROVE  /\ \A a : SourceOf(a)' = SourceOf(a)
         /\ stray' = stray => Release' = Release
<1>1. repo' = repo /\ built' = built
  OBVIOUS
<1>2. \A a : SourceOf(a)' = SourceOf(a)
  BY <1>1 DEF SourceOf
<1>3. stray' = stray => Release' = Release
  BY <1>1 DEF Release, ReleaseIssues, MetadataIssues, ArtifactIssues, AlignmentIssues, Unread,
              Malformed, VersionsKnown, MinAppOf, Present
<1> QED
  BY <1>2, <1>3

LEMMA SettledSame ==
  ASSUME NEW d \in Deploys, Settled(d), run'[d] = run[d], UNCHANGED <<repo, built, stray, plugin>>
  PROVE  Settled(d)'
<1>1. (\A a : SourceOf(a)' = SourceOf(a)) /\ Release' = Release
  BY SameFiles
<1>2. \A a : CopyDue(d, a)' <=> CopyDue(d, a)
  BY DEF CopyDue
<1> QED
  BY <1>1, <1>2 DEF Settled, Next1

(* A run at work leaves the release and the bundle alone: what is left to   *)
(* prove is about the plugin folder.                                        *)
Unchanged1(d, a) ==
    \/ plugin[a] \in {run[d].before[a], Absent}
    \/ a \in run[d].stuck
    \/ \E i \in 1 .. Len(run[d].copied) : run[d].copied[i] = a
    \/ run[d].at # "executing" /\ run[d].todo # <<>> /\ Next1(d).file = a

LEMMA SettledAtWork ==
  ASSUME NEW d \in Deploys, Settled(d), Keeps(d), UNCHANGED <<repo, built, stray>>,
         run[d].at \in AtWork, run'[d].at \in AtWork \cup {"succeeded", "failed"},
         run'[d].at \in Installing \cup {"succeeded"} =>
            \A a \in Artifacts : plugin'[a] = SourceOf(a) \/ CopyDue(d, a)',
         run'[d].at \in AtWork \cup {"failed"} /\ run[d].plan.ready =>
            \A a \in Artifacts : Unchanged1(d, a)'
  PROVE  Settled(d)'
<1>1. (\A a : SourceOf(a)' = SourceOf(a)) /\ Release' = Release
  BY SameFiles
<1>2. run'[d].release = Release'
  BY <1>1 DEF Settled, Keeps
<1>3. ~run'[d].opts.skipBuild /\ ~run'[d].opts.dryRun => \A a \in Built : built'[a] = repo'.package.version
  BY DEF Settled, Keeps
<1>4. run'[d].at \in Installing \cup {"succeeded"} =>
            \A a \in Artifacts : plugin'[a] = SourceOf(a)' \/ CopyDue(d, a)'
  BY <1>1
<1>5. run'[d].at \in AtWork \cup {"failed"} /\ run'[d].plan.ready =>
            \A a \in Artifacts : Unchanged1(d, a)'
  BY DEF Keeps
<1>6. run'[d].at # "bundling"
  BY DEF AtWork, Installing
<1> QED
  BY <1>2, <1>3, <1>4, <1>5, <1>6 DEF Settled, Unchanged1

(* What Settled says of the folder while the run is at work.                *)
LEMMA SettledFolder ==
  ASSUME TypeOK, NEW d \in Deploys, Settled(d), run[d].at \in AtWork
  PROVE  /\ run[d].at \in Installing => \A a \in Artifacts : plugin[a] = SourceOf(a) \/ CopyDue(d, a)
         /\ run[d].plan.ready
         /\ \A a \in Artifacts : Unchanged1(d, a)
<1>1. run[d].plan.ready
  BY DEF TypeOK, AtWork, Installing
<1> QED
  BY <1>1 DEF Settled, Unchanged1

LEMMA SettledTasks ==
  ASSUME TypeOK, NEW d \in Deploys, TodoOk(d), Settled(d),
         EnsureFolder(d) \/ Clean(d) \/ BeginCopy(d) \/ EndCopy(d)
  PROVE  Settled(d)'
<1>1. /\ UNCHANGED <<repo, built, stray>>
      /\ run[d].todo # <<>>
      /\ run[d].at \in AtWork /\ run[d].at \in Installing
  BY DEF EnsureFolder, Clean, BeginCopy, EndCopy, Doing, TodoOk, AtWork, Installing
<1>2. /\ \A a \in Artifacts : plugin[a] = SourceOf(a) \/ CopyDue(d, a)
      /\ \A a \in Artifacts : Unchanged1(d, a)
      /\ run[d].plan.ready
  BY <1>1, SettledFolder
<1>0. plugin \in AllFolders
  BY DEF TypeOK
<1>3. PICK f \in Artifacts : f = Next1(d).file
  BY <1>1, NextTask
<1>4. CASE EnsureFolder(d)
  <2>1. /\ run[d].at = "executing" /\ Next1(d).op # "copy" /\ run' = [run EXCEPT ![d].todo = Tail(@)]
        /\ plugin' = plugin
    BY <1>4 DEF EnsureFolder, Doing
  <2>2. /\ Keeps(d) /\ run'[d].at = "executing" /\ run'[d].todo = Tail(run[d].todo)
        /\ run'[d].copied = run[d].copied /\ run'[d].stuck = run[d].stuck
    BY <1>1, <2>1, TaskRun
  <2>3. \A a \in Artifacts : CopyDue(d, a)'
    BY <1>1, <2>1, <2>2, AllDue, TailDue
  <2>4. \A a \in Artifacts : Unchanged1(d, a)'
    BY <1>2, <2>1, <2>2 DEF Unchanged1, Keeps
  <2> QED
    BY <1>1, <2>2, <2>3, <2>4, SettledAtWork DEF AtWork, Installing
<1>5. CASE Clean(d)
  <2>1. /\ run[d].at = "executing" /\ Next1(d).op # "copy" /\ run' = [run EXCEPT ![d].todo = Tail(@)]
        /\ plugin' = [plugin EXCEPT ![f] = Absent]
    BY <1>3, <1>5 DEF Clean, Doing
  <2>2. /\ Keeps(d) /\ run'[d].at = "executing" /\ run'[d].todo = Tail(run[d].todo)
        /\ run'[d].copied = run[d].copied /\ run'[d].stuck = run[d].stuck
    BY <1>1, <2>1, TaskRun
  <2>3. \A a \in Artifacts : CopyDue(d, a)'
    BY <1>1, <2>1, <2>2, AllDue, TailDue
  <2>4. \A a \in Artifacts : plugin'[a] = Absent \/ plugin'[a] = plugin[a]
    BY <1>0, <1>3, <2>1 DEF AllFolders
  <2>5. \A a \in Artifacts : Unchanged1(d, a)'
    BY <1>2, <2>1, <2>2, <2>4 DEF Unchanged1, Keeps
  <2> QED
    BY <1>1, <2>2, <2>3, <2>5, SettledAtWork DEF AtWork, Installing
<1>6. CASE BeginCopy(d)
  <2>1. /\ run[d].at = "executing" /\ Next1(d).op = "copy"
        /\ plugin' = [plugin EXCEPT ![f] = Broken]
    BY <1>3, <1>6 DEF BeginCopy, Doing
  <2>2. /\ Keeps(d) /\ run'[d].at = "copying" /\ run'[d].todo = run[d].todo
        /\ run'[d].copied = run[d].copied /\ run'[d].stuck = run[d].stuck
    BY <1>6, OnlyStepRun
  <2>3. CopyDue(d, f)
    BY <1>1, <1>3, <2>1, NextTask DEF CopyDue
  <2>4. \A a \in Artifacts \ {f} : plugin'[a] = plugin[a]
    BY <1>0, <1>3, <2>1 DEF AllFolders
  <2>5. \A a \in Artifacts : CopyDue(d, a)' <=> CopyDue(d, a)
    BY <2>2 DEF CopyDue
  <2>6. \A a \in Artifacts : plugin'[a] = SourceOf(a) \/ CopyDue(d, a)'
    BY <1>2, <2>3, <2>4, <2>5
  <2>7. Next1(d)' = Next1(d)
    BY <2>2 DEF Next1
  <2>8. ASSUME NEW a \in Artifacts \ {f}
        PROVE  Unchanged1(d, a)'
    <3>1. \/ plugin[a] \in {run[d].before[a], Absent}
          \/ a \in run[d].stuck
          \/ \E i \in 1 .. Len(run[d].copied) : run[d].copied[i] = a
      BY <1>2, <1>3, <2>1 DEF Unchanged1
    <3> QED
      BY <2>2, <2>4, <3>1 DEF Unchanged1, Keeps
  <2>9. Unchanged1(d, f)'
    BY <1>1, <1>3, <2>2, <2>7 DEF Unchanged1
  <2>10. \A a \in Artifacts : Unchanged1(d, a)'
    BY <2>8, <2>9
  <2> QED
    BY <1>1, <2>2, <2>6, <2>10, SettledAtWork DEF AtWork, Installing
<1>7. CASE EndCopy(d)
  <2>1. /\ run[d].at = "copying" /\ Next1(d).op = "copy"
        /\ plugin' = [plugin EXCEPT ![f] = SourceOf(f)]
    BY <1>3, <1>7 DEF EndCopy, TodoOk
  <2>2. /\ Keeps(d) /\ run'[d].at = "executing" /\ run'[d].todo = Tail(run[d].todo)
        /\ run'[d].copied = <<f>> \o run[d].copied /\ run'[d].stuck = run[d].stuck
    BY <1>1, <1>3, <1>7, EndCopyRun
  <2>3. \A a \in Artifacts \ {f} : plugin'[a] = plugin[a] /\ Next1(d) # CopyOf(a)
    BY <1>0, <1>3, <2>1 DEF AllFolders, CopyOf
  <2>4. \A a \in Artifacts : CopyDue(d, a) /\ Next1(d) # CopyOf(a) => CopyDue(d, a)'
    BY <1>1, <2>2, TailDue
  <2>5. plugin'[f] = SourceOf(f)
    BY <1>0, <1>3, <2>1 DEF AllFolders
  <2>6. \A a \in Artifacts : plugin'[a] = SourceOf(a) \/ CopyDue(d, a)'
    BY <1>2, <2>3, <2>4, <2>5
  <2>7. /\ Len(run'[d].copied) = Len(run[d].copied) + 1 /\ Len(run[d].copied) \in Nat
        /\ run'[d].copied[1] = f
        /\ \A i \in 1 .. Len(run[d].copied) : run'[d].copied[i + 1] = run[d].copied[i]
    <3>1. run[d].copied \in Seq(Artifacts) /\ <<f>> \in Seq(Artifacts) /\ Len(<<f>>) = 1 /\ <<f>>[1] = f
      BY <1>3, RunFields
    <3>2. Len(run[d].copied) \in Nat
      BY <3>1
    <3>3. /\ Len(<<f>> \o run[d].copied) = Len(<<f>>) + Len(run[d].copied)
          /\ \A i \in 1 .. Len(<<f>>) + Len(run[d].copied) :
                (<<f>> \o run[d].copied)[i] =
                   IF i <= Len(<<f>>) THEN <<f>>[i] ELSE run[d].copied[i - Len(<<f>>)]
      BY <3>1, ConcatProperties
    <3> QED
      BY <2>2, <3>1, <3>2, <3>3
  <2>8. \A a \in Artifacts : (\E i \in 1 .. Len(run[d].copied) : run[d].copied[i] = a)
                               => \E i \in 1 .. Len(run'[d].copied) : run'[d].copied[i] = a
    <3>1. \A i \in 1 .. Len(run[d].copied) : i + 1 \in 1 .. Len(run'[d].copied)
      BY <2>7
    <3> QED
      BY <2>7, <3>1
  <2>9. ASSUME NEW a \in Artifacts \ {f}
        PROVE  Unchanged1(d, a)'
    <3>1. \/ plugin[a] \in {run[d].before[a], Absent}
          \/ a \in run[d].stuck
          \/ \E i \in 1 .. Len(run[d].copied) : run[d].copied[i] = a
      BY <1>2, <1>3 DEF Unchanged1
    <3> QED
      BY <2>2, <2>3, <2>8, <3>1 DEF Unchanged1, Keeps
  <2>10. Unchanged1(d, f)'
    <3>1. 1 \in 1 .. Len(run'[d].copied)
      BY <2>7
    <3> QED
      BY <2>7, <3>1 DEF Unchanged1
  <2>11. \A a \in Artifacts : Unchanged1(d, a)'
    BY <2>9, <2>10
  <2> QED
    BY <1>1, <2>2, <2>6, <2>11, SettledAtWork DEF AtWork, Installing
<1> QED
  BY <1>4, <1>5, <1>6, <1>7

LEMMA SettledEnds ==
  ASSUME TypeOK, NEW d \in Deploys, Settled(d), CallFails(d) \/ Compensate(d) \/ Finish(d)
  PROVE  Settled(d)'
<1>1. /\ UNCHANGED <<repo, built, stray>>
      /\ run[d].at \in AtWork
  BY DEF CallFails, Compensate, Finish, AtWork, Installing
<1>2. /\ run[d].at \in Installing => \A a \in Artifacts : plugin[a] = SourceOf(a) \/ CopyDue(d, a)
      /\ \A a \in Artifacts : Unchanged1(d, a)
      /\ run[d].plan.ready
  BY <1>1, SettledFolder
<1>3. plugin \in AllFolders
  BY DEF TypeOK
<1>4. CASE CallFails(d)
  <2>1. /\ Keeps(d) /\ run'[d].at = "compensating" /\ run'[d].todo = run[d].todo
        /\ run'[d].copied = run[d].copied /\ run'[d].stuck = run[d].stuck
    BY <1>4, OnlyStepRun
  <2>2. run[d].todo # <<>>
    BY <1>4 DEF CallFails
  <2>3. PICK f \in Artifacts : f = Next1(d).file
    BY <2>2, NextTask
  <2>4. plugin' = plugin \/ (run[d].at = "copying" /\ plugin' = [plugin EXCEPT ![f] = SourceOf(f)])
    BY <1>4, <2>3 DEF CallFails
  <2>5. \A a \in Artifacts \ {f} : plugin'[a] = plugin[a]
    BY <1>3, <2>4 DEF AllFolders
  <2>6. ASSUME NEW a \in Artifacts \ {f}
        PROVE  Unchanged1(d, a)'
    <3>1. \/ plugin[a] \in {run[d].before[a], Absent}
          \/ a \in run[d].stuck
          \/ \E i \in 1 .. Len(run[d].copied) : run[d].copied[i] = a
      BY <1>2, <2>3 DEF Unchanged1
    <3> QED
      BY <2>1, <2>5, <3>1 DEF Unchanged1, Keeps
  <2>7. Unchanged1(d, f)'
    <3>1. Next1(d)' = Next1(d)
      BY <2>1 DEF Next1
    <3> QED
      BY <2>1, <2>2, <2>3, <3>1 DEF Unchanged1
  <2>8. \A a \in Artifacts : Unchanged1(d, a)'
    BY <2>6, <2>7
  <2>9. run'[d].at \notin Installing \cup {"succeeded"} /\ run'[d].at \in AtWork
    BY <2>1 DEF AtWork, Installing
  <2> QED
    BY <1>1, <2>1, <2>8, <2>9, SettledAtWork
<1>5. CASE Compensate(d)
  <2>1. /\ Keeps(d) /\ run'[d].at = "compensating" /\ run'[d].todo = run[d].todo
        /\ run'[d].copied = Tail(run[d].copied)
        /\ \/ /\ run'[d].stuck = run[d].stuck
              /\ plugin' = [plugin EXCEPT ![Head(run[d].copied)] = Absent]
           \/ /\ run'[d].stuck = run[d].stuck \cup {Head(run[d].copied)}
              /\ plugin' = plugin
    BY <1>5, CompensateRun
  <2>2. run[d].copied # <<>> /\ run[d].at = "compensating"
    BY <1>5 DEF Compensate
  <2>3. PICK h \in Artifacts : h = Head(run[d].copied)
    BY <2>2, RunFields, HeadAndTail
  <2>4. /\ Len(run[d].copied) \in Nat /\ Len(Tail(run[d].copied)) = Len(run[d].copied) - 1
        /\ run[d].copied[1] = h
        /\ \A i \in 1 .. Len(run[d].copied) - 1 : Tail(run[d].copied)[i] = run[d].copied[i + 1]
    BY <2>2, <2>3, RunFields, HeadAndTail
  <2>5. \A a \in Artifacts : plugin'[a] \in {plugin[a], Absent}
    BY <1>3, <2>1, <2>3 DEF AllFolders
  <2>6. plugin'[h] = Absent \/ h \in run'[d].stuck
    BY <1>3, <2>1, <2>3 DEF AllFolders
  <2>7. run[d].stuck \subseteq run'[d].stuck
    BY <2>1
  <2>8. Unchanged1(d, h)'
    BY <2>6 DEF Unchanged1
  <2>9. Next1(d)' = Next1(d)
    BY <2>1 DEF Next1
  <2>10. ASSUME NEW a \in Artifacts \ {h}
         PROVE  Unchanged1(d, a)'
    <3>1. CASE plugin[a] \in {run[d].before[a], Absent}
      BY <2>1, <2>5, <3>1 DEF Unchanged1, Keeps
    <3>2. CASE a \in run[d].stuck
      BY <2>7, <3>2 DEF Unchanged1
    <3>3. CASE \E i \in 1 .. Len(run[d].copied) : run[d].copied[i] = a
      <4>1. PICK i \in 1 .. Len(run[d].copied) : run[d].copied[i] = a
        BY <3>3
      <4>2. i # 1
        BY <2>4, <4>1
      <4>3. /\ i - 1 \in 1 .. Len(run[d].copied) - 1 /\ (i - 1) + 1 = i
        BY <2>4, <4>1, <4>2
      <4>4. i - 1 \in 1 .. Len(Tail(run[d].copied)) /\ Tail(run[d].copied)[i - 1] = a
        BY <2>4, <4>1, <4>3
      <4> QED
        BY <2>1, <4>4 DEF Unchanged1
    <3>4. CASE run[d].todo # <<>> /\ Next1(d).file = a
      BY <2>1, <2>9, <3>4 DEF Unchanged1
    <3> QED
      BY <1>2, <3>1, <3>2, <3>3, <3>4 DEF Unchanged1
  <2>11. \A a \in Artifacts : Unchanged1(d, a)'
    BY <2>8, <2>10
  <2>12. run'[d].at \notin Installing \cup {"succeeded"} /\ run'[d].at \in AtWork
    BY <2>1 DEF AtWork, Installing
  <2> QED
    BY <1>1, <2>1, <2>11, <2>12, SettledAtWork
<1>6. CASE Finish(d)
  <2>1. /\ Keeps(d) /\ run'[d].todo = run[d].todo
        /\ run'[d].copied = run[d].copied /\ run'[d].stuck = run[d].stuck
        /\ \/ run[d].at = "executing" /\ run'[d].at = "succeeded"
           \/ run[d].at = "compensating" /\ run'[d].at = "failed"
    BY <1>6, OnlyStepRun
  <2>2. plugin' = plugin
    BY <1>6 DEF Finish
  <2>3. Next1(d)' = Next1(d) /\ \A a \in Artifacts : CopyDue(d, a)' <=> CopyDue(d, a)
    BY <2>1 DEF Next1, CopyDue
  <2>4. CASE run[d].at = "executing" /\ run'[d].at = "succeeded"
    <3>1. \A a \in Artifacts : plugin'[a] = SourceOf(a) \/ CopyDue(d, a)'
      BY <1>2, <2>2, <2>3, <2>4 DEF Installing
    <3>2. run'[d].at \notin AtWork \cup {"failed"}
      BY <2>4 DEF AtWork, Installing
    <3> QED
      BY <1>1, <2>1, <2>4, <3>1, <3>2, SettledAtWork
  <2>5. CASE run[d].at = "compensating" /\ run'[d].at = "failed"
    <3>1. \A a \in Artifacts : Unchanged1(d, a)'
      BY <1>2, <2>1, <2>2, <2>3, <2>5 DEF Unchanged1, Keeps
    <3>2. run'[d].at \notin Installing \cup {"succeeded"}
      BY <2>5 DEF Installing
    <3> QED
      BY <1>1, <2>5, <2>1, <3>1, <3>2, SettledAtWork
  <2> QED
    BY <2>1, <2>4, <2>5
<1> QED
  BY <1>4, <1>5, <1>6

(* The steps that come before the plan is carried out, and the last one.    *)
LEMMA SettledBefore ==
  ASSUME TypeOK, NEW d \in Deploys, RunOk(d), Settled(d),
         EmptyOutput(d) \/ WriteOutput(d) \/ EndBuild(d) \/ Validate(d) \/ MakePlan(d) \/ Exit(d)
  PROVE  Settled(d)'
<1>1. CASE EmptyOutput(d) \/ WriteOutput(d) \/ EndBuild(d)
  <2>1. ~run'[d].plan.ready
    BY <1>1, BuildRun DEF RunOk, Before, Keeps
  <2>2. CASE EmptyOutput(d)
    BY <2>1, <2>2, EmptyRun DEF Settled, AtWork, Installing
  <2>3. CASE WriteOutput(d)
    <3>1. run[d].at = "bundling" /\ run'[d].at = "bundling" /\ repo' = repo
      BY <2>3, WriteRun DEF WriteOutput
    <3>2. \A a \in Built \ run'[d].unwritten : built'[a] = repo.package.version
      <4>1. PICK a \in run[d].unwritten :
               \/ /\ built' = [built EXCEPT ![a] = Broken]
                  /\ run'[d].unwritten = run[d].unwritten
               \/ /\ built' = [built EXCEPT ![a] = repo.package.version]
                  /\ run'[d].unwritten = run[d].unwritten \ {a}
        BY <2>3, WriteRun
      <4>2. \A b \in Built \ run[d].unwritten : built[b] = repo.package.version
        BY <3>1 DEF Settled
      <4>3. built \in [Built -> Versions \cup {Absent, Broken}]
        BY DEF TypeOK
      <4> QED
        BY <4>1, <4>2, <4>3
    <3> QED
      BY <2>1, <3>1, <3>2 DEF Settled, AtWork, Installing
  <2>4. CASE EndBuild(d)
    <3>1. UNCHANGED <<repo, built>>
      BY <2>4 DEF EndBuild
    <3>2. run'[d].at = "validating" => \A a \in Built : built'[a] = repo'.package.version
      BY <2>4, <3>1, EndBuildRun DEF Settled
    <3>3. run'[d].at \in {"validating", "failed"}
      BY <2>4, EndBuildRun
    <3> QED
      BY <2>1, <3>2, <3>3 DEF Settled, AtWork, Installing
  <2> QED
    BY <1>1, <2>2, <2>3, <2>4
<1>2. CASE Validate(d)
  <2>1. /\ UNCHANGED <<repo, built, stray>> /\ run[d].at = "validating"
    BY <1>2 DEF Validate
  <2>2. Release' = Release
    BY <2>1, SameFiles
  <2>3. run'[d].at = "planning" /\ run'[d].release = Release /\ run'[d].opts = run[d].opts
    BY <1>2, ValidateRun
  <2> QED
    BY <2>1, <2>2, <2>3 DEF Settled, AtWork, Installing
<1>3. CASE MakePlan(d)
  <2>1. /\ UNCHANGED <<repo, built, stray, plugin>> /\ run[d].at = "planning"
    BY <1>3 DEF MakePlan
  <2>2. Release' = Release
    BY <2>1, SameFiles
  <2>3. /\ run'[d].opts = run[d].opts /\ run'[d].release = run[d].release
        /\ run'[d].before = plugin
        /\ run'[d].at \in {"failed", "previewed", "executing"}
        /\ run'[d].at = "failed" => ~run'[d].plan.ready
        /\ run'[d].at = "executing" => run'[d].todo = Todo(run[d].opts)
    BY <1>3, MakePlanRun
  <2>4. run'[d].at = "executing" => \A a \in Artifacts : CopyDue(d, a)'
    BY <2>3, TodoInOrder DEF CopyDue
  <2>5. \A a \in Artifacts : plugin'[a] = run'[d].before[a]
    BY <2>1, <2>3
  <2>6. run'[d].release = Release'
    BY <2>1, <2>2, <2>3 DEF Settled
  <2>7. ~run'[d].opts.skipBuild /\ ~run'[d].opts.dryRun
          => \A a \in Built : built'[a] = repo'.package.version
    BY <2>1, <2>3 DEF Settled
  <2> QED
    BY <2>3, <2>4, <2>5, <2>6, <2>7 DEF Settled, AtWork, Installing
<1>4. CASE Exit(d)
  BY <1>4, ExitRun DEF Settled, AtWork, Installing
<1> QED
  BY <1>1, <1>2, <1>3, <1>4

(* A run that starts anew has nothing to lose.                              *)
LEMMA SettledStart ==
  ASSUME TypeOK, NEW d \in Deploys, NEW o \in Invocations, Start(d, o)
  PROVE  Settled(d)'
BY StartRun DEF Settled, AtWork, Installing

LEMMA SettledStep ==
  ASSUME TypeOK, \A e \in Deploys : TodoOk(e) /\ RunOk(e),
         \A e \in Deploys \ disturbed : Settled(e), [Next]_vars
  PROVE  \A e \in Deploys \ disturbed' : Settled(e)'
<1> DEFINE Done == \A e \in Deploys \ disturbed' : Settled(e)'
<1>1. ASSUME NEW d \in Deploys, d \notin disturbed => Settled(d)', Disturb(d)
      PROVE  Done
  BY <1>1 DEF Disturb
<1>2. ASSUME NEW d \in Deploys, d \notin disturbed' => Settled(d)', disturbed \ {d} \subseteq disturbed',
             Stays(d), UNCHANGED <<repo, built, stray, plugin>>
      PROVE  Done
  <2> SUFFICES ASSUME NEW e \in Deploys \ disturbed'
               PROVE  Settled(e)'
    OBVIOUS
  <2>1. CASE e = d
    BY <1>2, <2>1
  <2>2. CASE e # d
    <3>1. e \notin disturbed /\ run'[e] = run[e]
      BY <1>2, <2>2 DEF Stays
    <3> QED
      BY <1>2, <3>1, SettledSame
  <2> QED
    BY <2>1, <2>2
<1>3. ASSUME disturbed' = Deploys
      PROVE  Done
  BY <1>3
<1>4. ASSUME UNCHANGED vars
      PROVE  Done
  BY <1>4, SettledSame DEF vars
<1> HIDE DEF Done
<1>5. ASSUME NEW d \in Deploys, NEW o \in Invocations, Start(d, o)
      PROVE  Done
  <2>1. disturbed' = disturbed \ {d} /\ UNCHANGED <<repo, built, stray, plugin>>
    BY <1>5 DEF Start
  <2> QED
    BY <1>2, <1>5, <2>1, StartRun, SettledStart
<1>6. ASSUME NEW d \in Deploys, EmptyOutput(d) \/ WriteOutput(d)
      PROVE  Done
  <2>1. Disturb(d)
    BY <1>6 DEF EmptyOutput, WriteOutput
  <2> QED
    BY <1>1, <1>6, <2>1, SettledBefore
<1>7. ASSUME NEW d \in Deploys, EndBuild(d) \/ Validate(d) \/ MakePlan(d) \/ Exit(d)
      PROVE  Done
  <2>1. disturbed' = disturbed /\ UNCHANGED <<repo, built, stray, plugin>>
    BY <1>7 DEF EndBuild, Validate, MakePlan, Exit
  <2>2. Stays(d)
    BY <1>7, EndBuildRun, ValidateRun, MakePlanRun, ExitRun
  <2> QED
    BY <1>2, <1>7, <2>1, <2>2, SettledBefore
<1>8. ASSUME NEW d \in Deploys, EnsureFolder(d)
      PROVE  Done
  <2>1. /\ disturbed' = disturbed /\ UNCHANGED <<repo, built, stray, plugin>>
        /\ run[d].at = "executing" /\ run[d].todo # <<>> /\ run' = [run EXCEPT ![d].todo = Tail(@)]
    BY <1>8 DEF EnsureFolder, Doing
  <2>2. Stays(d)
    BY <2>1, TaskRun
  <2> QED
    BY <1>2, <1>8, <2>1, <2>2, SettledTasks
<1>9. ASSUME NEW d \in Deploys, Clean(d) \/ BeginCopy(d) \/ EndCopy(d)
      PROVE  Done
  <2>1. Disturb(d)
    BY <1>9 DEF Clean, BeginCopy, EndCopy
  <2> QED
    BY <1>1, <1>9, <2>1, SettledTasks
<1>10. ASSUME NEW d \in Deploys, CallFails(d) \/ Compensate(d)
       PROVE  Done
  <2>1. Disturb(d)
    BY <1>10 DEF CallFails, Compensate
  <2> QED
    BY <1>1, <1>10, <2>1, SettledEnds
<1>11. ASSUME NEW d \in Deploys, Finish(d)
       PROVE  Done
  <2>1. disturbed' = disturbed /\ UNCHANGED <<repo, built, stray, plugin>>
    BY <1>11 DEF Finish
  <2> QED
    BY <1>2, <1>11, <2>1, OnlyStepRun, SettledEnds
<1>12. ASSUME ChangeRepository \/ RemoveInvalid
       PROVE  Done
  <2>1. disturbed' = Deploys
    BY <1>12 DEF ChangeRepository, RemoveInvalid
  <2> QED
    BY <1>3, <2>1
<1>13. Done
  BY <1>4, <1>5, <1>6, <1>7, <1>8, <1>9, <1>10, <1>11, <1>12 DEF Next
<1> QED
  BY <1>13 DEF Done

-----------------------------------------------------------------------------
(* The invariant                                                            *)

LEMMA InstallInit ==
  ASSUME Init
  PROVE  InstallInv
<1>1. Off \in Invocations
  BY InvocationsAreInvocations DEF Off
<1>2. run = [d \in Deploys |-> NewRun(Off)]
  BY DEF Init
<1>3. /\ run \in [Deploys -> RunStates]
      /\ \A d \in Deploys : /\ run[d].at = "off" /\ run[d].todo = <<>> /\ run[d].copied = <<>>
                            /\ ~run[d].plan.ready
  BY <1>1, <1>2, NewRunType
<1>4. TypeOK
  <2>1. built \in [Built -> Versions \cup {Absent, Broken}]
    BY DEF Init
  <2>2. vault \in AllVaults /\ repo \in Checkouts
    BY VaultsAreVaults DEF Init
  <2>3. plugin \in AllFolders
    <3>1. [a \in Artifacts |-> Absent] \in AllFolders
      BY DEF AllFolders
    <3>2. plugin \in Folders \/ plugin = [a \in Artifacts |-> Absent]
      BY DEF Init
    <3> QED
      BY <3>1, <3>2, FoldersAreFolders
  <2>4. /\ stray \in BOOLEAN /\ starts \in 0 .. MaxStarts /\ faults \in 0 .. MaxFaults
        /\ disturbed \subseteq Deploys
    <3>1. 0 \in 0 .. MaxStarts /\ 0 \in 0 .. MaxFaults
      BY BoundsAreNaturals
    <3>2. stray = FALSE /\ starts = 0 /\ faults = 0 /\ disturbed = {}
      BY DEF Init
    <3> QED
      BY <3>1, <3>2
  <2> QED
    BY <1>3, <2>1, <2>2, <2>3, <2>4 DEF TypeOK
<1>5. \A d \in Deploys : TodoOk(d)
  <2>1. 1 .. Len(<<>>) = {}
    BY EmptySeq
  <2> QED
    BY <1>3, <2>1 DEF TodoOk
<1>6. \A d \in Deploys : RunOk(d) /\ Settled(d)
  BY <1>3 DEF RunOk, Settled, Before, AtWork, Installing
<1> QED
  BY <1>4, <1>5, <1>6 DEF InstallInv

LEMMA InstallStep ==
  ASSUME InstallInv, [Next]_vars
  PROVE  InstallInv'
<1>1. /\ TypeOK /\ \A d \in Deploys : TodoOk(d) /\ RunOk(d)
      /\ \A d \in Deploys \ disturbed : Settled(d)
  BY DEF InstallInv
<1>2. TypeOK' /\ \A d \in Deploys : TodoOk(d)' /\ RunOk(d)'
  BY <1>1, TypeStep, TodoStep, RunStep
<1>3. \A d \in Deploys \ disturbed' : Settled(d)'
  BY <1>1, SettledStep
<1> QED
  BY <1>2, <1>3 DEF InstallInv

(* The invariant holds in every state.                                      *)
THEOREM InstallInvariant == Spec => []InstallInv
<1>1. Init => InstallInv
  BY InstallInit
<1>2. InstallInv /\ [Next]_vars => InstallInv'
  BY InstallStep
<1> QED
  BY <1>1, <1>2, PTL DEF Spec

(* Every state is of its type, and a run that touches the folder has a plan *)
(* that is ready.                                                           *)
THEOREM TypeCorrect == Spec => []TypeOK
<1>1. InstallInv => TypeOK
  BY DEF InstallInv
<1> QED
  BY <1>1, InstallInvariant, PTL

-----------------------------------------------------------------------------
(* What the invariant gives                                                 *)

(* What an undisturbed run that succeeded left is the release it validated. *)
LEMMA SettledSuccess ==
  ASSUME InstallInv, NEW d \in Deploys \ disturbed, run[d].at = "succeeded"
  PROVE  /\ \A a \in Metadata : plugin[a] = run[d].plan.incoming
         /\ \A a \in Built : plugin[a] = built[a] /\ built[a] # Absent
         /\ ~run[d].opts.skipBuild => \A a \in Built : plugin[a] = run[d].plan.incoming
<1>1. TypeOK /\ RunOk(d) /\ Settled(d)
  BY DEF InstallInv
<1>2. /\ run[d].release = Release /\ Release.ok
      /\ run[d].plan.incoming = Release.incoming
      /\ run[d].todo = <<>> /\ ~run[d].opts.dryRun
  BY <1>1 DEF RunOk, Settled, TypeOK
<1>3. /\ Sound /\ repo.package.version = repo.manifest.version
      /\ Release.incoming = repo.manifest.version
      /\ \A a \in Built : built[a] # Absent
  BY <1>1, <1>2, ReleaseIsSound DEF Sound
<1>4. 1 .. Len(run[d].todo) = {}
  BY <1>2, EmptySeq
<1>5. \A a \in Artifacts : plugin[a] = SourceOf(a)
  BY <1>1, <1>4 DEF Settled, CopyDue
<1>6. \A a \in Artifacts :
         /\ a \in Metadata => SourceOf(a) = repo.manifest.version
         /\ a \in Built => SourceOf(a) = built[a]
  BY <1>3, SourceIsRight
<1>7. ~run[d].opts.skipBuild => \A a \in Built : built[a] = repo.package.version
  BY <1>1, <1>2 DEF Settled
<1> QED
  BY <1>2, <1>3, <1>5, <1>6, <1>7 DEF Artifacts

(* SuccessMeansWhole: a run that reports success, and was left alone, leaves *)
(* the metadata it announced, the bundle of the build folder, and one that   *)
(* is whole and of that version if it built it, though builds and copies may *)
(* have been cut off before.                                                 *)
THEOREM SuccessIsWhole == Spec => []SuccessMeansWhole
<1>1. InstallInv => SuccessMeansWhole
  BY SettledSuccess DEF SuccessMeansWhole, Undisturbed
<1> QED
  BY <1>1, InstallInvariant, PTL

(* OnlyReviewedReplacements: a successful run replaced nothing it could not *)
(* judge, and an older version only where that was allowed.                 *)
THEOREM ReplacementsAreReviewed == Spec => []OnlyReviewedReplacements
<1>1. InstallInv => OnlyReviewedReplacements
  <2> SUFFICES ASSUME InstallInv, NEW d \in Deploys, run[d].at = "succeeded", Undisturbed(d)
               PROVE  Judged(run[d].before["manifest.json"], plugin["manifest.json"], run[d].opts)
    BY DEF OnlyReviewedReplacements, Judged
  <2>1. plugin["manifest.json"] = run[d].plan.incoming
    BY SettledSuccess DEF Undisturbed, Artifacts, Metadata
  <2> QED
    BY <2>1 DEF InstallInv, RunOk
<1> QED
  BY <1>1, InstallInvariant, PTL

(* FailureUndoesCopies: a failed run leaves every file as it was, or absent, *)
(* but the one that failed and those it could not remove.                   *)
THEOREM FailuresUndoCopies == Spec => []FailureUndoesCopies
<1>1. InstallInv => FailureUndoesCopies
  <2> SUFFICES ASSUME InstallInv, NEW d \in Deploys, run[d].at = "failed", Undisturbed(d),
                      run[d].plan.ready, NEW a \in Artifacts, a \notin run[d].stuck,
                      run[d].todo # <<>> => a # Next1(d).file
               PROVE  plugin[a] \in {run[d].before[a], Absent}
    BY DEF FailureUndoesCopies
  <2>1. Settled(d) /\ run[d].copied = <<>>
    BY DEF InstallInv, Undisturbed, RunOk
  <2>2. 1 .. Len(run[d].copied) = {}
    BY <2>1, EmptySeq
  <2> QED
    BY <2>1, <2>2 DEF Settled
<1> QED
  BY <1>1, InstallInvariant, PTL

=============================================================================

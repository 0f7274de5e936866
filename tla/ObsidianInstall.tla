---------------------------- MODULE ObsidianInstall ----------------------------
(***************************************************************************)
(* Deploying the plugin into a vault: the deploy script                    *)
(* (scripts/deploy-obsidian-plugin.ts), the validation of the release      *)
(* (utils/release-artifacts.ts) and the install plan with its execution    *)
(* and its compensation (utils/obsidian-install-workflow.ts).  Several     *)
(* scripts may run at once, a call of the file system may fail, a script   *)
(* may be killed, and the developer changes the repository meanwhile.      *)
(*                                                                         *)
(* A version is a triple of numbers or a label that cannot be compared.    *)
(* A file of the plugin folder is absent, broken, or that of a version;    *)
(* a broken manifest is one that the plan cannot read as the manifest of   *)
(* this plugin, a broken main.js or styles.css one that was cut off while  *)
(* it was written, which nothing tells from a whole one.  The metadata of  *)
(* the repository is read in one step; the build is not one: it empties    *)
(* its folder and writes it again, file by file, under whoever reads it.   *)
(***************************************************************************)
EXTENDS Integers, Sequences

CONSTANTS
    Numbered,     \* versions that are three numbers
    Labels,       \* other versions, which only equality compares
    Unsafe,       \* the labels that look like a secret or a private path
    MinApps,      \* minimum versions of the app
    Checkouts,    \* what the metadata of the repository may become
    Vaults,       \* states of the root and of .obsidian a script may meet
    Folders,      \* what the plugin folder may hold at first
    Invocations,  \* options of the script
    Deploys,      \* runs of the script
    MaxStarts,    \* bound: runs of the script
    MaxFaults,    \* bound: failing calls, kills and changes of the repository
    Absent,       \* no file, no value
    Broken        \* a file that is not whole, or not of this plugin

Versions == Numbered \cup Labels

ASSUME NumberedAreTriples == Numbered \subseteq Nat \X Nat \X Nat
ASSUME UnsafeAreLabels == Unsafe \subseteq Labels
ASSUME AbsentIsNothing == Absent \notin Versions \cup MinApps \cup {Broken} /\ Broken \notin Versions

Built == {"main.js", "styles.css"}
Metadata == {"manifest.json", "versions.json"}
Artifacts == Built \cup Metadata

(* RELEASE_ARTIFACT_CONTRACT, in the order in which the files are copied. *)
Contract == <<"main.js", "manifest.json", "styles.css", "versions.json">>

(* The text of a metadata file; the name or the id says whose it is. *)
Texts == {"unreadable", "not-json", "malformed", "ours", "foreign"}

AllCheckouts ==
    [package : [text : Texts, version : Versions, declares : BOOLEAN],
     manifest : [text : Texts, version : Versions, minApp : MinApps],
     versions : [text : Texts \ {"foreign"}, map : [Versions -> MinApps \cup {Absent}]],
     config : BOOLEAN]

AllVaults == [root : {"absent", "file", "folder"}, obsidian : {"absent", "file", "folder"}]

(* A path of a vault, or one that validatePathInput refuses. *)
Paths == {"vault", "refused", Absent}

AllFolders == [Artifacts -> Versions \cup {Absent, Broken}]

AllInvocations ==
    [cli : Paths, shell : Paths, env : Paths,
     skipBuild : BOOLEAN, dryRun : BOOLEAN, clean : BOOLEAN, create : BOOLEAN, downgrade : BOOLEAN]

ASSUME CheckoutsAreCheckouts == Checkouts \subseteq AllCheckouts
ASSUME VaultsAreVaults == Vaults \subseteq AllVaults
ASSUME FoldersAreFolders == Folders \subseteq AllFolders
ASSUME InvocationsAreInvocations == Invocations \subseteq AllInvocations /\ Invocations # {}
ASSUME BoundsAreNaturals == MaxStarts \in Nat /\ MaxFaults \in Nat

VARIABLES
    repo,       \* the metadata of the repository
    built,      \* build/voidbrain: version of each artifact, Absent if there is none,
                \* Broken if it is not whole
    stray,      \* there is another file in build/voidbrain
    vault,      \* the root and .obsidian
    plugin,     \* the files in .obsidian/plugins/voidbrain
    run,        \* per run of the script: where it is and what it knows
    starts,     \* runs started so far
    faults,     \* failing calls, kills and changes so far
    disturbed   \* history: runs whose repository or plugin folder someone else changed

vars == <<repo, built, stray, vault, plugin, run, starts, faults, disturbed>>

-----------------------------------------------------------------------------
(* The validation of a release *)

(* No metadata is looked at beyond the files that cannot be read, and none    *)
(* is aligned unless all are well formed.                                     *)
Unread(r) ==
    {f \in DOMAIN r \ {"config"} : r[f].text \in {"unreadable", "not-json"}}

Malformed(r) == {f \in DOMAIN r \ {"config"} : r[f].text = "malformed"}

VersionsKnown(r) == Unread(r) \cup Malformed(r) = {}

MinAppOf(r) == r.versions.map[r.manifest.version]

(* Mutant: the manifest is not compared with the package. *)
AlignmentIssuesIgnoringDrift(r) ==
    {i \in {"foreign-package", "foreign-manifest", "no-version-map-entry",
            "min-app-version-drift", "package-files-drift"} :
        \/ i = "foreign-package" /\ r.package.text = "foreign"
        \/ i = "foreign-manifest" /\ r.manifest.text = "foreign"
        \/ i = "no-version-map-entry" /\ MinAppOf(r) = Absent
        \/ i = "min-app-version-drift" /\ MinAppOf(r) \notin {Absent, r.manifest.minApp}
        \/ i = "package-files-drift" /\ ~r.package.declares}

AlignmentIssues(r) ==
    {i \in {"foreign-package", "foreign-manifest", "version-drift", "no-version-map-entry",
            "min-app-version-drift", "package-files-drift"} :
        \/ i = "foreign-package" /\ r.package.text = "foreign"
        \/ i = "foreign-manifest" /\ r.manifest.text = "foreign"
        \/ i = "version-drift" /\ r.package.version # r.manifest.version
        \/ i = "no-version-map-entry" /\ MinAppOf(r) = Absent
        \/ i = "min-app-version-drift" /\ MinAppOf(r) \notin {Absent, r.manifest.minApp}
        \/ i = "package-files-drift" /\ ~r.package.declares}

MetadataIssues(r) ==
    IF Unread(r) # {} THEN {"unreadable-metadata"}
    ELSE IF Malformed(r) # {} THEN {"malformed-metadata"}
    ELSE AlignmentIssues(r)

(* The artifacts that can be read for their checksum. *)
Present(r, b) ==
    {a \in Built : b[a] # Absent} \cup
    {a \in Metadata : r[IF a = "manifest.json" THEN "manifest" ELSE "versions"].text # "unreadable"}

ArtifactIssues(r, b, s) ==
    (IF Present(r, b) # Artifacts THEN {"missing-artifact"} ELSE {}) \cup
    (IF s THEN {"undeclared-release-file"} ELSE {})

(* The diagnostic quotes the versions. *)
ReleaseIssues(r, b, s) ==
    LET found == MetadataIssues(r) \cup ArtifactIssues(r, b, s)
        quoted == IF VersionsKnown(r) THEN {r.package.version, r.manifest.version} ELSE {}
    IN found \cup (IF quoted \cap Unsafe # {} THEN {"unsafe-diagnostic"} ELSE {})

Releases == [ok : BOOLEAN, incoming : Versions \cup {Absent}, artifacts : SUBSET Artifacts]

(* validateReleaseArtifacts *)
Release ==
    [ok |-> ReleaseIssues(repo, built, stray) = {},
     incoming |-> IF VersionsKnown(repo) THEN repo.manifest.version ELSE Absent,
     artifacts |-> Present(repo, built)]

-----------------------------------------------------------------------------
(* The plan *)

(* Mutant: a version is older if no part of it is greater. *)
OlderInEveryPart(v, w) ==
    /\ v \in Numbered /\ w \in Numbered
    /\ v # w /\ \A i \in 1 .. 3 : v[i] <= w[i]

(* compareVersions: three numbers, the first that differ decide. *)
Older(v, w) ==
    /\ v \in Numbered /\ w \in Numbered
    /\ \E i \in 1 .. 3 : v[i] < w[i] /\ \A j \in 1 .. i - 1 : v[j] = w[j]

Kinds == {"fresh-install", "upgrade", "reinstall", "downgrade", "invalid-existing-install"}

Installed(f) == IF f["manifest.json"] \in Versions THEN f["manifest.json"] ELSE Absent

(* classifyOperation: versions that cannot be compared pass for an upgrade,   *)
(* with an issue.                                                             *)
Kind(installed, incoming, invalid) ==
    CASE invalid -> "invalid-existing-install"
      [] ~invalid /\ installed = Absent -> "fresh-install"
      [] ~invalid /\ installed # Absent /\ installed = incoming -> "reinstall"
      [] ~invalid /\ installed # Absent /\ incoming # Absent /\ Older(incoming, installed) -> "downgrade"
      [] OTHER -> "upgrade"

OperationIssues(installed, incoming, invalid, o) ==
    {i \in {"no-incoming-version", "version-compare-unknown", "downgrade-blocked"} :
        /\ ~invalid
        /\ \/ i = "no-incoming-version" /\ incoming = Absent
           \/ /\ i = "version-compare-unknown"
              /\ installed # Absent /\ incoming # Absent /\ installed # incoming
              /\ {installed, incoming} \cap Labels # {}
           \/ /\ i = "downgrade-blocked"
              /\ Kind(installed, incoming, invalid) = "downgrade"
              /\ ~o.downgrade}

(* resolveObsidianInstallTarget; a refused path has no target. *)
TargetIssues(path, o) ==
    IF path = "refused" THEN {"invalid-target-path"}
    ELSE {i \in {"missing-vault-root", "invalid-vault-root", "missing-obsidian-folder",
                 "invalid-obsidian-folder"} :
            \/ i = "missing-vault-root" /\ vault.root = "absent"
            \/ i = "invalid-vault-root" /\ vault.root = "file"
            \/ i = "missing-obsidian-folder" /\ vault.obsidian = "absent" /\ ~o.create
            \/ i = "invalid-obsidian-folder" /\ vault.obsidian = "file"}

RollbackModes == {"none", "backup-existing-plugin-artifacts"}

(* The intent to make a backup is printed; no backup is made. *)
RollbackIntent(kind, o) ==
    IF o.clean \/ kind # "fresh-install" THEN "backup-existing-plugin-artifacts" ELSE "none"

Plans ==
    [ready : BOOLEAN, kind : Kinds, installed : Versions \cup {Absent},
     incoming : Versions \cup {Absent}, rollback : RollbackModes]

NoPlan ==
    [ready |-> FALSE, kind |-> "fresh-install", installed |-> Absent, incoming |-> Absent,
     rollback |-> "none"]

(* createObsidianInstallPlan.  The diagnostic quotes both versions.           *)
PlanOf(release, path, o) ==
    LET hasTarget == path # "refused"
        invalid == hasTarget /\ plugin["manifest.json"] = Broken
        installed == IF hasTarget THEN Installed(plugin) ELSE Absent
        issues ==
            TargetIssues(path, o) \cup OperationIssues(installed, release.incoming, invalid, o) \cup
            (IF invalid THEN {"invalid-installed-manifest"} ELSE {}) \cup
            (IF release.ok THEN {} ELSE {"release-validation-failed"}) \cup
            (IF hasTarget /\ release.artifacts # Artifacts THEN {"missing-artifact"} ELSE {}) \cup
            (IF {installed, release.incoming} \cap Unsafe # {} THEN {"unsafe-diagnostic"} ELSE {})
        kind == Kind(installed, release.incoming, invalid)
    IN [ready |-> issues = {}, kind |-> kind, installed |-> installed,
        incoming |-> release.incoming, rollback |-> RollbackIntent(kind, o)]

-----------------------------------------------------------------------------
(* The script *)

(* Where the script reads the path: the option, the shell, the file. *)
VaultPath(o) ==
    CASE o.cli # Absent -> o.cli
      [] o.cli = Absent /\ o.shell # Absent -> o.shell
      [] OTHER -> o.env

Steps == {"off", "building", "bundling", "validating", "planning", "executing",
          "copying", "compensating", "succeeded", "failed", "previewed"}

Tasks == [op : {"ensure-obsidian", "ensure-plugin", "clean", "copy"}, file : Artifacts]

Task(op) == [op |-> op, file |-> "main.js"]
Cleans == [i \in 1 .. 4 |-> [op |-> "clean", file |-> Contract[i]]]
Copies == [i \in 1 .. 4 |-> [op |-> "copy", file |-> Contract[i]]]

(* What executeObsidianInstallPlan does, in order. *)
Todo(o) ==
    <<Task("ensure-obsidian"), Task("ensure-plugin")>>
    \o (IF o.clean THEN Cleans ELSE <<>>) \o Copies

Off == CHOOSE o \in Invocations : TRUE

NewRun(o) ==
    [at |-> "off", opts |-> o, release |-> [ok |-> FALSE, incoming |-> Absent, artifacts |-> {}],
     plan |-> NoPlan, before |-> [a \in Artifacts |-> Absent], todo |-> <<>>, copied |-> <<>>,
     stuck |-> {}, unwritten |-> {}]

Init ==
    /\ repo \in Checkouts
    /\ \E v \in Versions : built \in [Built -> {v, Absent, Broken}]
    /\ stray = FALSE
    /\ vault \in Vaults
    /\ plugin \in IF vault = [root |-> "folder", obsidian |-> "folder"]
                  THEN Folders ELSE {[a \in Artifacts |-> Absent]}
    /\ run = [d \in Deploys |-> NewRun(Off)]
    /\ starts = 0
    /\ faults = 0
    /\ disturbed = {}

(* Whoever else is at work now has its repository or its folder changed. *)
Disturb(d) == disturbed' = disturbed \cup (Deploys \ {d})

(* validateRepository and resolveVaultPath; a malformed package keeps its name. *)
Complete ==
    /\ repo.config
    /\ \A f \in {"package", "manifest", "versions"} : repo[f].text # "unreadable"
    /\ repo.package.text \in {"ours", "malformed"}

Start(d, o) ==
    /\ run[d].at = "off"
    /\ starts < MaxStarts
    /\ starts' = starts + 1
    /\ run' = [run EXCEPT ![d] =
                 [NewRun(o) EXCEPT !.at = IF ~Complete \/ VaultPath(o) = Absent THEN "failed"
                                          ELSE IF o.dryRun \/ o.skipBuild THEN "validating"
                                          ELSE "building"]]
    /\ disturbed' = disturbed \ {d}
    /\ UNCHANGED <<repo, built, stray, vault, plugin, faults>>

(* The build bundles the sources, then empties its folder file by file.       *)
EmptyOutput(d) ==
    /\ run[d].at = "building"
    /\ \E kept \in SUBSET Built :
         /\ built' = [a \in Built |-> IF a \in kept THEN built[a] ELSE Absent]
         /\ stray' \in {FALSE} \cup (IF kept = {} THEN {} ELSE {stray})
         /\ run' = IF kept = {}
                   THEN [run EXCEPT ![d].at = "bundling", ![d].unwritten = Built]
                   ELSE run
    /\ Disturb(d)
    /\ UNCHANGED <<repo, vault, plugin, faults, starts>>

(* It writes both files at once; until it is through, a file is not whole.    *)
WriteOutput(d) ==
    /\ run[d].at = "bundling"
    /\ \E a \in run[d].unwritten :
         \/ /\ built' = [built EXCEPT ![a] = Broken]
            /\ UNCHANGED run
         \/ /\ built' = [built EXCEPT ![a] = repo.package.version]
            /\ run' = [run EXCEPT ![d].unwritten = @ \ {a}]
    /\ Disturb(d)
    /\ UNCHANGED <<repo, stray, vault, plugin, faults, starts>>

(* The build ends well, or fails and leaves the folder as it is by then.      *)
EndBuild(d) ==
    /\ \/ /\ run[d].at = "bundling" /\ run[d].unwritten = {}
          /\ run' = [run EXCEPT ![d].at = "validating"]
          /\ UNCHANGED faults
       \/ /\ run[d].at \in {"building", "bundling"}
          /\ faults < MaxFaults
          /\ faults' = faults + 1
          /\ run' = [run EXCEPT ![d].at = "failed"]
    /\ UNCHANGED <<repo, built, stray, vault, plugin, disturbed, starts>>

Validate(d) ==
    /\ run[d].at = "validating"
    /\ run' = [run EXCEPT ![d].at = "planning", ![d].release = Release]
    /\ UNCHANGED <<repo, built, stray, vault, plugin, faults, disturbed, starts>>

(* A plan that is not ready ends the script, and so does a dry run. *)
MakePlan(d) ==
    LET o == run[d].opts
        plan == PlanOf(run[d].release, VaultPath(o), o)
    IN /\ run[d].at = "planning"
       /\ run' = [run EXCEPT ![d].plan = plan, ![d].before = plugin,
                    ![d].at = IF ~plan.ready THEN "failed"
                              ELSE IF o.dryRun THEN "previewed" ELSE "executing",
                    ![d].todo = IF plan.ready /\ ~o.dryRun THEN Todo(o) ELSE <<>>]
       /\ UNCHANGED <<repo, built, stray, vault, plugin, faults, disturbed, starts>>

Next1(d) == Head(run[d].todo)

Doing(d, op) ==
    /\ run[d].at = "executing"
    /\ run[d].todo # <<>>
    /\ Next1(d).op = op

EnsureFolder(d) ==
    /\ Doing(d, "ensure-obsidian") \/ Doing(d, "ensure-plugin")
    /\ vault' = [vault EXCEPT !.obsidian = "folder"]
    /\ run' = [run EXCEPT ![d].todo = Tail(@)]
    /\ UNCHANGED <<repo, built, stray, plugin, faults, disturbed, starts>>

Clean(d) ==
    /\ Doing(d, "clean")
    /\ plugin' = [plugin EXCEPT ![Next1(d).file] = Absent]
    /\ run' = [run EXCEPT ![d].todo = Tail(@)]
    /\ Disturb(d)
    /\ UNCHANGED <<repo, built, stray, vault, faults, starts>>

(* What a copy reads: the bundle, or the metadata at the root. *)
SourceOf(a) ==
    CASE a \in Built -> built[a]
      [] a = "manifest.json" -> IF repo.manifest.text = "ours" THEN repo.manifest.version
                                ELSE IF repo.manifest.text = "unreadable" THEN Absent ELSE Broken
      [] OTHER -> IF repo.versions.text = "ours" THEN repo.manifest.version
                  ELSE IF repo.versions.text = "unreadable" THEN Absent ELSE Broken

(* The target is not whole while it is being copied. *)
BeginCopy(d) ==
    /\ Doing(d, "copy")
    /\ SourceOf(Next1(d).file) # Absent
    /\ plugin' = [plugin EXCEPT ![Next1(d).file] = Broken]
    /\ run' = [run EXCEPT ![d].at = "copying"]
    /\ Disturb(d)
    /\ UNCHANGED <<repo, built, stray, vault, faults, starts>>

EndCopy(d) ==
    /\ run[d].at = "copying"
    /\ SourceOf(Next1(d).file) # Absent
    /\ plugin' = [plugin EXCEPT ![Next1(d).file] = SourceOf(Next1(d).file)]
    /\ run' = [run EXCEPT ![d].at = "executing", ![d].todo = Tail(@),
                          ![d].copied = <<Next1(d).file>> \o @]
    /\ Disturb(d)
    /\ UNCHANGED <<repo, built, stray, vault, faults, starts>>

(* A call fails: a source that is gone, no space, no permission, or a copy    *)
(* that cannot be read after it was made.                                     *)
CallFails(d) ==
    /\ run[d].at \in {"executing", "copying"}
    /\ run[d].todo # <<>>
    /\ LET gone == Next1(d).op = "copy" /\ SourceOf(Next1(d).file) = Absent
       IN /\ faults < MaxFaults \/ gone
          /\ faults' = IF gone THEN faults ELSE faults + 1
    /\ plugin' \in IF run[d].at = "copying" /\ SourceOf(Next1(d).file) # Absent
                   THEN {plugin, [plugin EXCEPT ![Next1(d).file] = SourceOf(Next1(d).file)]}
                   ELSE {plugin}
    /\ run' = [run EXCEPT ![d].at = "compensating"]
    /\ Disturb(d)
    /\ UNCHANGED <<repo, built, stray, vault, starts>>

(* Mutant: only what was copied last is removed. *)
CompensateOnlyLast(d) ==
    /\ run[d].at = "compensating"
    /\ run[d].copied # <<>>
    /\ plugin' = [plugin EXCEPT ![Head(run[d].copied)] = Absent]
    /\ run' = [run EXCEPT ![d].copied = <<>>]
    /\ Disturb(d)
    /\ UNCHANGED <<repo, built, stray, vault, faults, starts>>

(* The files copied by this run are removed, the last one first; one that     *)
(* cannot be removed stays, and is reported as removed.                       *)
Compensate(d) ==
    /\ run[d].at = "compensating"
    /\ run[d].copied # <<>>
    /\ \/ /\ plugin' = [plugin EXCEPT ![Head(run[d].copied)] = Absent]
          /\ run' = [run EXCEPT ![d].copied = Tail(@)]
          /\ UNCHANGED faults
       \/ /\ faults < MaxFaults
          /\ faults' = faults + 1
          /\ run' = [run EXCEPT ![d].copied = Tail(@), ![d].stuck = @ \cup {Head(run[d].copied)}]
          /\ UNCHANGED plugin
    /\ Disturb(d)
    /\ UNCHANGED <<repo, built, stray, vault, starts>>

Finish(d) ==
    /\ \/ /\ run[d].at = "executing" /\ run[d].todo = <<>>
          /\ run' = [run EXCEPT ![d].at = "succeeded"]
       \/ /\ run[d].at = "compensating" /\ run[d].copied = <<>>
          /\ run' = [run EXCEPT ![d].at = "failed"]
    /\ UNCHANGED <<repo, built, stray, vault, plugin, faults, disturbed, starts>>

Ended == {"succeeded", "failed", "previewed"}

(* The script exits, or is killed where it stands, its build with it: what    *)
(* was written so far stays in build/voidbrain and in the plugin folder.      *)
Exit(d) ==
    /\ run[d].at # "off"
    /\ run[d].at \in Ended \/ faults < MaxFaults
    /\ faults' = IF run[d].at \in Ended THEN faults ELSE faults + 1
    /\ run' = [run EXCEPT ![d] = NewRun(Off)]
    /\ UNCHANGED <<repo, built, stray, vault, plugin, disturbed, starts>>

-----------------------------------------------------------------------------
(* The developer *)

ChangeRepository ==
    /\ faults < MaxFaults
    /\ faults' = faults + 1
    /\ repo' \in Checkouts
    /\ stray' \in BOOLEAN
    /\ disturbed' = Deploys
    /\ UNCHANGED <<built, vault, plugin, run, starts>>

Quiet == \A d \in Deploys : run[d].at \notin {"executing", "copying", "compensating"}

(* The invalid plugin folder is removed by hand, as the documentation says,   *)
(* when no script is at work in it.                                           *)
RemoveInvalid ==
    /\ Quiet
    /\ plugin["manifest.json"] = Broken
    /\ plugin' = [a \in Artifacts |-> Absent]
    /\ disturbed' = Deploys
    /\ UNCHANGED <<repo, built, stray, vault, run, faults, starts>>

Next ==
    \/ \E d \in Deploys :
         \/ \E o \in Invocations : Start(d, o)
         \/ EmptyOutput(d)
         \/ WriteOutput(d)
         \/ EndBuild(d)
         \/ Validate(d)
         \/ MakePlan(d)
         \/ EnsureFolder(d)
         \/ Clean(d)
         \/ BeginCopy(d)
         \/ EndCopy(d)
         \/ CallFails(d)
         \/ Compensate(d)
         \/ Finish(d)
         \/ Exit(d)
    \/ ChangeRepository
    \/ RemoveInvalid

Spec == Init /\ [][Next]_vars

-----------------------------------------------------------------------------
(* Properties *)

RunStates ==
    [at : Steps, opts : Invocations, release : Releases, plan : Plans,
     before : AllFolders, todo : Seq(Tasks), copied : Seq(Artifacts), stuck : SUBSET Artifacts,
     unwritten : SUBSET Built]

(* Types, and a run has a plan that is ready while it touches the folder. *)
TypeOK ==
    /\ repo \in Checkouts
    /\ built \in [Built -> Versions \cup {Absent, Broken}]
    /\ stray \in BOOLEAN
    /\ vault \in AllVaults
    /\ plugin \in AllFolders
    /\ run \in [Deploys -> RunStates]
    /\ starts \in 0 .. MaxStarts
    /\ faults \in 0 .. MaxFaults
    /\ disturbed \subseteq Deploys
    /\ \A d \in Deploys :
         run[d].at \in {"executing", "copying", "compensating", "succeeded"} =>
             run[d].plan.ready /\ ~run[d].opts.dryRun

Undisturbed(d) == d \notin disturbed

(* A run that reports success, and was left alone in the repository and in    *)
(* the plugin folder, leaves the metadata of the version it announced, the    *)
(* very bundle of build/voidbrain, and, if it built it, a whole one of that   *)
(* version, whatever a run killed or failed before left in either folder.     *)
(* With --skip-build the bundle is what lies there: of any version, and, if a *)
(* build was cut off, not whole; the release check only takes its checksum    *)
(* (obsidian-install-workflow.ts, executeObsidianInstallPlan).                *)
SuccessMeansWhole ==
    \A d \in Deploys : run[d].at = "succeeded" /\ Undisturbed(d) =>
        /\ \A a \in Metadata : plugin[a] = run[d].plan.incoming
        /\ \A a \in Built :
             /\ plugin[a] = built[a] /\ built[a] # Absent
             /\ ~run[d].opts.skipBuild => plugin[a] = run[d].plan.incoming

(* The order of release numbers. *)
IsOlder(v, w) ==
    /\ {v, w} \subseteq Numbered
    /\ \/ v[1] < w[1]
       \/ v[1] = w[1] /\ v[2] < w[2]
       \/ v[1] = w[1] /\ v[2] = w[2] /\ v[3] < w[3]

(* A successful run replaced nothing it could not judge, and an older version *)
(* only where that was allowed (obsidian-install-workflow.ts,                 *)
(* classifyOperation).                                                        *)
OnlyReviewedReplacements ==
    \A d \in Deploys : run[d].at = "succeeded" /\ Undisturbed(d) =>
        LET old == run[d].before["manifest.json"]
            new == plugin["manifest.json"]
        IN /\ old # Broken
           /\ \/ old = Absent
              \/ old = new
              \/ IsOlder(old, new)
              \/ IsOlder(new, old) /\ run[d].opts.downgrade

(* A failed run leaves no mixture: but for the file whose copy failed and     *)
(* those it could not remove, a file is the one from before or absent, so no  *)
(* file of the new release stays beside one of the old                        *)
(* (obsidian-install-workflow.ts, executeObsidianInstallPlan).                *)
FailureUndoesCopies ==
    \A d \in Deploys : run[d].at = "failed" /\ Undisturbed(d) =>
        LET failing == IF run[d].todo = <<>> THEN {} ELSE {Next1(d).file}
        IN \A a \in Artifacts \ (run[d].stuck \cup failing) :
             plugin[a] \in {run[d].before[a], Absent} \/ ~run[d].plan.ready
=============================================================================

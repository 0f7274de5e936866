-------------------------- MODULE MCObsidianInstall ---------------------------
(***************************************************************************)
(* Constants for model checking ObsidianInstall.                           *)
(***************************************************************************)
EXTENDS ObsidianInstall, TLC

CONSTANTS nightly, app

old == <<1, 9, 0>>
new == <<2, 1, 0>>

SomeVersions == {old, new}

(* The repository at a version, complete and aligned. *)
At(v) ==
    [package |-> [text |-> "ours", version |-> v, declares |-> TRUE],
     manifest |-> [text |-> "ours", version |-> v, minApp |-> app],
     versions |-> [text |-> "ours", map |-> [w \in Versions |-> app]],
     config |-> TRUE]

SomeCheckouts ==
    {At(v) : v \in {old, new}} \cup
    {[At(new) EXCEPT !.package.version = old]}

SomeVaults ==
    {[root |-> "folder", obsidian |-> o] : o \in {"absent", "folder"}}

(* A broken folder comes of a script that was killed. *)
SomeFolders == {[a \in Artifacts |-> v] : v \in {Absent, new, nightly}}

Plain ==
    [cli |-> Absent, shell |-> "vault", env |-> Absent, skipBuild |-> FALSE,
     dryRun |-> FALSE, clean |-> FALSE, create |-> FALSE, downgrade |-> FALSE]

SomeInvocations ==
    {[Plain EXCEPT !.create = TRUE, !.clean = TRUE],
     [Plain EXCEPT !.skipBuild = TRUE, !.downgrade = TRUE],
     [Plain EXCEPT !.dryRun = TRUE]}

Symmetry == Permutations(Deploys)
=============================================================================

-------------------------- MODULE MCIndexingRuntime --------------------------
(***************************************************************************)
(* Constants for model checking IndexingRuntime.                           *)
(***************************************************************************)
EXTENDS IndexingRuntime, TLC

(* One note is there at first, the others are not. *)
OneNote == {v \in [Paths -> {0, Absent}] : Cardinality({p \in Paths : v[p] = 0}) = 1}

Symmetry == Permutations(Paths) \cup Permutations(Readers)
=============================================================================

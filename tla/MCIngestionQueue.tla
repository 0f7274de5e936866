--------------------------- MODULE MCIngestionQueue ---------------------------
(***************************************************************************)
(* Constants for model checking IngestionQueue.                            *)
(***************************************************************************)
EXTENDS IngestionQueue, TLC

CONSTANTS a, b, c, d, t1, t2, t3, t4, h1, h2, h3, h4

(* Source c has a note in common with a. *)
MCContentOf == a :> h1 @@ b :> h2 @@ c :> h3 @@ d :> h4

MCTargetsOf == a :> {t1, t2} @@ b :> {t3} @@ c :> {t2} @@ d :> {t4}

Crossing == {<<a, b>>, <<c>>}

Overlapping == {<<a, b, c>>}

Disjoint == {<<a, b, d>>}

Symmetry == Permutations(Runs) \cup Permutations(QueueIds)

=============================================================================

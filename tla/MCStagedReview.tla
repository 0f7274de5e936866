--------------------------- MODULE MCStagedReview ---------------------------
(***************************************************************************)
(* Constants for model checking StagedReview: every path has a segment of  *)
(* its own, as in a vault whose note names differ in letters and digits.   *)
(***************************************************************************)
EXTENDS StagedReview, TLC

OwnSegment == [p \in Paths |-> p]

(* One note with a text, whichever: paths differ in nothing else, so one of *)
(* them stands for all.  What the user edits may add or remove others.      *)
OneNote ==
    LET first == CHOOSE p \in Paths : TRUE
    IN {v \in Vaults : /\ v[first] \in Contents \ {Empty}
                       /\ \A p \in Paths \ {first} : v[p] = Absent}

SessionSymmetry == Permutations(Sessions)

(* Behaviours in which the user goes through with every deletion proposed.  *)
NothingDeclined == \A r \in staged : r.status \notin {"rejected", "dismissed"}
=============================================================================

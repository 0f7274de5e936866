--------------------------- MODULE MCSessionMemory ----------------------------
(***************************************************************************)
(* Constants for model checking SessionMemory.                             *)
(***************************************************************************)
EXTENDS SessionMemory, TLC

CONSTANTS short, long

(* A long draft is cut to the short one when it is captured. *)
CutLong == [d \in Drafts \cup {None} |-> IF d = long THEN short ELSE d]

(* An index that is being built, and all a provider needs. *)
SomeEvidence ==
    {[index |-> "not-ready", found |-> "weak", allowed |-> TRUE],
     [index |-> "ready", found |-> "strong", allowed |-> TRUE]}
=============================================================================

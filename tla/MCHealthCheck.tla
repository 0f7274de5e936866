----------------------------- MODULE MCHealthCheck -----------------------------
(***************************************************************************)
(* Constants for model checking HealthCheck: a summary and its source,     *)
(* which may become a URL, and which may become a summary itself, one that *)
(* cannot be staged for its name.                                          *)
(***************************************************************************)
EXTENDS HealthCheck, TLC

CONSTANTS summary, source, url

Plain ==
    [parses |-> TRUE, kind |-> "source", sources |-> Absent, citations |-> Absent,
     links |-> {}, deadLink |-> FALSE, sparse |-> FALSE]

Uncited == [Plain EXCEPT !.kind = "summary", !.sources = {source}]

SomeVault == [p \in Paths |-> IF p = summary THEN Uncited ELSE Plain]

SomeTexts ==
    [p \in Paths |->
        IF p = summary
        THEN {[Uncited EXCEPT !.citations = {summary}, !.deadLink = TRUE],
              [Uncited EXCEPT !.sources = {source, url}]}
        ELSE {[Plain EXCEPT !.parses = FALSE], [Uncited EXCEPT !.sources = {summary}]}]

SomeIndexes ==
    {[state |-> "partial", missing |-> {summary}, extra |-> {}, stale |-> {}]}

Symmetry == Permutations(Modals)
=============================================================================

---------------------------- MODULE MCSimilarNotes ----------------------------
(***************************************************************************)
(* Constants for model checking SimilarNotes: a note of the inbox, one of  *)
(* a folder whose path has a comma, the place the first would be moved to, *)
(* and a note that ends in .MD.                                            *)
(***************************************************************************)
EXTENDS SimilarNotes, TLC

CONSTANTS inA, topicB, topicA, upper, half, rest, a, b, u, t1, t2, fixture, alpha, beta, pair, year

MCName == [p \in Paths |-> IF p \in {inA, topicA} THEN a ELSE IF p = topicB THEN b ELSE u]
MCFolder ==
    [p \in Paths |-> IF p = inA THEN Inbox ELSE IF p = rest THEN NoFolder ELSE "topics"]
MCPathOf == [n \in Names |-> IF n = a THEN inA ELSE None]
MCRank ==
    (inA :> 1) @@ (topicA :> 2) @@ (topicB :> 3) @@ (upper :> 4) @@ (half :> 5) @@ (rest :> 6)
    @@ (t1 :> 1) @@ (t2 :> 2) @@ (Fixture :> 3)
    @@ (year :> 1) @@ (alpha :> 2) @@ (pair :> 3) @@ (beta :> 4)
MCTokens ==
    (alpha :> {"alpha"}) @@ (beta :> {"beta"}) @@ (pair :> {"alpha", "beta"}) @@ (year :> {"2024"})
MCNormal == [w \in Words |-> w]
MCSplit ==
    [v \in Paths \cup Tags \cup Words |->
        IF v = pair THEN {alpha, beta} ELSE IF v = topicB THEN {half, rest} ELSE {v}]
(* A year is read as a number, and t2 as true. *)
MCTexts == (Paths \cup Tags \cup Words) \ {year, t2}
MCLinkOf == [n \in Names |-> n]

Plain(title) ==
    [front |-> "block", title |-> title, tags |-> {}, aliases |-> {}, related |-> {},
     sources |-> {}, inline |-> {}, links |-> {}, mentions |-> {}]

(* A search finds the note of the folder for the other; half of it would not do. *)
MCResults ==
    {[method |-> "semantic", source |-> inA, path |-> topicB, score |-> 10000],
     [method |-> "lexical", source |-> topicB, path |-> inA, score |-> 5000]}

MCVault ==
    [p \in Paths |->
        CASE p = inA -> [Plain(alpha) EXCEPT !.tags = {Fixture}]
          [] p = topicB -> [Plain(year) EXCEPT !.tags = {t1, Fixture}, !.inline = {t2}]
          [] p \notin {inA, topicB} -> None]

(* The notes lose their frontmatter, their tags or themselves, and the one *)
(* mentions the other in its frontmatter; one appears where the other      *)
(* would be moved to, and one that ends in .MD.                            *)
MCDrafts ==
    [p \in Paths |->
        CASE p = inA -> {[Plain(alpha) EXCEPT !.tags = {t1}, !.links = {b}, !.mentions = {b}],
                         [Plain(alpha) EXCEPT !.mentions = {b}],
                         [Plain(beta) EXCEPT !.front = "none"]}
          [] p = topicB -> {None, [Plain(beta) EXCEPT !.aliases = {pair}]}
          [] p = topicA -> {Plain(alpha), [Plain(alpha) EXCEPT !.front = "broken"]}
          [] p = upper -> {[Plain(year) EXCEPT !.tags = {t1}]}
          [] p \in {half, rest} -> {}]

Symmetry == Permutations(Callers)
=============================================================================

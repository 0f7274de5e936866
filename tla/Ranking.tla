-------------------------------- MODULE Ranking --------------------------------
(***************************************************************************)
(* The sort and the slice that bound a list: what is kept of a set when    *)
(* its elements are sorted by a key, a tuple of integers, and cut.         *)
(***************************************************************************)
EXTENDS Integers, FiniteSets

(* The lexicographic order of tuples of one length. *)
Before(a, b) ==
    \E i \in DOMAIN a : a[i] < b[i] /\ \A j \in 1 .. i - 1 : a[j] = b[j]

(* The first n of S, sorted by its keys. *)
First(n, S, Key(_)) ==
    {x \in S : Cardinality({y \in S : Before(Key(y), Key(x))}) < n}

(* The first of a set that is not empty. *)
Foremost(S, Key(_)) == CHOOSE x \in S : \A y \in S \ {x} : Before(Key(x), Key(y))
=============================================================================

------------------------------- MODULE Pages -------------------------------
(***************************************************************************)
(* The slices with which the services cut a page out of a list.  A list    *)
(* only grows, so that a record is known by its place in it, and a page is *)
(* a set of places: in the code it keeps the order of the list.            *)
(***************************************************************************)
EXTENDS Naturals, FiniteSets

\* results[:n]
Earliest(places, n) ==
    {i \in places : Cardinality({j \in places : j < i}) < n}

\* results[-n:], which is the whole list when n is 0.
Latest(places, n) ==
    IF n = 0 THEN places
    ELSE {i \in places : Cardinality({j \in places : j > i}) < n}
============================================================================

------------------------------- MODULE Filter -------------------------------
(***************************************************************************)
(* list.filter(x => S has x): the elements of a list that are in a set, in *)
(* their order.                                                            *)
(***************************************************************************)
EXTENDS Naturals, FiniteSets

Filter(s, S) ==
  LET places == {n \in DOMAIN s : s[n] \in S}
      before(n) == Cardinality({m \in places : m < n})
  IN [k \in 1 .. Cardinality(places) |-> s[CHOOSE n \in places : before(n) = k - 1]]
=============================================================================

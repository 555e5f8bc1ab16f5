------------------------------- MODULE MCList -------------------------------
EXTENDS LinkedList, TLC

CONSTANTS d1, d2, d3

\* d2 and d3 are equal for the comparison.
ListKey == [d \in {d1, d2, d3} |-> IF d = d1 THEN 1 ELSE 0]
ListSymmetry == Permutations(Elems)
=============================================================================

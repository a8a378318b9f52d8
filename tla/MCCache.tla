------------------------------- MODULE MCCache -------------------------------
(* Instances of Cache: two keys in one slot of the hash table and a third  *)
(* in another, a small and a large content.                                *)
EXTENDS Cache

CONSTANTS k1, k2, k3, small, large

OneSlot == [k \in Keys |-> 0]
TwoSlots == [k \in Keys |-> IF k = k3 THEN 1 ELSE 0]
MCSizeOf == [v \in Values |-> IF v = large THEN 2 ELSE 1]

\* Threads and cells are interchangeable.
Symmetry == Permutations(Threads) \cup Permutations(Cells)
=============================================================================

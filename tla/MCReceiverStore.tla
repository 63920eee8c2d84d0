--------------------------- MODULE MCReceiverStore ---------------------------
(* Instances of ReceiverStore: a list of one device is shorter than a list of *)
(* two.  Four inodes are enough for two writers, a store and a temporary file. *)
EXTENDS ReceiverStore, TLC

CONSTANTS s1, s2, f1, f2, f3, f4, one, two, other

TwoSavers == {s1, s2}
FourFiles == {f1, f2, f3, f4}
AllLists  == {one, two, other}
Sizes     == [l \in AllLists |-> IF l = two THEN 2 ELSE 1]

Symmetries == Permutations(TwoSavers) \cup Permutations(FourFiles)
                \cup Permutations({one, other})
=============================================================================

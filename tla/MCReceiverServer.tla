--------------------------- MODULE MCReceiverServer ---------------------------
(* An instance of ReceiverServer: two start calls and two senders. *)
EXTENDS ReceiverServer, TLC

CONSTANTS k1, k2, s1, s2

TwoKeys   == {k1, k2}
TwoStarts == {s1, s2}

SymTwo == Permutations(TwoKeys) \cup Permutations(TwoStarts)
=============================================================================

---------------------------- MODULE MCReceiverPage ----------------------------
(* Instances of ReceiverPage for TLC.  Descriptors and senders are           *)
(* interchangeable; the run that checks liveness, and tells a quiet          *)
(* descriptor from another, does not use it.                                 *)
EXTENDS ReceiverPage, TLC

CONSTANTS a, b, s1, s2

TwoDescs   == {a, b}
Nobody     == {}
OneQuiet   == {b}
TwoSenders == {s1, s2}

SymBoth == Permutations(TwoDescs) \cup Permutations(TwoSenders)
===============================================================================

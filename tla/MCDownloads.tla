---------------------------- MODULE MCDownloads ----------------------------
(* Instances of Downloads for TLC.  The ids are interchangeable wherever no *)
(* constant names one of them.                                              *)
EXTENDS Downloads, TLC

CONSTANTS d1, d2

TwoIds   == {d1, d2}
OneId    == {d1}
NoIds    == {}

SymTwo == Permutations(TwoIds)
============================================================================

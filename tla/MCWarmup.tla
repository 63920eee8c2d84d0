------------------------------ MODULE MCWarmup ------------------------------
(* Instances of Warmup for TLC. *)
EXTENDS Warmup, TLC

CONSTANTS c1, c2, live, vod, p, q

TwoCallers == {c1, c2}
TwoKinds == {live, vod}
OneKind == {live}
OnePlaylist == {p}
TwoPlaylists == {p, q}

Sym == Permutations(TwoCallers)
=============================================================================

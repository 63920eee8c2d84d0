---------------------------- MODULE MCTvPlayback ----------------------------
(* Instances of TvPlayback for TLC. *)
EXTENDS TvPlayback, TLC

=============================================================================

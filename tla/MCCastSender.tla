---------------------------- MODULE MCCastSender ----------------------------
(* Instances of CastSender for TLC. *)
EXTENDS CastSender, TLC

CONSTANTS tvA, tvB

TwoDevices == {tvA, tvB}
OneDevice  == {tvA}

=============================================================================

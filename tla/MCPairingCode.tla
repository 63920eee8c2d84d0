---------------------------- MODULE MCPairingCode ----------------------------
(* Instances of PairingCode for TLC. *)
EXTENDS PairingCode

CONSTANTS c1, c2, h1, h2, p1

TwoCodes    == {c1, c2}
TwoHandlers == {h1, h2}
OneCall     == {p1}
=============================================================================

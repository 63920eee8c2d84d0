------------------------------ MODULE OnePlayer ------------------------------
(***************************************************************************)
(* What a television's player promises, whatever engines, look-ups and     *)
(* fallbacks it is made of: one thing plays at a time, a newer choice is   *)
(* never replaced by an older one, and what was chosen before the viewer   *)
(* went back does not begin to play afterwards.                            *)
(*                                                                         *)
(* A session can be lost: it plays on where neither the viewer nor the     *)
(* next choice reaches it.  That takes an end that came late, of a session *)
(* that failed, or the end of one already lost; and what is lost is never  *)
(* the choice that plays again.                                            *)
(***************************************************************************)
EXTENDS Naturals

VARIABLES
  asked,    \* choices made so far, numbered from 1
  floor,    \* choices up to this one may not begin any more
  playing,  \* the choice that plays, 0 for none
  lost,     \* choices that play out of reach
  late      \* a session has failed and its end is still to come

Init == asked = 0 /\ floor = 0 /\ playing = 0 /\ lost = {} /\ late = FALSE

Ask == asked' = asked + 1 /\ UNCHANGED <<floor, playing, lost, late>>

Fewer == lost' \subseteq lost /\ (late' => late)

Begin ==
  /\ \E p \in (floor + 1)..asked : playing' = p /\ floor' = p
  /\ Fewer /\ asked' = asked

End == playing' = 0 /\ Fewer /\ UNCHANGED <<asked, floor>>

Fail ==
  /\ playing # 0 \/ lost # {}
  /\ late' = TRUE
  /\ UNCHANGED <<asked, floor, playing, lost>>

Lose ==
  /\ playing # 0 /\ (late \/ lost # {})
  /\ playing' = 0 /\ lost' \subseteq lost \cup {playing}
  /\ late' => late
  /\ UNCHANGED <<asked, floor>>

GoBack == floor' = asked /\ playing' = 0 /\ UNCHANGED <<asked, lost, late>>

Next == Ask \/ Begin \/ End \/ Fail \/ Lose \/ GoBack

Spec == Init /\ [][Next]_<<asked, floor, playing, lost, late>>

=============================================================================

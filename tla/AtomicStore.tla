----------------------------- MODULE AtomicStore -----------------------------
(***************************************************************************)
(* What the store of paired devices promises (receiver_store.rs:87, "Temp  *)
(* file + rename: a crash mid-write can't truncate the store"): a save     *)
(* takes effect at one moment, as a whole, or not at all.  It promises     *)
(* nothing of saves that overlap, until the last of them has ended.        *)
(***************************************************************************)
CONSTANTS Lists, NoFile

VARIABLES
  stored,     \* the list a load would read, NoFile if there is none
  pending,    \* the lists whose save has begun and neither ended nor died
  overlapped  \* has one of them begun amid another, with none ended since?

Init == stored \in Lists \cup {NoFile} /\ pending = {} /\ overlapped = FALSE

BeginSave(l) ==
  /\ pending' = pending \cup {l}
  /\ overlapped' = (overlapped \/ pending # {})
  /\ UNCHANGED stored

Commit(l) ==
  /\ ~overlapped /\ pending = {l}
  /\ stored' = l
  /\ pending' = {}
  /\ UNCHANGED overlapped

\* A save fails: nothing has happened.
Abort(l) ==
  /\ ~overlapped /\ pending = {l}
  /\ pending' = {}
  /\ UNCHANGED <<stored, overlapped>>

\* The system calls of overlapping saves.
Muddle ==
  /\ overlapped
  /\ stored' \in Lists \cup {NoFile}
  /\ pending' \subseteq pending
  /\ overlapped' = (pending' # {})

\* The session ends, whatever its saves were at.
Die ==
  /\ pending' = {}
  /\ overlapped' = FALSE
  /\ UNCHANGED stored

Next == Muddle \/ Die \/ \E l \in Lists : BeginSave(l) \/ Commit(l) \/ Abort(l)

Spec == Init /\ [][Next]_<<stored, pending, overlapped>>
=============================================================================

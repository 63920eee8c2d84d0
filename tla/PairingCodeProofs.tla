--------------------------- MODULE PairingCodeProofs ---------------------------
(***************************************************************************)
(* Proofs about the pair code, for every number of codes, handlers and     *)
(* calls and for all times that satisfy TimesAssumption.                   *)
(*                                                                         *)
(* The invariants are inductive together once a fourth fact is added: a    *)
(* lockout never outlasts the code it was drawn with (LockWithinCode).  It *)
(* holds because Lockout <= Ttl, and it is what makes the places that      *)
(* clear locked_until with an expired code harmless.                       *)
(***************************************************************************)
EXTENDS PairingCode, TLAPS

LockWithinCode == lockedFor <= expiresIn /\ sentence <= lockedFor

IInv ==
  /\ TypeOK
  /\ GuessesBounded
  /\ LockWithinCode

LEMMA InitHolds == Init => IInv
  BY TimesAssumption, ScreenAssumption
  DEF Init, IInv, TypeOK, GuessesBounded, LockWithinCode, Senders, Status

(* An attempt that draws a new code keeps every conjunct. *)
LEMMA DrawKeeps ==
  ASSUME IInv, NEW lock \in 0..Lockout, Draw(lock)
  PROVE  /\ code' \in Codes /\ expiresIn' = Ttl /\ expiresIn' \in 0..Ttl
         /\ failed' = 0 /\ failed' \in 0..(MaxFailures - 1)
         /\ lockedFor' = lock
         /\ tries' = 0
  BY TimesAssumption DEF IInv, TypeOK, Draw

(* A status of a code and of a time in range is a status to send. *)
LEMMA Answers ==
  ASSUME mail \in [Senders -> SUBSET Status], NEW c \in Calls,
         NEW k \in Codes, NEW t \in 0..Ttl
  PROVE  [mail EXCEPT ![c] = {[code |-> k, left |-> t]}] \in [Senders -> SUBSET Status]
<1>1. [code |-> k, left |-> t] \in Status
  BY DEF Status
<1> QED
  BY <1>1

LEMMA StepKeeps == IInv /\ [Next]_vars => IInv'
<1> SUFFICES ASSUME IInv, [Next]_vars PROVE IInv'
  OBVIOUS
<1>0. disturbed' = disturbed
  BY DEF Next, vars
<1> USE <1>0, TimesAssumption DEF IInv, TypeOK, GuessesBounded, LockWithinCode
<1>1. ASSUME NEW h \in Handlers, LateAttempt(h) PROVE IInv'
  <2>1. Draw(0) /\ UNCHANGED sentence /\ expiresIn = 0
    BY <1>1 DEF LateAttempt
  <2>2. notify' \subseteq Handlers /\ UNCHANGED <<mail, screen, timer>>
    BY <1>1 DEF LateAttempt, Attempt, Owes, shown
  <2>3. attempts' \in 0..MaxAttempts /\ sinceLast' \in 0..MinInterval
    BY <1>1 DEF LateAttempt, Attempt
  <2>4. sentence = 0
    BY <2>1
  <2> QED
    BY <2>1, <2>2, <2>3, <2>4, DrawKeeps
<1>2. ASSUME NEW h \in Handlers, WrongAttempt(h) PROVE IInv'
  BY <1>2 DEF WrongAttempt, Attempt, posts, shown
<1>3. ASSUME NEW h \in Handlers, LastWrongAttempt(h) PROVE IInv'
  <2>1. Draw(Lockout) /\ sentence' = Lockout
    BY <1>3 DEF LastWrongAttempt
  <2>2. notify' \subseteq Handlers /\ UNCHANGED <<mail, screen, timer>>
    BY <1>3 DEF LastWrongAttempt, Attempt, Owes, shown
  <2>3. attempts' \in 0..MaxAttempts /\ sinceLast' \in 0..MinInterval
    BY <1>3 DEF LastWrongAttempt, Attempt
  <2> QED
    BY <2>1, <2>2, <2>3, DrawKeeps
<1>4. ASSUME NEW h \in Handlers, RightAttempt(h) PROVE IInv'
  <2>1. Draw(0) /\ UNCHANGED sentence /\ lockedFor = 0
    BY <1>4 DEF RightAttempt, Attempt, Admitted
  <2>2. notify' \subseteq Handlers /\ UNCHANGED <<mail, screen, timer>>
    BY <1>4 DEF RightAttempt, Attempt, Owes, shown
  <2>3. attempts' \in 0..MaxAttempts /\ sinceLast' \in 0..MinInterval
    BY <1>4 DEF RightAttempt, Attempt
  <2>4. sentence = 0
    BY <2>1
  <2> QED
    BY <2>1, <2>2, <2>3, <2>4, DrawKeeps
<1>5. ASSUME NEW h \in Handlers, Regenerate(h) PROVE IInv'
  <2>1. Draw(0) /\ sentence' = 0
    BY <1>5 DEF Regenerate
  <2>2. notify' \subseteq Handlers /\ UNCHANGED <<mail, screen, timer>>
    BY <1>5 DEF Regenerate, Owes, shown
  <2>3. attempts' \in 0..MaxAttempts /\ sinceLast' \in 0..MinInterval
    BY <1>5 DEF Regenerate
  <2> QED
    BY <2>1, <2>2, <2>3, DrawKeeps
<1>6. ASSUME NEW h \in Handlers, Build(h) PROVE IInv'
  BY <1>6 DEF Build, StatusNow, Status, Senders, pairing, shown, history
<1>7. ASSUME NEW h \in Handlers, OtherStatus(h) PROVE IInv'
  BY <1>7 DEF OtherStatus, StatusNow, Status, Senders, pairing, shown, history
<1>8. ASSUME NEW j \in Senders, Deliver(j) PROVE IInv'
  <2>1. PICK status \in mail[j] : Render(status)
    BY <1>8 DEF Deliver
  <2>2. status \in Status
    OBVIOUS
  <2>3. screen' \in Codes \cup {Closed} /\ timer' \in -1..(Ttl + 1)
    BY <2>1, <2>2 DEF Render, TimerFor, Status, Unarmed, shown
  <2>4. mail' \in [Senders -> SUBSET Status]
    BY <1>8 DEF Deliver
  <2>5. UNCHANGED <<notify, code, expiresIn, failed, lockedFor, sinceLast, attempts,
                    tries, sentence>>
    BY <1>8 DEF Deliver, pairing, history
  <2> QED
    BY <2>3, <2>4, <2>5
<1>9. ASSUME NEW c \in Calls, RefreshFires(c) PROVE IInv'
  <2>1. /\ timer' = Unarmed /\ UNCHANGED <<notify, sinceLast, screen, attempts, sentence>>
        /\ RefreshCode
        /\ mail' = [mail EXCEPT ![c] = {[code |-> code', left |-> expiresIn']}]
    BY <1>9 DEF RefreshFires
  <2>2. CASE expiresIn = 0
    <3>1. Draw(0) /\ sentence = 0
      BY <2>1, <2>2 DEF RefreshCode
    <3>2. code' \in Codes /\ expiresIn' \in 0..Ttl
      BY <3>1, DrawKeeps
    <3>3. mail' \in [Senders -> SUBSET Status]
      BY <2>1, <3>2, Answers
    <3> QED
      BY <2>1, <3>1, <3>3, DrawKeeps DEF Unarmed
  <2>3. CASE expiresIn # 0
    <3>1. UNCHANGED <<code, expiresIn, failed, lockedFor, tries>>
      BY <2>1, <2>3 DEF RefreshCode
    <3>2. mail' \in [Senders -> SUBSET Status]
      BY <2>1, <3>1, Answers
    <3> QED
      BY <2>1, <3>1, <3>2 DEF Unarmed
  <2> QED
    BY <2>2, <2>3
<1>10. ASSUME CloseScreen PROVE IInv'
  BY <1>10 DEF CloseScreen, Unarmed, pairing, history
<1>11. ASSUME OpenScreen PROVE IInv'
  BY <1>11 DEF OpenScreen, TimerFor, StatusNow, Unarmed, pairing, posts, history
<1>12. ASSUME Tick PROVE IInv'
  BY <1>12 DEF Tick, Less, posts
<1>13. ASSUME UNCHANGED vars PROVE IInv'
  BY <1>13 DEF vars, Status
<1> QED
  BY <1>1, <1>2, <1>3, <1>4, <1>5, <1>6, <1>7, <1>8, <1>9, <1>10, <1>11, <1>12, <1>13
  DEF Next, Moves

LEMMA Invariance == Spec => []IInv
  BY InitHolds, StepKeeps, PTL DEF Spec

\* The types of PairingState and of the screen's state (receiver.rs:129-136).
THEOREM TypeCorrect == Spec => []TypeOK
<1>1. IInv => TypeOK
  BY DEF IInv
<1> QED
  BY <1>1, Invariance, PTL

\* The code in force has been guessed at fewer than PAIR_MAX_FAILURES times
\* (receiver.rs:245-254).
THEOREM GuessesAreBounded == Spec => []GuessesBounded
<1>1. IInv => GuessesBounded
  BY DEF IInv
<1> QED
  BY <1>1, Invariance, PTL

\* A lockout lasts PAIR_LOCKOUT: no expiry, attempt or refresh clears
\* locked_until before its time, because Lockout <= Ttl.
THEOREM LockoutsAreServed == Spec => []LockoutHeld
<1>1. IInv => LockoutHeld
  BY TimesAssumption DEF IInv, TypeOK, LockWithinCode, LockoutHeld
<1> QED
  BY <1>1, Invariance, PTL
=============================================================================

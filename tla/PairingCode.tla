----------------------------- MODULE PairingCode -----------------------------
(***************************************************************************)
(* The pair code of a TV receiver and the idle screen that shows it:       *)
(* PairingState and its two writers in src-tauri/src/receiver.rs, and      *)
(* renderStatus / refreshStatus of receiver/receiver.ts.                   *)
(*                                                                         *)
(* The code lives behind a mutex, so evaluate_pair_attempt is one step.    *)
(* What follows it is not: a handler that replaced the code builds the     *)
(* status later, under the lock again, and emits it later still, so two    *)
(* handlers may overtake one another between the three steps.  The screen  *)
(* reads nothing by itself: it shows the last status it was handed and     *)
(* arms one timer from the seconds that status says the code has left.     *)
(*                                                                         *)
(* Instants are kept as what is left of them (expiresIn, lockedFor) or as  *)
(* what has passed (sinceLast), so Tick is the only clock and the model is *)
(* finite without a bound on time.                                         *)
(***************************************************************************)
EXTENDS Integers

CONSTANTS
  Codes,         \* six-digit codes; a draw never repeats the code it replaces
  Handlers,      \* /pair requests and watchers the server runs at one time
  Calls,         \* commands of the idle screen that can be in flight together
  Ttl,           \* PAIR_CODE_TTL
  MaxFailures,   \* PAIR_MAX_FAILURES
  Lockout,       \* PAIR_LOCKOUT
  MinInterval,   \* PAIR_MIN_INTERVAL
  MaxAttempts    \* bound: attempts the model looks at

(* 120 s, 5, 60 s and 750 ms in the code (receiver.rs:27-30). *)
ASSUME TimesAssumption ==
  /\ Ttl \in Nat \ {0}
  /\ MaxFailures \in Nat \ {0}
  /\ MinInterval \in Nat
  /\ Lockout \in 0..Ttl
  /\ MaxAttempts \in Nat

ASSUME CodesAssumption == \A c \in Codes : Codes \ {c} # {}

Closed == "closed"
ASSUME ScreenAssumption == Closed \notin Codes

VARIABLES
  code,        \* PairingState.code
  expiresIn,   \* expires_at - now, 0 once it has passed
  failed,      \* failed_attempts
  lockedFor,   \* locked_until - now, 0 for None or a lock that has run out
  sinceLast,   \* now - last_attempt_at, at most MinInterval, which is None too
  notify,      \* handlers that have yet to build the status they owe
  mail,        \* per handler or call: the status it has built, {} for none
  screen,      \* the code the idle screen shows, Closed when it is not open
  timer,       \* what is left of statusRefreshTimer, Unarmed for null
  attempts,    \* attempts made so far (bounded by MaxAttempts)
  tries,       \* history: wrong guesses the code in force has been given
  sentence,    \* history: what is left of the lockout the last guess earned
  disturbed    \* scenario, never changed: do addresses change, are devices
               \* revoked and names set, does the user leave the screen?

pairing == <<code, expiresIn, failed, lockedFor>>
shown == <<screen, timer>>
history == <<tries, sentence>>
vars == <<code, expiresIn, failed, lockedFor, sinceLast, notify, mail,
          screen, timer, attempts, tries, sentence, disturbed>>

Unarmed == -1

Status == [code : Codes, left : 0..Ttl]
Senders == Handlers \cup Calls
posts == <<notify, mail>>

Idle(j) == j \notin notify /\ mail[j] = {}
Owes(h) == notify' = notify \cup {h} /\ UNCHANGED mail

(* build_status_json: the code and the whole seconds it has left. *)
StatusNow == [code |-> code, left |-> expiresIn]

-----------------------------------------------------------------------------
(* The pairing state machine *)

(* The four assignments that put a new code in force. *)
Draw(lock) ==
  /\ code' \in Codes \ {code}
  /\ expiresIn' = Ttl
  /\ failed' = 0
  /\ lockedFor' = lock
  /\ tries' = 0

(* Neither the lockout nor the floor between attempts turns it away. *)
Admitted == lockedFor = 0 /\ sinceLast = MinInterval

(* An attempt that gets past the two rate limits.  One that does not is     *)
(* answered 429 and changes nothing.                                        *)
Attempt(h) ==
  /\ Idle(h)
  /\ attempts < MaxAttempts
  /\ Admitted
  /\ attempts' = attempts + 1
  /\ sinceLast' = 0
  /\ UNCHANGED shown

(* Too late, whatever was submitted: the code is replaced unread. *)
LateAttempt(h) ==
  /\ Attempt(h)
  /\ expiresIn = 0
  /\ Draw(0)
  /\ Owes(h)
  /\ UNCHANGED sentence

(* A wrong guess that leaves the code another one. *)
WrongAttemptOneMore(h) ==
  /\ Attempt(h)
  /\ expiresIn > 0
  /\ failed + 1 <= MaxFailures
  /\ failed' = failed + 1
  /\ tries' = tries + 1
  /\ UNCHANGED <<code, expiresIn, lockedFor, posts, sentence>>
WrongAttempt(h) ==
  /\ Attempt(h)
  /\ expiresIn > 0
  /\ failed + 1 < MaxFailures
  /\ failed' = failed + 1
  /\ tries' = tries + 1
  /\ UNCHANGED <<code, expiresIn, lockedFor, posts, sentence>>

(* The guess that uses the code up: a new one, behind a lockout. *)
LastWrongAttemptSameCode(h) ==
  /\ Attempt(h)
  /\ expiresIn > 0
  /\ failed + 1 >= MaxFailures
  /\ failed' = 0 /\ lockedFor' = Lockout
  /\ tries' = tries + 1
  /\ sentence' = Lockout
  /\ UNCHANGED <<code, expiresIn, posts>>
LastWrongAttempt(h) ==
  /\ Attempt(h)
  /\ expiresIn > 0
  /\ failed + 1 >= MaxFailures
  /\ Draw(Lockout)
  /\ sentence' = Lockout
  /\ Owes(h)

(* The right guess: the device is paired and the code replaced at once. *)
RightAttempt(h) ==
  /\ Attempt(h)
  /\ expiresIn > 0
  /\ Draw(0)
  /\ Owes(h)
  /\ UNCHANGED sentence

(* PairingState::new by receiver_regenerate_code: every limit starts over. *)
Regenerate(h) ==
  /\ Idle(h)
  /\ attempts < MaxAttempts
  /\ attempts' = attempts + 1
  /\ Draw(0)
  /\ sinceLast' = MinInterval
  /\ sentence' = 0
  /\ Owes(h)
  /\ UNCHANGED shown

(* maybe_regenerate_expired_code: only receiver_status calls it. *)
RefreshCodeAlways == Draw(0)
RefreshCodeNever == UNCHANGED <<code, expiresIn, failed, lockedFor, tries>>
RefreshCode ==
  IF expiresIn = 0 THEN Draw(0)
  ELSE UNCHANGED <<code, expiresIn, failed, lockedFor, tries>>

-----------------------------------------------------------------------------
(* Statuses on their way to the screen *)

(* The handler takes the locks again and builds the status it will emit. *)
Build(h) ==
  /\ h \in notify
  /\ notify' = notify \ {h}
  /\ mail' = [mail EXCEPT ![h] = {StatusNow}]
  /\ UNCHANGED <<pairing, sinceLast, shown, attempts, history>>

(* The address watcher, a revocation or a renaming sends a status that is   *)
(* not about the code at all: it carries the code without refreshing it.    *)
OtherStatus(h) ==
  /\ disturbed
  /\ Idle(h)
  /\ mail' = [mail EXCEPT ![h] = {StatusNow}]
  /\ UNCHANGED <<notify, pairing, sinceLast, shown, attempts, history>>

(* renderStatus: any timer is cleared, and armed again only when the status *)
(* gives the code some time.                                                *)
TimerFor(status) == IF status.left > 0 THEN status.left + 1 ELSE Unarmed

Render(status) ==
  IF screen = Closed THEN UNCHANGED shown
  ELSE /\ screen' = status.code
       /\ timer' = TimerFor(status)

(* The xt:receiver-status event, or the answer of the screen's own command. *)
Deliver(j) ==
  /\ \E status \in mail[j] : Render(status)
  /\ mail' = [mail EXCEPT ![j] = {}]
  /\ UNCHANGED <<notify, pairing, sinceLast, attempts, history>>

-----------------------------------------------------------------------------
(* The idle screen *)

(* statusRefreshTimer goes off: refreshStatus asks receiver_status, which   *)
(* replaces an expired code before it answers.                              *)
RefreshFires(c) ==
  /\ screen # Closed
  /\ timer = 0
  /\ Idle(c)
  /\ timer' = Unarmed
  /\ RefreshCode
  /\ mail' = [mail EXCEPT ![c] = {[code |-> code', left |-> expiresIn']}]
  /\ UNCHANGED <<notify, sinceLast, screen, attempts, sentence>>

(* The page is left: its timer and the answers it waits for go with it. *)
CloseScreen ==
  /\ disturbed
  /\ screen # Closed
  /\ screen' = Closed
  /\ timer' = Unarmed
  /\ mail' = [j \in Senders |-> IF j \in Calls THEN {} ELSE mail[j]]
  /\ UNCHANGED <<notify, pairing, sinceLast, attempts, history>>

(* The page is opened with the server up: receiver_start finds it running   *)
(* and answers with the status as it stands.                                *)
OpenScreen ==
  /\ screen = Closed
  /\ screen' = code
  /\ timer' = TimerFor(StatusNow)
  /\ UNCHANGED <<pairing, sinceLast, posts, attempts, history>>

-----------------------------------------------------------------------------
Less(n) == IF n > 0 THEN n - 1 ELSE n

(* One unit of time passes.  A timer that is due waits for its turn.  Next  *)
(* to the life of a code the machine is quick: a handler builds what it     *)
(* owes before the code expires, a status is not two units on its way.      *)
Tick ==
  /\ expiresIn = 1 => notify = {}
  /\ \A j \in Senders : mail[j] \subseteq {StatusNow}
  /\ expiresIn' = Less(expiresIn)
  /\ lockedFor' = Less(lockedFor)
  /\ sinceLast' = IF sinceLast < MinInterval THEN sinceLast + 1 ELSE sinceLast
  /\ timer' = Less(timer)
  /\ sentence' = Less(sentence)
  /\ UNCHANGED <<code, failed, posts, screen, attempts, tries>>

(* receiver_start of a server that was down, called by the idle screen. *)
Init ==
  /\ code \in Codes
  /\ expiresIn = Ttl
  /\ failed = 0 /\ lockedFor = 0 /\ sinceLast = MinInterval
  /\ notify = {} /\ mail = [j \in Senders |-> {}]
  /\ screen = code /\ timer = Ttl + 1
  /\ attempts = 0
  /\ tries = 0 /\ sentence = 0
  /\ disturbed \in BOOLEAN

Moves ==
  \/ \E h \in Handlers :
       \/ LateAttempt(h) \/ WrongAttempt(h) \/ LastWrongAttempt(h)
       \/ RightAttempt(h) \/ Regenerate(h)
       \/ Build(h) \/ OtherStatus(h)
  \/ \E j \in Senders : Deliver(j)
  \/ \E c \in Calls : RefreshFires(c)
  \/ CloseScreen \/ OpenScreen
  \/ Tick

Next == Moves /\ UNCHANGED disturbed

Spec == Init /\ [][Next]_vars

(* Handlers and the screen's own commands run to their end, its timer goes  *)
(* off and time passes.  Nobody owes an attempt, a status or a visit.       *)
FairSpec ==
  /\ Spec
  /\ WF_vars(Tick /\ UNCHANGED disturbed)
  /\ \A h \in Handlers : WF_vars(Build(h) /\ UNCHANGED disturbed)
  /\ \A j \in Senders : WF_vars(Deliver(j) /\ UNCHANGED disturbed)
  /\ \A c \in Calls : WF_vars(RefreshFires(c) /\ UNCHANGED disturbed)

-----------------------------------------------------------------------------
(* Properties *)

\* Types of PairingState (receiver.rs:129-136) and of what the screen keeps.
TypeOK ==
  /\ code \in Codes
  /\ expiresIn \in 0..Ttl
  /\ failed \in 0..(MaxFailures - 1)
  /\ lockedFor \in 0..Lockout
  /\ sinceLast \in 0..MinInterval
  /\ notify \subseteq Handlers
  /\ mail \in [Senders -> SUBSET Status]
  /\ screen \in Codes \cup {Closed}
  /\ timer \in -1..(Ttl + 1)
  /\ attempts \in 0..MaxAttempts
  /\ tries \in Nat /\ sentence \in 0..Lockout
  /\ disturbed \in BOOLEAN

\* However attempts, refreshes and expiries interleave, the code in force has
\* been guessed at fewer than MaxFailures times, and failed counts just those.
GuessesBounded == tries < MaxFailures /\ tries = failed

\* A lockout runs its full course: expiry of the code, which also clears
\* locked_until (receiver.rs:243, 274), never ends it early.
LockoutHeld == sentence > 0 => lockedFor > 0

Fresh == screen = code /\ expiresIn > 0

\* "Enter the pair code shown on the TV's idle screen"
\* (tv-and-receiver-mode.mdx:49): an open screen that shows a code no longer in
\* force comes to show one that is, whatever order the statuses arrive in.
ScreenCatchesUp == ~disturbed /\ screen # Closed /\ ~Fresh ~> screen = Closed \/ Fresh

=============================================================================

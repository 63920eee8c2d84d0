------------------------------- MODULE CastFeed -------------------------------
(***************************************************************************)
(* The cast state feed of a sender (src/src/scripts/lib/                   *)
(* tv-cast-state-feed.ts) as operators on its module state: one websocket  *)
(* or one polling loop for the session it is bound to, and a count of the  *)
(* answers that failed in a row.  CastSender gives it its events.          *)
(*                                                                         *)
(* wsGeneration lets only the newest socket be heard, so the newest socket *)
(* is the only one kept.  After a first-message timeout its close event    *)
(* repeats onWsAttemptFailed, which changes nothing more.                  *)
(***************************************************************************)
EXTENDS Naturals

CONSTANTS None,       \* null
          MaxMisses   \* MAX_CONSECUTIVE_MISSES

ASSUME MissesAssumption == MaxMisses \in Nat \ {0}

(* bound: sessionKey(boundSession); sock: "opening" until its first message, *)
(* with firstMessageTimer armed; initial: isInitial of the newest attempt;   *)
(* loop: which of pollTimer and watchdogTimer is set; retry: wsRetryTimer.   *)
Unbound == [bound |-> None, mode |-> "idle", misses |-> 0, loop |-> "none",
            sock |-> "none", initial |-> TRUE, retry |-> FALSE]

Feeds(Keys) ==
  [bound : Keys \cup {None}, mode : {"idle", "connecting", "ws", "poll"},
   misses : 0..(MaxMisses - 1), loop : {"none", "poll", "watchdog"},
   sock : {"none", "opening", "up"}, initial : BOOLEAN, retry : BOOLEAN]

(* connectWebSocket *)
Connect(f, first) == [f EXCEPT !.sock = "opening", !.mode = "connecting", !.initial = first]

(* unbind and bindSession *)
BindTo(key) == Connect([Unbound EXCEPT !.bound = key], TRUE)

(* syncToSession *)
FollowByDevice(f, key) ==
  IF key = f.bound \/ (key # None /\ f.bound # None /\ key[1] = f.bound[1]) THEN f
  ELSE IF key = None THEN Unbound ELSE BindTo(key)
Follow(f, key) ==
  IF key = f.bound THEN f ELSE IF key = None THEN Unbound ELSE BindTo(key)

(* enterPollMode *)
ByPolling(f) == [f EXCEPT !.sock = "none", !.mode = "poll", !.loop = "poll"]

(* onWsAttemptFailed: error, close or time-out before the first message *)
AttemptFailedQuietly(f) ==
  IF f.initial THEN [f EXCEPT !.sock = "none", !.mode = "poll"]
  ELSE [ByPolling(f) EXCEPT !.retry = TRUE]
AttemptFailed(f) == [ByPolling(f) EXCEPT !.retry = f.retry \/ ~f.initial]

(* onWsDroppedMidSession *)
Dropped(f) == [ByPolling(f) EXCEPT !.retry = TRUE]

(* the callback of wsRetryTimer *)
Reconnect(f) == Connect([f EXCEPT !.retry = FALSE], FALSE)

(* the first message of a socket: enterWsMode *)
HeardNoWatchdog(f) ==
  IF f.sock = "opening" THEN [f EXCEPT !.sock = "up", !.mode = "ws", !.loop = "none"] ELSE f
Heard(f) ==
  IF f.sock = "opening" THEN [f EXCEPT !.sock = "up", !.mode = "ws", !.loop = "watchdog"]
  ELSE f

(* nextMissState *)
LastMissLate(f) == f.misses + 1 > MaxMisses
LastMiss(f) == f.misses + 1 >= MaxMisses
Missed(f) == [f EXCEPT !.misses = @ + 1]
Answered(f) == [f EXCEPT !.misses = 0]

(* pollOnce walks the other hosts of the device on its last chance only. *)
NearGiveUp(f) == f.misses = MaxMisses - 1

=============================================================================

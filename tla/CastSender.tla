------------------------------ MODULE CastSender ------------------------------
(***************************************************************************)
(* A sender that casts to receivers (src/src/scripts/lib/tv-cast.ts,       *)
(* tv-cast-pill.ts, tv-cast-state-feed.ts): the cast session, its backup   *)
(* for a relaunch, the requests in flight, the pill and the remote that    *)
(* subscribe to the state feed, and what the feed's news does to them.     *)
(*                                                                         *)
(* Between two awaits the sender's state changes by function calls and by  *)
(* synchronous events; these are operators on the record app, composed as  *)
(* the calls are nested.                                                   *)
(***************************************************************************)
EXTENDS CastFeed, FiniteSets

CONSTANTS
  Devices,    \* paired receivers
  TwoHomed,   \* those that have a second address
  MaxPlays,   \* bound: castPlay requests of one behaviour
  MaxPolls,   \* bound: polls in flight
  MaxTries,   \* REATTACH_MAX_ATTEMPTS
  MaxLoads    \* bound: page loads and relaunches

ASSUME SenderAssumption ==
  /\ Devices # {} /\ TwoHomed \subseteq Devices
  /\ MaxPlays \in Nat /\ None \notin Nat /\ \A d \in Devices : None # d
  /\ MaxPolls \in Nat /\ MaxTries \in Nat /\ MaxLoads \in Nat

VARIABLES
  app,      \* what the page's modules and the storage hold, see Apps
  plays,    \* per play: where its request is, to whom, castGeneration then
  settle,   \* the CAST_PLAY_SETTLE_MS after the last request run still
  aged,     \* plays whose session is older than IDLE_TEARDOWN_GRACE_MS
  stopping, \* a castStop awaits its answer
  probe,    \* the session tryReattachCastSession probes for, None at rest
  tries,    \* reattachAttempts; REATTACH_GUARD_KEY is set when at MaxTries and at rest
  loads,    \* page loads so far (bounded)
  torn,     \* history: plays begun before a teardown of the session
  robbed    \* history: a reattach took the backup of a session it is not for

vars == <<app, plays, settle, aged, stopping, probe, tries, loads, torn, robbed>>

Plays    == 1..MaxPlays
Keys     == Devices \X {0, 1}
Sessions == [dev : Devices, play : Plays, pin : {0, 1}, dismissed : BOOLEAN]
Polls    == [key : Keys, near : BOOLEAN]

ASSUME SessionAssumption == None \notin Sessions

(* session: sessionStorage; backup: localStorage; gen: castGeneration;      *)
(* guard: the session idleTeardownGuard tracks and whether it saw it play.  *)
Apps ==
  [session : Sessions \cup {None}, backup : Sessions \cup {None}, gen : Nat,
   pill : BOOLEAN, remote : BOOLEAN, listening : BOOLEAN, feed : Feeds(Keys),
   polls : [Polls -> 0..MaxPolls], guard : [of : Plays \cup {None}, saw : BOOLEAN]]

Key(s) == IF s = None THEN None ELSE <<s.dev, s.pin>>
NoPlay == [at |-> "unused", dev |-> CHOOSE d \in Devices : TRUE, gen |-> 0]
InFlight == {p \in Plays : plays[p].at = "sent"}
Settling == settle \/ InFlight # {}

-----------------------------------------------------------------------------
(* Calls the modules make of one another *)

(* pollOnce, up to its await *)
Waiting(a) == {p \in Polls : a.polls[p] > 0}
PollOnce(a) ==
  LET p == [key |-> a.feed.bound, near |-> NearGiveUp(a.feed)]
  IN  IF a.feed.bound = None \/ a.polls[p] = 1 \/ Cardinality(Waiting(a)) = MaxPolls THEN a
      ELSE [a EXCEPT !.polls[p] = 1]

(* the functions subscribeCastStateFeed and the one it returns *)
Subscribe(a) ==
  PollOnce([a EXCEPT !.listening = TRUE, !.feed = Follow(@, Key(a.session))])
Unsubscribed(a) == IF a.pill \/ a.remote THEN a ELSE [a EXCEPT !.feed = Unbound]

MountPill(a) == Subscribe([a EXCEPT !.pill = TRUE])
UnmountPill(a) == IF a.pill THEN Unsubscribed([a EXCEPT !.pill = FALSE]) ELSE a
CloseRemote(a) == IF a.remote THEN Unsubscribed([a EXCEPT !.remote = FALSE]) ELSE a

(* xt:cast-session-changed reaches the pill, the feed and the remote. *)
PillHears(a) ==
  IF a.session = None \/ (a.session # None /\ a.session.dismissed) THEN UnmountPill(a)
  ELSE IF a.pill THEN a ELSE MountPill(a)
FeedHears(a) == IF a.listening THEN [a EXCEPT !.feed = Follow(@, Key(a.session))] ELSE a
RemoteHears(a) == IF a.session = None THEN CloseRemote(a) ELSE a
SessionChanged(a) == RemoteHears(FeedHears(PillHears(a)))

SetSessionNoBackup(a, s) == SessionChanged([a EXCEPT !.session = s])
SetSession(a, s) == SessionChanged([a EXCEPT !.session = s, !.backup = s])
ClearSessionSameGeneration(a) == SessionChanged([a EXCEPT !.session = None, !.backup = None])
ClearSession(a) ==
  SessionChanged([a EXCEPT !.session = None, !.backup = None, !.gen = @ + 1])

(* onFeedState: the idle guard is fed every frame, and an idle frame it     *)
(* allows ends the session.                                                 *)
GuardForEver(a) == [of |-> a.session.play, saw |-> a.guard.saw]
GuardFor(a) ==
  IF a.guard.of = a.session.play THEN a.guard ELSE [of |-> a.session.play, saw |-> FALSE]
AllowsTeardownEarly(g) == ~Settling
AllowsTeardown(g) == ~Settling /\ (g.saw \/ g.of \in aged)
Show(a, busy) ==
  IF a.session = None \/ ~a.pill THEN a
  ELSE IF busy THEN [a EXCEPT !.guard = [of |-> a.session.play, saw |-> TRUE]]
  ELSE LET b == [a EXCEPT !.guard = GuardFor(a)]
       IN  IF AllowsTeardown(b.guard) THEN ClearSession(UnmountPill(b)) ELSE b

(* registerOutcome, the third miss in a row: unbind, then onLost of the     *)
(* pill, which clears the session, and of the remote.                       *)
GiveUp(a) ==
  LET b == CloseRemote([a EXCEPT !.feed = Unbound])
  IN  IF a.pill THEN ClearSession(UnmountPill(b)) ELSE b

(* pinHostForDevice, when another address than the first one answered *)
PinOther(a, key) ==
  IF a.session # None /\ a.session.dev = key[1]
  THEN SetSession(a, [a.session EXCEPT !.pin = 1 - key[2]]) ELSE a

-----------------------------------------------------------------------------
(* How a change of app shows in the history *)

Begun == {p \in Plays : plays[p].at # "unused"}
Becomes(a) ==
  /\ app' = a
  /\ torn' = IF app.session = None \/ a.session # None THEN torn
             ELSE torn \cup (Begun \ (IF probe = None THEN {} ELSE {probe.play}))
  /\ robbed' = (robbed /\ a.backup = None)

Frees(a) == Becomes(a) /\ UNCHANGED <<plays, settle, aged, stopping, probe, tries, loads>>

-----------------------------------------------------------------------------
(* Commands *)

(* castPlay, up to its await *)
CastPlay(p, d) ==
  /\ plays[p].at = "unused" /\ \A q \in Plays : q < p => plays[q].at # "unused"
  /\ plays' = [plays EXCEPT ![p] = [at |-> "sent", dev |-> d, gen |-> app.gen]]
  /\ settle' = TRUE
  /\ UNCHANGED <<app, aged, stopping, probe, tries, loads, torn, robbed>>

PlayOver == [NoPlay EXCEPT !.at = "over"]
NewSession(p) == [dev |-> plays[p].dev, play |-> p, pin |-> 0, dismissed |-> FALSE]

(* The receiver has answered; a teardown meanwhile makes the answer void. *)
PlayAnsweredAnyway(p) ==
  /\ plays[p].at = "sent"
  /\ plays' = [plays EXCEPT ![p] = PlayOver]
  /\ Becomes(SetSession(app, NewSession(p)))
  /\ settle' = TRUE
  /\ UNCHANGED <<aged, stopping, probe, tries, loads>>
PlayAnswered(p) ==
  /\ plays[p].at = "sent"
  /\ plays' = [plays EXCEPT ![p] = PlayOver]
  /\ Becomes(IF plays[p].gen = app.gen THEN SetSession(app, NewSession(p)) ELSE app)
  /\ settle' = TRUE
  /\ UNCHANGED <<aged, stopping, probe, tries, loads>>

PlayFails(p) ==
  /\ plays[p].at = "sent"
  /\ plays' = [plays EXCEPT ![p] = PlayOver]
  /\ settle' = TRUE
  /\ UNCHANGED <<app, aged, stopping, probe, tries, loads, torn, robbed>>

(* castStop from the pill, which goes at once, or from the settings; the    *)
(* session is cleared whether or not the receiver answers.                  *)
StopPressed(fromPill) ==
  /\ app.session # None /\ ~stopping
  /\ fromPill => app.pill
  /\ stopping' = TRUE
  /\ Becomes(IF fromPill THEN UnmountPill(app) ELSE app)
  /\ UNCHANGED <<plays, settle, aged, probe, tries, loads>>
StopDone ==
  /\ stopping
  /\ stopping' = FALSE
  /\ Becomes(ClearSession(app))
  /\ UNCHANGED <<plays, settle, aged, probe, tries, loads>>

(* The pill's dismiss button; "connect to TV" of the sidebar undoes it. *)
Dismiss(flag) ==
  /\ app.session # None /\ app.session.dismissed # flag
  /\ flag => app.pill
  /\ Frees(SetSession(app, [app.session EXCEPT !.dismissed = flag]))

OpenRemote == app.pill /\ ~app.remote /\ Frees(Subscribe([app EXCEPT !.remote = TRUE]))
LeaveRemote == app.remote /\ Frees(CloseRemote(app))

-----------------------------------------------------------------------------
(* The feed's events *)

(* The interval of the polling loop or the watchdog, or a poke. *)
PollTick == app.feed.loop # "none" /\ Frees(PollOnce(app))

Taken(p) == [app EXCEPT !.polls[p] = @ - 1]

(* A poll's answer is counted against whatever the feed is bound to by then. *)
PollMissed(p) ==
  /\ app.polls[p] > 0
  /\ Frees(IF LastMiss(app.feed) THEN GiveUp(Taken(p))
           ELSE [Taken(p) EXCEPT !.feed = Missed(@)])
PollHit(p, busy, walked) ==
  /\ app.polls[p] > 0
  /\ walked => p.near /\ p.key[1] \in TwoHomed
  /\ LET a == IF walked THEN PinOther(Taken(p), p.key) ELSE Taken(p)
     IN  Frees(Show([a EXCEPT !.feed = Answered(@)], busy))

(* A message of the socket: the receiver's state, or lines of its log. *)
SocketState(busy) ==
  /\ app.feed.sock # "none"
  /\ Frees(Show([app EXCEPT !.feed = Answered(Heard(@))], busy))
SocketLog ==
  /\ app.feed.sock = "opening"
  /\ Frees([app EXCEPT !.feed = Heard(@)])
SocketFails == app.feed.sock = "opening" /\ Frees([app EXCEPT !.feed = AttemptFailed(@)])
SocketDrops == app.feed.sock = "up" /\ Frees([app EXCEPT !.feed = Dropped(@)])
SocketRetry == app.feed.retry /\ Frees([app EXCEPT !.feed = Reconnect(@)])

-----------------------------------------------------------------------------
(* Page loads and the relaunch *)

NoPolls == [p \in Polls |-> 0]
LoadedWith(session, backup) ==
  [session |-> session, backup |-> backup, gen |-> 0, pill |-> FALSE, remote |-> FALSE,
   listening |-> FALSE, feed |-> Unbound, polls |-> NoPolls,
   guard |-> [of |-> None, saw |-> FALSE]]

(* A page load keeps sessionStorage, a relaunch only localStorage.  Module  *)
(* state and requests in flight go; initTvCastPill mounts the pill.         *)
Load(relaunch) ==
  /\ loads < MaxLoads
  /\ loads' = loads + 1
  /\ LET a == LoadedWith(IF relaunch THEN None ELSE app.session, app.backup)
     IN  app' = IF a.session = None \/ (a.session # None /\ a.session.dismissed) THEN a
                ELSE MountPill(a)
  /\ plays' = [p \in Plays |-> IF plays[p].at = "sent" THEN PlayOver
                               ELSE plays[p]]
  /\ settle' = FALSE /\ stopping' = FALSE /\ probe' = None
  /\ tries' = IF relaunch \/ probe # None \/ tries < MaxTries THEN 0 ELSE tries
  /\ UNCHANGED <<aged, torn, robbed>>

(* attemptSessionReattach and tryReattachCastSession, up to the first probe *)
ReattachBegins ==
  /\ probe = None /\ tries < MaxTries
  /\ app.session = None /\ app.backup # None
  /\ probe' = app.backup
  /\ tries' = tries + 1
  /\ UNCHANGED <<app, plays, settle, aged, stopping, loads, torn, robbed>>

(* The backup has expired or its receiver is no longer paired. *)
BackupUseless ==
  /\ probe = None /\ tries < MaxTries
  /\ app.session = None /\ app.backup # None
  /\ tries' = MaxTries
  /\ app' = [app EXCEPT !.backup = None]
  /\ UNCHANGED <<plays, settle, aged, stopping, probe, loads, torn, robbed>>

(* Nobody answers: the backup stays for a later try. *)
ReattachUnanswered ==
  /\ probe # None
  /\ probe' = None
  /\ UNCHANGED <<app, plays, settle, aged, stopping, tries, loads, torn, robbed>>

(* The receiver plays nothing of ours: the backup goes, whoever it is for. *)
ReattachIdle ==
  /\ probe # None
  /\ probe' = None /\ tries' = MaxTries
  /\ app' = [app EXCEPT !.backup = None]
  /\ robbed' = (robbed \/ app.session # None)
  /\ UNCHANGED <<plays, settle, aged, stopping, loads, torn>>

(* It still plays: the session is restored unless there is one by now. *)
ReattachPlaying ==
  /\ probe # None
  /\ probe' = None /\ tries' = MaxTries
  /\ Becomes(IF app.session = None THEN SetSession(app, probe) ELSE app)
  /\ UNCHANGED <<plays, settle, aged, stopping, loads>>

-----------------------------------------------------------------------------
(* Time and the world.  A poll is answered within 4 s, before the 5 s after *)
(* a play are over.                                                         *)

SettleEnds ==
  /\ settle /\ InFlight = {}
  /\ settle' = FALSE
  /\ UNCHANGED <<app, plays, aged, stopping, probe, tries, loads, torn, robbed>>
GraceEnds(p) ==
  /\ app.session # None /\ app.session.play = p /\ p \notin aged
  /\ aged' = aged \cup {p}
  /\ UNCHANGED <<app, plays, settle, stopping, probe, tries, loads, torn, robbed>>

Init ==
  /\ app = LoadedWith(None, None)
  /\ plays = [p \in Plays |-> NoPlay]
  /\ settle = FALSE /\ aged = {} /\ stopping = FALSE
  /\ probe = None /\ tries = 0
  /\ loads = 0 /\ torn = {} /\ robbed = FALSE

Answers == \E p \in Polls : PollMissed(p) \/ \E busy, walked \in BOOLEAN : PollHit(p, busy, walked)

Next ==
  \/ \E p \in Plays : \/ \E d \in Devices : CastPlay(p, d)
                      \/ PlayAnswered(p) \/ PlayFails(p) \/ GraceEnds(p)
  \/ \E flag \in BOOLEAN : StopPressed(flag) \/ Dismiss(flag) \/ Load(flag) \/ SocketState(flag)
  \/ StopDone \/ OpenRemote \/ LeaveRemote
  \/ PollTick \/ Answers
  \/ SocketLog \/ SocketFails \/ SocketDrops \/ SocketRetry
  \/ ReattachBegins \/ BackupUseless \/ ReattachUnanswered \/ ReattachIdle \/ ReattachPlaying
  \/ SettleEnds

Spec == Init /\ [][Next]_vars

-----------------------------------------------------------------------------
(* Properties *)

\* Types of the sender's module state and storage.
TypeOK ==
  /\ app \in Apps
  /\ plays \in [Plays -> [at : {"unused", "sent", "over"}, dev : Devices, gen : Nat]]
  /\ settle \in BOOLEAN /\ stopping \in BOOLEAN /\ robbed \in BOOLEAN
  /\ aged \subseteq Plays /\ torn \subseteq Plays
  /\ probe \in Sessions \cup {None}
  /\ tries \in 0..MaxTries /\ loads \in 0..MaxLoads

\* "Session was torn down (e.g. stop) while this request was in flight; don't
\* resurrect it" (tv-cast.ts:672): no session is one that was begun before a
\* stop, a lost receiver or an idle one ended the session.  What a reattach was
\* probing for at that moment is the exception: it looks at no generation.
TornStaysDown == app.session # None => app.session.play \notin torn

\* While there is a session, its backup is the same: a relaunch would find it.
\* A reattach that took it away, having probed for another one, is the exception.
BackupIsSession == app.session # None => app.backup = app.session \/ robbed

\* Whoever watches the feed watches the session there is: pill and remote are
\* never left on an old binding, however events, plays, pins and give-ups mix.
FeedFollows ==
  app.pill \/ app.remote =>
    app.session # None /\ app.feed.bound = Key(app.session)

\* A bound session is always watched by something that can notice its silence:
\* the polling loop, the watchdog beside a live socket, or the time-out of a
\* socket that has said nothing; and nothing runs when no session is bound.
Watched ==
  IF app.feed.bound = None THEN app.feed.loop = "none" /\ app.feed.sock = "none"
  ELSE app.feed.loop # "none" \/ app.feed.sock = "opening"

\* A cast is not taken for stopped by the idle its own start brings about: while
\* a play is on its way, and until the new session was seen playing or has had
\* its grace, no idle frame ends it.  (Misses, a stop and a load may; the idle that
\* an automatic next episode puts off, tv-cast-pill.ts:664, is not modelled.)
StartSurvivesIdle ==
  [][/\ app.session # None /\ app'.session = None
     /\ SocketState(FALSE) \/ \E p \in Polls, walked \in BOOLEAN : PollHit(p, FALSE, walked)
     => /\ InFlight = {}
        /\ \/ app.session.play \in aged
           \/ app.guard = [of |-> app.session.play, saw |-> TRUE]]_vars

=============================================================================

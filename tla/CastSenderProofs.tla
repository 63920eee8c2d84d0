--------------------------- MODULE CastSenderProofs ---------------------------
(***************************************************************************)
(* Proofs about the cast sender, for every set of receivers and every      *)
(* bound on plays, polls, misses, tries and page loads.                    *)
(*                                                                         *)
(* The functions of the sender are operators from one record app to the    *)
(* next, so each has a lemma: it keeps what holds of every such record     *)
(* (Sane), and what a change of the session is heard by agrees with it     *)
(* afterwards (Follows).  A step then does one of three things to session, *)
(* backup and generation (Kept, Renewed, Cleared), and the invariant of    *)
(* the history follows from that alone.                                    *)
(***************************************************************************)
EXTENDS CastSender, FiniteSetTheorems, TLAPS

(* A feed that is bound to no session does nothing; one that is bound has   *)
(* something that can notice its silence.                                   *)
Awake(f) ==
  /\ f \in Feeds(Keys)
  /\ f.bound = None => f.loop = "none" /\ f.sock = "none" /\ ~f.retry
  /\ f.bound # None => f.loop # "none" \/ f.sock = "opening"

Sane(a) ==
  /\ a \in Apps /\ Awake(a.feed)
  /\ a.pill \/ a.remote => a.listening

Follows(a) == a.pill \/ a.remote => a.session # None /\ a.feed.bound = Key(a.session)

Same(a, b) == a.session = b.session /\ a.backup = b.backup /\ a.gen = b.gen

-----------------------------------------------------------------------------
(* The feed *)

LEMMA MissesArePositive == MaxMisses \in Nat /\ 0 \in 0..(MaxMisses - 1)
  BY MissesAssumption

LEMMA UnboundIsAwake == Awake(Unbound) /\ Unbound.bound = None
  BY MissesArePositive DEF Unbound, Awake, Feeds

LEMMA FollowsKey ==
  ASSUME NEW f, Awake(f), NEW key \in Keys \cup {None}
  PROVE  Awake(Follow(f, key)) /\ Follow(f, key).bound = key
<1>1. CASE key = f.bound
  BY <1>1 DEF Follow
<1>2. CASE key # f.bound /\ key = None
  BY <1>2, UnboundIsAwake DEF Follow
<1>3. CASE key # f.bound /\ key # None
  <2>1. Follow(f, key) = [bound |-> key, mode |-> "connecting", misses |-> 0, loop |-> "none",
                          sock |-> "opening", initial |-> TRUE, retry |-> FALSE]
    BY <1>3 DEF Follow, BindTo, Connect, Unbound
  <2> QED
    BY <1>3, <2>1, MissesArePositive DEF Awake, Feeds
<1> QED
  BY <1>1, <1>2, <1>3

LEMMA PollingIsAwake ==
  ASSUME NEW f, Awake(f), f.bound # None
  PROVE  /\ Awake(AttemptFailed(f)) /\ AttemptFailed(f).bound = f.bound
         /\ Awake(Dropped(f)) /\ Dropped(f).bound = f.bound
         /\ Awake(Reconnect(f)) /\ Reconnect(f).bound = f.bound
  BY DEF Awake, Feeds, AttemptFailed, Dropped, Reconnect, Connect, ByPolling

LEMMA AnswersKeepAwake ==
  ASSUME NEW f, Awake(f)
  PROVE  /\ Awake(Answered(f)) /\ Answered(f).bound = f.bound
         /\ ~LastMiss(f) => Awake(Missed(f)) /\ Missed(f).bound = f.bound
         /\ Awake(Heard(f)) /\ Heard(f).bound = f.bound
<1>1. f.misses \in 0..(MaxMisses - 1)
  BY DEF Awake, Feeds
<1>2. ~LastMiss(f) => f.misses + 1 \in 0..(MaxMisses - 1)
  BY <1>1, MissesArePositive DEF LastMiss
<1>3. Awake(Answered(f)) /\ Answered(f).bound = f.bound
  BY MissesArePositive DEF Awake, Feeds, Answered
<1>4. ~LastMiss(f) => Awake(Missed(f)) /\ Missed(f).bound = f.bound
  BY <1>2 DEF Awake, Feeds, Missed
<1>5. Awake(Heard(f)) /\ Heard(f).bound = f.bound
  BY DEF Awake, Feeds, Heard
<1> QED
  BY <1>3, <1>4, <1>5

-----------------------------------------------------------------------------
(* The functions of the sender *)

LEMMA KeyIsKey ==
  ASSUME NEW s \in Sessions \cup {None}
  PROVE  Key(s) \in Keys \cup {None}
  BY DEF Key, Sessions, Keys

LEMMA WithFeed ==
  ASSUME NEW a, Sane(a), NEW f, Awake(f)
  PROVE  /\ Sane([a EXCEPT !.feed = f]) /\ Same([a EXCEPT !.feed = f], a)
         /\ [a EXCEPT !.feed = f].feed = f
         /\ [a EXCEPT !.feed = f].pill = a.pill /\ [a EXCEPT !.feed = f].remote = a.remote
         /\ [a EXCEPT !.feed = f].guard = a.guard /\ [a EXCEPT !.feed = f].polls = a.polls
         /\ [a EXCEPT !.feed = f].listening = a.listening
  BY DEF Sane, Apps, Same, Awake

LEMMA PollOnceKeeps ==
  ASSUME NEW a, Sane(a)
  PROVE  /\ Sane(PollOnce(a)) /\ Same(PollOnce(a), a)
         /\ PollOnce(a).pill = a.pill /\ PollOnce(a).remote = a.remote
         /\ PollOnce(a).listening = a.listening
         /\ PollOnce(a).feed = a.feed /\ PollOnce(a).guard = a.guard
<1> DEFINE p == [key |-> a.feed.bound, near |-> NearGiveUp(a.feed)]
<1>1. CASE a.feed.bound = None \/ a.polls[p] = 1 \/ Cardinality(Waiting(a)) = MaxPolls
  BY <1>1 DEF PollOnce, Same
<1>2. CASE ~(a.feed.bound = None \/ a.polls[p] = 1 \/ Cardinality(Waiting(a)) = MaxPolls)
  <2>1. PollOnce(a) = [a EXCEPT !.polls[p] = 1]
    BY <1>2 DEF PollOnce
  <2>2. a.polls \in [Polls -> 0..MaxPolls] /\ MaxPolls \in Nat
    BY SenderAssumption DEF Sane, Apps
  <2>3. MaxPolls # 0
    <3> SUFFICES ASSUME MaxPolls = 0 PROVE FALSE
      OBVIOUS
    <3>1. \A x \in Polls : a.polls[x] \in 0..0
      BY <2>2
    <3>2. \A x \in Polls : ~(a.polls[x] > 0)
      BY <3>1
    <3>3. Waiting(a) = {}
      BY <3>2 DEF Waiting
    <3> QED
      BY <3>3, <1>2, FS_EmptySet
  <2>4. [a.polls EXCEPT ![p] = 1] \in [Polls -> 0..MaxPolls]
    <3>1. 1 \in 0..MaxPolls
      BY <2>2, <2>3
    <3> HIDE DEF p
    <3> QED
      BY <2>2, <3>1
  <2> QED
    BY <2>1, <2>4 DEF Sane, Apps, Same
<1> QED
  BY <1>1, <1>2

LEMMA SubscribeKeeps ==
  ASSUME NEW a, Sane(a)
  PROVE  /\ Sane(Subscribe(a)) /\ Same(Subscribe(a), a)
         /\ Subscribe(a).pill = a.pill /\ Subscribe(a).remote = a.remote
         /\ Subscribe(a).feed.bound = Key(a.session) /\ Subscribe(a).guard = a.guard
<1> DEFINE f == Follow(a.feed, Key(a.session))
           b == [a EXCEPT !.listening = TRUE, !.feed = f]
<1>1. Awake(f) /\ f.bound = Key(a.session)
  BY FollowsKey, KeyIsKey DEF Sane, Apps
<1> HIDE DEF f
<1>2. /\ Sane(b) /\ Same(b, a) /\ b.pill = a.pill /\ b.remote = a.remote /\ b.feed = f
      /\ b.guard = a.guard
  BY <1>1 DEF Sane, Apps, Same, Awake
<1>3. Subscribe(a) = PollOnce(b)
  BY DEF Subscribe, f
<1> HIDE DEF b
<1> QED
  BY <1>1, <1>2, <1>3, PollOnceKeeps DEF Same

LEMMA MountPillKeeps ==
  ASSUME NEW a, Sane(a)
  PROVE  /\ Sane(MountPill(a)) /\ Same(MountPill(a), a)
         /\ MountPill(a).pill = TRUE /\ MountPill(a).remote = a.remote
         /\ MountPill(a).feed.bound = Key(a.session) /\ MountPill(a).guard = a.guard
<1> DEFINE b == [a EXCEPT !.pill = TRUE, !.listening = TRUE]
           c == [a EXCEPT !.pill = TRUE]
<1>1. /\ Sane(b) /\ Same(b, a) /\ b.pill = TRUE /\ b.remote = a.remote /\ b.guard = a.guard
      /\ b.session = a.session
  BY DEF Sane, Apps, Same
<1>2. Subscribe(c) = Subscribe(b)
  BY DEF Subscribe, Sane, Apps
<1>3. MountPill(a) = Subscribe(b)
  BY <1>2 DEF MountPill
<1> HIDE DEF b, c
<1> QED
  BY <1>1, <1>3, SubscribeKeeps DEF Same

LEMMA UnsubscribedKeeps ==
  ASSUME NEW a, Sane(a)
  PROVE  /\ Sane(Unsubscribed(a)) /\ Same(Unsubscribed(a), a)
         /\ Unsubscribed(a).pill = a.pill /\ Unsubscribed(a).remote = a.remote
         /\ Unsubscribed(a).listening = a.listening /\ Unsubscribed(a).guard = a.guard
         /\ a.pill \/ a.remote => Unsubscribed(a).feed = a.feed
  BY UnboundIsAwake, WithFeed DEF Unsubscribed, Same

LEMMA UnmountPillKeeps ==
  ASSUME NEW a, Sane(a)
  PROVE  /\ Sane(UnmountPill(a)) /\ Same(UnmountPill(a), a)
         /\ UnmountPill(a).pill = FALSE /\ UnmountPill(a).remote = a.remote
         /\ UnmountPill(a).guard = a.guard
         /\ a.remote => UnmountPill(a).feed = a.feed
<1> DEFINE b == [a EXCEPT !.pill = FALSE]
<1>1. /\ Sane(b) /\ Same(b, a) /\ b.pill = FALSE /\ b.remote = a.remote /\ b.feed = a.feed
      /\ b.guard = a.guard
  BY DEF Sane, Apps, Same
<1>2. a.pill \in BOOLEAN /\ UnmountPill(a) = IF a.pill THEN Unsubscribed(b) ELSE a
  BY DEF UnmountPill, Sane, Apps
<1> HIDE DEF b
<1> QED
  BY <1>1, <1>2, UnsubscribedKeeps DEF Same

LEMMA CloseRemoteKeeps ==
  ASSUME NEW a, Sane(a)
  PROVE  /\ Sane(CloseRemote(a)) /\ Same(CloseRemote(a), a)
         /\ CloseRemote(a).remote = FALSE /\ CloseRemote(a).pill = a.pill
         /\ CloseRemote(a).guard = a.guard
         /\ a.pill => CloseRemote(a).feed = a.feed
<1> DEFINE b == [a EXCEPT !.remote = FALSE]
<1>1. /\ Sane(b) /\ Same(b, a) /\ b.remote = FALSE /\ b.pill = a.pill /\ b.feed = a.feed
      /\ b.guard = a.guard
  BY DEF Sane, Apps, Same
<1>2. a.remote \in BOOLEAN /\ CloseRemote(a) = IF a.remote THEN Unsubscribed(b) ELSE a
  BY DEF CloseRemote, Sane, Apps
<1> HIDE DEF b
<1> QED
  BY <1>1, <1>2, UnsubscribedKeeps DEF Same

LEMMA PillHearsKeeps ==
  ASSUME NEW a, Sane(a)
  PROVE  /\ Sane(PillHears(a)) /\ Same(PillHears(a), a)
         /\ PillHears(a).pill => a.session # None
         /\ PillHears(a).remote = a.remote /\ PillHears(a).guard = a.guard
<1>1. a.pill \in BOOLEAN
  BY DEF Sane, Apps
<1>2. CASE a.session = None \/ a.session.dismissed
  <2>1. PillHears(a) = UnmountPill(a)
    BY <1>2 DEF PillHears
  <2> QED
    BY <2>1, UnmountPillKeeps
<1>3. CASE ~(a.session = None \/ a.session.dismissed)
  <2>1. PillHears(a) = IF a.pill THEN a ELSE MountPill(a)
    BY <1>3 DEF PillHears
  <2>2. CASE a.pill
    BY <1>3, <2>1, <2>2 DEF Same
  <2>3. CASE ~a.pill
    BY <1>3, <2>1, <2>3, MountPillKeeps
  <2> QED
    BY <2>2, <2>3
<1> QED
  BY <1>2, <1>3

(* Whatever was bound before, subscribers follow the session afterwards. *)
LEMMA SessionChangedKeeps ==
  ASSUME NEW a, Sane(a)
  PROVE  /\ Sane(SessionChanged(a)) /\ Same(SessionChanged(a), a)
         /\ Follows(SessionChanged(a)) /\ SessionChanged(a).guard = a.guard
<1> DEFINE b == PillHears(a)
           f == Follow(b.feed, Key(b.session))
           c == FeedHears(b)
<1>1. Sane(b) /\ Same(b, a) /\ (b.pill => a.session # None) /\ b.remote = a.remote /\ b.guard = a.guard
  BY PillHearsKeeps
<1> HIDE DEF b
<1>2. Awake(f) /\ f.bound = Key(b.session)
  BY <1>1, FollowsKey, KeyIsKey DEF Sane, Apps
<1> HIDE DEF f
<1>3. c = IF b.listening THEN [b EXCEPT !.feed = f] ELSE b
  BY DEF FeedHears, f
<1>4. /\ Sane(c) /\ Same(c, b) /\ c.pill = b.pill /\ c.remote = b.remote /\ c.guard = b.guard
      /\ b.listening => c.feed.bound = Key(b.session)
  BY <1>1, <1>2, <1>3, WithFeed DEF Same
<1>5. c.pill \/ c.remote => c.feed.bound = Key(c.session)
  BY <1>1, <1>4 DEF Sane, Same
<1>6. SessionChanged(a) = IF c.session = None THEN CloseRemote(c) ELSE c
  BY DEF SessionChanged, RemoteHears, b
<1> HIDE DEF c
<1>7. CASE c.session = None
  <2>1. /\ Sane(CloseRemote(c)) /\ Same(CloseRemote(c), c)
        /\ CloseRemote(c).remote = FALSE /\ CloseRemote(c).pill = c.pill
        /\ CloseRemote(c).guard = c.guard
    BY <1>4, CloseRemoteKeeps
  <2>2. ~c.pill
    BY <1>1, <1>4, <1>7 DEF Same
  <2>3. Follows(CloseRemote(c))
    BY <2>1, <2>2 DEF Follows
  <2> QED
    BY <1>1, <1>4, <1>6, <1>7, <2>1, <2>3 DEF Same
<1>8. CASE c.session # None
  <2>1. Follows(c)
    BY <1>5, <1>8 DEF Follows
  <2> QED
    BY <1>1, <1>4, <1>6, <1>8, <2>1 DEF Same
<1> QED
  BY <1>7, <1>8

LEMMA SetSessionKeeps ==
  ASSUME NEW a, Sane(a), NEW s \in Sessions
  PROVE  /\ Sane(SetSession(a, s)) /\ Follows(SetSession(a, s))
         /\ SetSession(a, s).session = s /\ SetSession(a, s).backup = s
         /\ SetSession(a, s).gen = a.gen /\ SetSession(a, s).guard = a.guard
<1> DEFINE b == [a EXCEPT !.session = s, !.backup = s]
<1>1. /\ Sane(b) /\ b.session = s /\ b.backup = s /\ b.gen = a.gen /\ b.guard = a.guard
  BY DEF Sane, Apps
<1>2. SetSession(a, s) = SessionChanged(b)
  BY DEF SetSession
<1> HIDE DEF b
<1> QED
  BY <1>1, <1>2, SessionChangedKeeps DEF Same

LEMMA ClearSessionKeeps ==
  ASSUME NEW a, Sane(a)
  PROVE  /\ Sane(ClearSession(a)) /\ Follows(ClearSession(a))
         /\ ClearSession(a).session = None /\ ClearSession(a).backup = None
         /\ ClearSession(a).gen = a.gen + 1
<1> DEFINE b == [a EXCEPT !.session = None, !.backup = None, !.gen = @ + 1]
<1>1. /\ Sane(b) /\ b.session = None /\ b.backup = None /\ b.gen = a.gen + 1
  <2> DEFINE n == a.gen + 1
  <2>1. a.gen \in Nat /\ n \in Nat
    BY DEF Sane, Apps
  <2>2. b = [a EXCEPT !.session = None, !.backup = None, !.gen = n]
    OBVIOUS
  <2> HIDE DEF n, b
  <2>3. Sane(b) /\ b.session = None /\ b.backup = None /\ b.gen = n
    BY <2>1, <2>2 DEF Sane, Apps
  <2> QED
    BY <2>3 DEF n
<1>2. ClearSession(a) = SessionChanged(b)
  BY DEF ClearSession
<1> HIDE DEF b
<1> QED
  BY <1>1, <1>2, SessionChangedKeeps DEF Same

-----------------------------------------------------------------------------
(* What a step does to the session *)

(* From a to b the session, its backup and the generation are kept; the     *)
(* session is set, for the play it was for; or it is cleared.               *)
Cleared(a, b) == b.session = None /\ b.backup = None /\ b.gen = a.gen + 1
Renewed(a, b) ==
  /\ a.session # None /\ b.session # None /\ b.backup = b.session /\ b.gen = a.gen
  /\ b.session.play = a.session.play
Goes(a, b) == Sane(b) /\ Follows(b) /\ (Same(b, a) \/ Renewed(a, b) \/ Cleared(a, b))

LEMMA GuardForIsGuard ==
  ASSUME NEW a, Sane(a), a.session # None
  PROVE  /\ GuardFor(a) \in [of : Plays \cup {None}, saw : BOOLEAN]
         /\ GuardFor(a).of = a.session.play
         /\ GuardFor(a).saw => a.guard = [of |-> a.session.play, saw |-> TRUE]
<1>1. a.guard \in [of : Plays \cup {None}, saw : BOOLEAN] /\ a.session \in Sessions
  BY DEF Sane, Apps
<1>2. a.session.play \in Plays
  BY <1>1 DEF Sessions
<1> QED
  BY <1>1, <1>2 DEF GuardFor

LEMMA ShowGoes ==
  ASSUME NEW a, Sane(a), Follows(a), NEW busy \in BOOLEAN
  PROVE  /\ Goes(a, Show(a, busy))
         /\ Same(Show(a, busy), a) \/ Cleared(a, Show(a, busy))
         /\ ~Same(Show(a, busy), a) => a.session # None /\ ~busy /\ AllowsTeardown(GuardFor(a))
<1>1. a.pill \in BOOLEAN
  BY DEF Sane, Apps
<1>2. CASE a.session = None \/ ~a.pill
  BY <1>2 DEF Show, Goes, Same
<1>3. CASE a.session # None /\ a.pill /\ busy
  <2> DEFINE g == [of |-> a.session.play, saw |-> TRUE]
             b == [a EXCEPT !.guard = g]
  <2>1. g \in [of : Plays \cup {None}, saw : BOOLEAN]
    BY <1>3 DEF Sane, Apps, Sessions
  <2>2. Show(a, busy) = b
    BY <1>3 DEF Show
  <2> HIDE DEF g
  <2>3. Sane(b) /\ Same(b, a) /\ Follows(b)
    BY <2>1 DEF Sane, Apps, Same, Follows
  <2> QED
    BY <2>2, <2>3 DEF Goes
<1>4. CASE a.session # None /\ a.pill /\ ~busy
  <2> DEFINE g == GuardFor(a)
             b == [a EXCEPT !.guard = g]
  <2>1. g \in [of : Plays \cup {None}, saw : BOOLEAN]
    BY <1>4, GuardForIsGuard
  <2> HIDE DEF g
  <2>2. Sane(b) /\ Same(b, a) /\ Follows(b) /\ b.guard = g
    BY <2>1 DEF Sane, Apps, Same, Follows
  <2>3. Show(a, busy) = IF AllowsTeardown(b.guard) THEN ClearSession(UnmountPill(b)) ELSE b
    BY <1>4 DEF Show, g
  <2> HIDE DEF b
  <2>4. CASE AllowsTeardown(b.guard)
    <3>1. Sane(UnmountPill(b)) /\ Same(UnmountPill(b), b)
      BY <2>2, UnmountPillKeeps
    <3>2. /\ Sane(ClearSession(UnmountPill(b))) /\ Follows(ClearSession(UnmountPill(b)))
          /\ Cleared(UnmountPill(b), ClearSession(UnmountPill(b)))
      BY <3>1, ClearSessionKeeps DEF Cleared
    <3> QED
      BY <1>4, <2>2, <2>3, <2>4, <3>1, <3>2 DEF Goes, Cleared, Same, g
  <2>5. CASE ~AllowsTeardown(b.guard)
    BY <2>2, <2>3, <2>5 DEF Goes
  <2> QED
    BY <2>4, <2>5
<1> QED
  BY <1>1, <1>2, <1>3, <1>4

LEMMA GiveUpGoes ==
  ASSUME NEW a, Sane(a)
  PROVE  Goes(a, GiveUp(a)) /\ (Same(GiveUp(a), a) \/ Cleared(a, GiveUp(a)))
<1> DEFINE u == [a EXCEPT !.feed = Unbound]
           b == CloseRemote(u)
<1>1. Sane(u) /\ Same(u, a) /\ u.pill = a.pill
  BY UnboundIsAwake, WithFeed
<1> HIDE DEF u
<1>2. Sane(b) /\ Same(b, u) /\ b.pill = a.pill /\ b.remote = FALSE
  BY <1>1, CloseRemoteKeeps
<1>3. GiveUp(a) = IF a.pill THEN ClearSession(UnmountPill(b)) ELSE b
  BY DEF GiveUp, u
<1> HIDE DEF b
<1>4. CASE a.pill
  <2>1. Sane(UnmountPill(b)) /\ Same(UnmountPill(b), b)
    BY <1>2, UnmountPillKeeps
  <2>2. /\ Sane(ClearSession(UnmountPill(b))) /\ Follows(ClearSession(UnmountPill(b)))
        /\ Cleared(UnmountPill(b), ClearSession(UnmountPill(b)))
    BY <2>1, ClearSessionKeeps DEF Cleared
  <2> QED
    BY <1>1, <1>2, <1>3, <1>4, <2>1, <2>2 DEF Goes, Cleared, Same
<1>5. CASE ~a.pill
  <2>1. Follows(b)
    BY <1>2, <1>5 DEF Follows
  <2> QED
    BY <1>1, <1>2, <1>3, <1>5, <2>1 DEF Goes, Same
<1> QED
  BY <1>4, <1>5

LEMMA PinOtherGoes ==
  ASSUME NEW a, Sane(a), Follows(a), NEW key \in Keys
  PROVE  /\ Goes(a, PinOther(a, key)) /\ PinOther(a, key).guard = a.guard
         /\ Same(PinOther(a, key), a) \/ Renewed(a, PinOther(a, key))
<1>1. CASE a.session # None /\ a.session.dev = key[1]
  <2> DEFINE s == [a.session EXCEPT !.pin = 1 - key[2]]
  <2>1. a.session \in Sessions /\ 1 - key[2] \in {0, 1}
    BY <1>1 DEF Sane, Apps, Keys
  <2>2. s \in Sessions /\ s.play = a.session.play /\ s # None
    <3>1. s \in Sessions /\ s.play = a.session.play
      BY <2>1 DEF Sessions
    <3> QED
      BY <3>1, SessionAssumption
  <2>3. PinOther(a, key) = SetSession(a, s)
    BY <1>1 DEF PinOther
  <2> HIDE DEF s
  <2> QED
    BY <1>1, <2>2, <2>3, SetSessionKeeps DEF Goes, Renewed
<1>2. CASE ~(a.session # None /\ a.session.dev = key[1])
  BY <1>2 DEF PinOther, Goes, Same
<1> QED
  BY <1>1, <1>2

-----------------------------------------------------------------------------
(* The invariant *)

(* What may become a session was begun after the last teardown: the session, *)
(* its backup, what is probed for, and a request that still counts.          *)
HistorySound ==
  /\ app.session # None => app.session.play \notin torn
  /\ app.backup # None => app.backup.play \notin torn
  /\ probe # None => probe.play \notin torn
  /\ \A p \in Plays : plays[p].at = "sent" =>
       plays[p].gen <= app.gen /\ (p \in torn => plays[p].gen < app.gen)
  /\ \A p \in torn : plays[p].at # "unused"
BackupHeld ==
  app.session # None => app.backup = app.session \/ (robbed /\ app.backup = None)

IInv == TypeOK /\ Sane(app) /\ Follows(app) /\ HistorySound /\ BackupHeld

PlayRecords == [at : {"unused", "sent", "over"}, dev : Devices, gen : Nat]

LEMMA NoPlayIsPlay == NoPlay \in PlayRecords /\ PlayOver \in PlayRecords /\ PlayOver.at = "over"
<1>1. (CHOOSE d \in Devices : TRUE) \in Devices
  BY SenderAssumption
<1> QED
  BY <1>1 DEF NoPlay, PlayOver, PlayRecords

LEMMA LoadedIsSane ==
  ASSUME NEW session \in Sessions \cup {None}, NEW backup \in Sessions \cup {None}
  PROVE  /\ Sane(LoadedWith(session, backup)) /\ Follows(LoadedWith(session, backup))
         /\ LoadedWith(session, backup).session = session
         /\ LoadedWith(session, backup).backup = backup
<1> DEFINE a == LoadedWith(session, backup)
<1>1. /\ a.session = session /\ a.backup = backup /\ ~a.pill /\ ~a.remote /\ a.feed = Unbound
  BY DEF LoadedWith
<1>2. Awake(Unbound)
  BY UnboundIsAwake
<1>3. NoPolls \in [Polls -> 0..MaxPolls]
  BY SenderAssumption DEF NoPolls
<1>4. Unbound \in Feeds(Keys)
  BY <1>2 DEF Awake
<1>5. a \in Apps
  <2> DEFINE g == [of |-> None, saw |-> FALSE]
  <2>1. g \in [of : Plays \cup {None}, saw : BOOLEAN]
    OBVIOUS
  <2>2. a = [session |-> session, backup |-> backup, gen |-> 0, pill |-> FALSE, remote |-> FALSE,
             listening |-> FALSE, feed |-> Unbound, polls |-> NoPolls, guard |-> g]
    BY DEF LoadedWith
  <2> HIDE DEF g, a
  <2> QED
    BY <1>3, <1>4, <2>1, <2>2 DEF Apps
<1> QED
  BY <1>1, <1>2, <1>5 DEF Sane, Follows

LEMMA InitHolds == Init => IInv
<1> SUFFICES ASSUME Init PROVE IInv
  OBVIOUS
<1>1. Sane(app) /\ Follows(app) /\ app.session = None /\ app.backup = None
  BY LoadedIsSane DEF Init
<1>2. TypeOK
  <2>1. 0 \in 0..MaxTries /\ 0 \in 0..MaxLoads
    BY SenderAssumption
  <2>2. plays \in [Plays -> PlayRecords]
    BY NoPlayIsPlay DEF Init
  <2>3. app \in Apps
    BY <1>1 DEF Sane
  <2> QED
    BY <2>1, <2>2, <2>3 DEF Init, TypeOK, PlayRecords
<1>3. HistorySound /\ BackupHeld
  BY <1>1 DEF Init, HistorySound, BackupHeld, NoPlay
<1> QED
  BY <1>1, <1>2, <1>3 DEF IInv

LEMMA Typed ==
  ASSUME TypeOK
  PROVE  /\ app.session \in Sessions \cup {None} /\ app.backup \in Sessions \cup {None}
         /\ app.gen \in Nat /\ app.feed \in Feeds(Keys) /\ app.polls \in [Polls -> 0..MaxPolls]
         /\ app.pill \in BOOLEAN /\ app.remote \in BOOLEAN /\ plays \in [Plays -> PlayRecords]
         /\ \A p \in Plays : plays[p].gen \in Nat /\ plays[p].dev \in Devices
  BY DEF TypeOK, Apps, PlayRecords

(* Requests may have ended, and the probe with them. *)
RequestsEnd ==
  /\ plays' \in [Plays -> PlayRecords]
  /\ \A p \in Plays : plays'[p] = plays[p] \/ (plays'[p].at = "over" /\ plays[p].at # "unused")
  /\ probe' = probe \/ probe' = None

LEMMA SameRequests ==
  ASSUME TypeOK, UNCHANGED <<plays, probe>> PROVE RequestsEnd
  BY Typed DEF RequestsEnd

(* A step that makes app a sane record b keeps the invariant, if a session  *)
(* that is new was begun after the last teardown.                           *)
LEMMA BecomesKeeps ==
  ASSUME IInv, NEW b, Becomes(b), Sane(b), Follows(b), RequestsEnd,
         \/ Same(b, app)
         \/ Cleared(app, b)
         \/ /\ b.session # None /\ b.session.play \notin torn
            /\ b.backup = b.session /\ b.gen = app.gen,
         settle' \in BOOLEAN, stopping' \in BOOLEAN, aged' \subseteq Plays,
         tries' \in 0..MaxTries, loads' \in 0..MaxLoads
  PROVE  IInv'
<1>1. app' = b /\ robbed' = (robbed /\ b.backup = None)
  BY DEF Becomes
<1>2. torn \subseteq Plays /\ probe \in Sessions \cup {None} /\ robbed \in BOOLEAN
  BY DEF IInv, TypeOK
<1>3. /\ torn' \subseteq Plays
      /\ \A p \in torn' : p \in torn \/ (Cleared(app, b) /\ plays[p].at # "unused")
      /\ probe # None => probe.play \notin torn'
  <2>1. CASE torn' = torn
    BY <1>2, <2>1 DEF IInv, HistorySound
  <2>2. CASE torn' # torn
    <3>1. app.session # None /\ b.session = None
      BY <2>2 DEF Becomes
    <3>2. Cleared(app, b)
      BY <3>1 DEF Same
    <3>3. torn' = torn \cup (Begun \ (IF probe = None THEN {} ELSE {probe.play}))
      BY <3>1 DEF Becomes
    <3> QED
      BY <1>2, <3>2, <3>3 DEF Begun, IInv, HistorySound
  <2> QED
    BY <2>1, <2>2
<1>4. TypeOK'
  BY <1>1, <1>2, <1>3 DEF TypeOK, RequestsEnd, Sane, PlayRecords
<1>5. HistorySound'
  <2>1. app'.session # None => app'.session.play \notin torn'
    <3>1. CASE Cleared(app, b)
      BY <1>1, <3>1 DEF Cleared
    <3>2. CASE ~Cleared(app, b)
      BY <1>1, <1>3, <3>2 DEF Same, IInv, HistorySound
    <3> QED
      BY <3>1, <3>2
  <2>2. app'.backup # None => app'.backup.play \notin torn'
    <3>1. CASE Cleared(app, b)
      BY <1>1, <3>1 DEF Cleared
    <3>2. CASE ~Cleared(app, b)
      BY <1>1, <1>3, <3>2 DEF Same, IInv, HistorySound
    <3> QED
      BY <3>1, <3>2
  <2>3. probe' # None => probe'.play \notin torn'
    BY <1>3 DEF RequestsEnd
  <2>4. ASSUME NEW p \in Plays, plays'[p].at = "sent"
        PROVE  plays'[p].gen <= app'.gen /\ (p \in torn' => plays'[p].gen < app'.gen)
    <3>1. plays'[p] = plays[p] /\ plays[p].gen \in Nat /\ app.gen \in Nat
      BY <2>4, Typed DEF RequestsEnd, IInv
    <3>2. plays[p].gen <= app.gen /\ (p \in torn => plays[p].gen < app.gen)
      BY <2>4, <3>1 DEF IInv, HistorySound
    <3>3. CASE Cleared(app, b)
      BY <1>1, <3>1, <3>2, <3>3 DEF Cleared
    <3>4. CASE ~Cleared(app, b)
      BY <1>1, <1>3, <3>1, <3>2, <3>4 DEF Same
    <3> QED
      BY <3>3, <3>4
  <2>5. ASSUME NEW p \in torn' PROVE plays'[p].at # "unused"
    <3>1. p \in Plays /\ plays[p].at # "unused"
      BY <1>3 DEF IInv, HistorySound
    <3> QED
      BY <3>1 DEF RequestsEnd
  <2> QED
    BY <2>1, <2>2, <2>3, <2>4, <2>5 DEF HistorySound
<1>6. BackupHeld'
  BY <1>1 DEF BackupHeld, IInv, Same, Cleared
<1> QED
  BY <1>1, <1>4, <1>5, <1>6 DEF IInv

LEMMA FreesKeeps ==
  ASSUME IInv, NEW b, Frees(b), Goes(app, b) PROVE IInv'
<1>1. RequestsEnd
  BY SameRequests DEF Frees, IInv
<1>2. Renewed(app, b) => b.session # None /\ b.session.play \notin torn
                        /\ b.backup = b.session /\ b.gen = app.gen
  BY DEF Renewed, IInv, HistorySound
<1> QED
  BY <1>1, <1>2, BecomesKeeps DEF Frees, Goes, IInv, TypeOK

-----------------------------------------------------------------------------
(* The steps *)

LEMMA CommandsKeep ==
  ASSUME IInv, NEW p \in Plays, NEW d \in Devices, CastPlay(p, d) PROVE IInv'
<1>1. /\ plays[p].at = "unused" /\ settle' = TRUE
      /\ plays' = [plays EXCEPT ![p] = [at |-> "sent", dev |-> d, gen |-> app.gen]]
      /\ UNCHANGED <<app, aged, stopping, probe, tries, loads, torn, robbed>>
  BY DEF CastPlay
<1>2. plays \in [Plays -> PlayRecords] /\ app.gen \in Nat
  BY Typed DEF IInv
<1>3. plays' \in [Plays -> PlayRecords]
  BY <1>1, <1>2 DEF PlayRecords
<1>4. TypeOK'
  BY <1>1, <1>3 DEF IInv, TypeOK, PlayRecords
<1>5. p \notin torn
  BY <1>1 DEF IInv, HistorySound
<1>6. HistorySound'
  BY <1>1, <1>2, <1>5 DEF IInv, HistorySound, TypeOK
<1> QED
  BY <1>1, <1>4, <1>6 DEF IInv, BackupHeld

LEMMA AnswersOfPlaysKeep ==
  ASSUME IInv, NEW p \in Plays, PlayAnswered(p) \/ PlayFails(p) PROVE IInv'
<1>1. /\ plays[p].at = "sent" /\ plays' = [plays EXCEPT ![p] = PlayOver] /\ settle' = TRUE
      /\ UNCHANGED <<aged, stopping, probe, tries, loads>>
  BY DEF PlayAnswered, PlayFails
<1>2. plays \in [Plays -> PlayRecords]
  BY Typed DEF IInv
<1>3. RequestsEnd
  BY <1>1, <1>2, NoPlayIsPlay DEF RequestsEnd
<1>4. CASE PlayAnswered(p) /\ plays[p].gen = app.gen
  <2>1. NewSession(p) \in Sessions /\ NewSession(p).play = p
    BY Typed DEF NewSession, Sessions, IInv
  <2>2. NewSession(p) # None
    BY <2>1, SessionAssumption
  <2>3. p \notin torn
    BY <1>1, <1>4, Typed DEF IInv, HistorySound
  <2>4. Becomes(SetSession(app, NewSession(p)))
    BY <1>4 DEF PlayAnswered
  <2> DEFINE b == SetSession(app, NewSession(p))
  <2>5. /\ Sane(b) /\ Follows(b) /\ b.session = NewSession(p) /\ b.backup = b.session
        /\ b.gen = app.gen
    BY <2>1, SetSessionKeeps DEF IInv
  <2> HIDE DEF b
  <2> QED
    BY <1>1, <1>3, <2>1, <2>2, <2>3, <2>4, <2>5, BecomesKeeps DEF IInv, TypeOK, b
<1>5. CASE PlayAnswered(p) /\ plays[p].gen # app.gen
  BY <1>1, <1>3, <1>5, BecomesKeeps DEF PlayAnswered, IInv, TypeOK, Same
<1>6. CASE PlayFails(p)
  <2>1. UNCHANGED <<app, torn, robbed>>
    BY <1>6 DEF PlayFails
  <2>2. TypeOK'
    BY <1>1, <1>3, <2>1 DEF IInv, TypeOK, RequestsEnd, PlayRecords
  <2>3. HistorySound'
    BY <1>1, <1>3, <2>1 DEF IInv, TypeOK, HistorySound, RequestsEnd
  <2> QED
    BY <2>1, <2>2, <2>3 DEF IInv, BackupHeld
<1> QED
  BY <1>4, <1>5, <1>6

LEMMA StopsKeep ==
  ASSUME IInv, (\E flag \in BOOLEAN : StopPressed(flag)) \/ StopDone PROVE IInv'
<1>1. RequestsEnd
  BY SameRequests DEF StopPressed, StopDone, IInv
<1>2. CASE StopDone
  <2>1. /\ Sane(ClearSession(app)) /\ Follows(ClearSession(app)) /\ Cleared(app, ClearSession(app))
    BY ClearSessionKeeps DEF Cleared, IInv
  <2> QED
    BY <1>1, <1>2, <2>1, BecomesKeeps DEF StopDone, IInv, TypeOK
<1>3. ASSUME NEW flag \in BOOLEAN, StopPressed(flag) PROVE IInv'
  <2> DEFINE b == IF flag THEN UnmountPill(app) ELSE app
  <2>1. Sane(b) /\ Same(b, app) /\ Follows(b)
    BY UnmountPillKeeps DEF IInv, Same, Follows
  <2>2. Becomes(b) /\ stopping' = TRUE /\ UNCHANGED <<plays, settle, aged, probe, tries, loads>>
    BY <1>3 DEF StopPressed
  <2> HIDE DEF b
  <2> QED
    BY <1>1, <2>1, <2>2, BecomesKeeps DEF IInv, TypeOK
<1> QED
  BY <1>2, <1>3

LEMMA WatchersKeep ==
  ASSUME IInv, (\E flag \in BOOLEAN : Dismiss(flag)) \/ OpenRemote \/ LeaveRemote PROVE IInv'
<1>1. ASSUME NEW flag \in BOOLEAN, Dismiss(flag) PROVE IInv'
  <2> DEFINE s == [app.session EXCEPT !.dismissed = flag]
  <2>1. app.session \in Sessions /\ app.session # None
    BY <1>1, Typed DEF Dismiss, IInv
  <2>2. s \in Sessions /\ s.play = app.session.play
    BY <2>1 DEF Sessions
  <2>3. Frees(SetSession(app, s))
    BY <1>1 DEF Dismiss
  <2> HIDE DEF s
  <2>4. s # None
    BY <2>2, SessionAssumption
  <2> QED
    BY <2>1, <2>2, <2>3, <2>4, SetSessionKeeps, FreesKeeps DEF IInv, Goes, Renewed
<1>2. CASE OpenRemote
  <2> DEFINE b == [app EXCEPT !.remote = TRUE, !.listening = TRUE]
  <2>1. Subscribe([app EXCEPT !.remote = TRUE]) = Subscribe(b)
    BY DEF Subscribe, IInv, TypeOK, Apps
  <2>2. Sane(b) /\ Same(b, app) /\ b.pill = app.pill /\ b.remote = TRUE /\ b.session = app.session
    BY DEF IInv, Sane, Apps, Same
  <2>3. app.session # None
    BY <1>2 DEF OpenRemote, IInv, Follows
  <2> HIDE DEF b
  <2>4. Goes(app, Subscribe(b))
    BY <2>2, <2>3, SubscribeKeeps DEF Goes, Same, Follows
  <2> QED
    BY <1>2, <2>1, <2>4, FreesKeeps DEF OpenRemote
<1>3. CASE LeaveRemote
  <2>1. Goes(app, CloseRemote(app))
    BY CloseRemoteKeeps DEF IInv, Goes, Same, Follows
  <2> QED
    BY <1>3, <2>1, FreesKeeps DEF LeaveRemote
<1> QED
  BY <1>1, <1>2, <1>3

LEMMA TicksKeep ==
  ASSUME IInv, PollTick PROVE IInv'
<1>1. Goes(app, PollOnce(app))
  BY PollOnceKeeps DEF IInv, Goes, Same, Follows
<1> QED
  BY <1>1, FreesKeeps DEF PollTick

LEMMA TakenKeeps ==
  ASSUME IInv, NEW p \in Polls, app.polls[p] > 0
  PROVE  /\ Sane(Taken(p)) /\ Same(Taken(p), app) /\ Follows(Taken(p))
         /\ Taken(p).feed = app.feed /\ Taken(p).guard = app.guard
<1> DEFINE n == app.polls[p] - 1
<1>1. app.polls \in [Polls -> 0..MaxPolls] /\ n \in 0..MaxPolls
  BY SenderAssumption, Typed DEF IInv
<1>2. Taken(p) = [app EXCEPT !.polls[p] = n]
  BY DEF Taken
<1> HIDE DEF n
<1> QED
  BY <1>1, <1>2 DEF IInv, Sane, Apps, Same, Follows

LEMMA MissesKeep ==
  ASSUME IInv, NEW p \in Polls, PollMissed(p) PROVE IInv'
<1>1. /\ Sane(Taken(p)) /\ Same(Taken(p), app) /\ Follows(Taken(p))
      /\ Taken(p).feed = app.feed
  BY TakenKeeps DEF PollMissed
<1>2. CASE LastMiss(app.feed)
  <2>1. Goes(app, GiveUp(Taken(p)))
    BY <1>1, GiveUpGoes DEF Goes, Same, Cleared
  <2> QED
    BY <1>2, <2>1, FreesKeeps DEF PollMissed
<1>3. CASE ~LastMiss(app.feed)
  <2> DEFINE a == Taken(p)
             f == Missed(a.feed)
             b == [a EXCEPT !.feed = f]
  <2>1. Awake(f) /\ f.bound = app.feed.bound
    BY <1>1, <1>3, AnswersKeepAwake DEF IInv, Sane
  <2>2. Frees(b)
    BY <1>3 DEF PollMissed
  <2> HIDE DEF f, a
  <2>3. Sane(b) /\ Same(b, a) /\ b.feed = f /\ b.pill = a.pill /\ b.remote = a.remote
    BY <1>1, <2>1, WithFeed DEF a
  <2>4. Follows(b)
    BY <1>1, <2>1, <2>3 DEF Follows, Same, a
  <2> QED
    BY <1>1, <2>2, <2>3, <2>4, FreesKeeps DEF Goes, Same, a
<1> QED
  BY <1>2, <1>3

(* The record that Show is given when a state of the receiver arrives. *)
Informed(a, f) == [a EXCEPT !.feed = f]
LEMMA InformedIsSane ==
  ASSUME NEW a, Sane(a), Follows(a), NEW f, Awake(f), f.bound = a.feed.bound
  PROVE  /\ Sane(Informed(a, f)) /\ Follows(Informed(a, f)) /\ Same(Informed(a, f), a)
         /\ Informed(a, f).guard = a.guard /\ Informed(a, f).session = a.session
  BY WithFeed DEF Informed, Follows, Same

LEMMA HitsKeep ==
  ASSUME IInv, NEW p \in Polls, NEW busy \in BOOLEAN, NEW walked \in BOOLEAN,
         PollHit(p, busy, walked)
  PROVE  IInv'
<1> DEFINE a == IF walked THEN PinOther(Taken(p), p.key) ELSE Taken(p)
           f == Answered(a.feed)
           b == Informed(a, f)
<1>1. Sane(Taken(p)) /\ Same(Taken(p), app) /\ Follows(Taken(p))
  BY TakenKeeps DEF PollHit
<1>2. Goes(Taken(p), a) /\ (Same(a, Taken(p)) \/ Renewed(Taken(p), a))
  <2>1. p.key \in Keys
    BY DEF Polls
  <2> QED
    BY <1>1, <2>1, PinOtherGoes DEF Goes, Same
<1> HIDE DEF a
<1>3. Awake(f) /\ f.bound = a.feed.bound
  BY <1>2, AnswersKeepAwake DEF Goes, Sane
<1> HIDE DEF f
<1>4. Sane(b) /\ Follows(b) /\ Same(b, a)
  BY <1>2, <1>3, InformedIsSane DEF Goes
<1>5. Frees(Show(b, busy))
  BY DEF PollHit, a, f, Informed
<1> HIDE DEF b
<1>6. Goes(b, Show(b, busy)) /\ (Same(Show(b, busy), b) \/ Cleared(b, Show(b, busy)))
  BY <1>4, ShowGoes
<1>7. Goes(app, Show(b, busy))
  BY <1>1, <1>2, <1>4, <1>6 DEF Goes, Same, Renewed, Cleared
<1> QED
  BY <1>5, <1>7, FreesKeeps

LEMMA SocketKeeps ==
  ASSUME IInv,
         \/ \E busy \in BOOLEAN : SocketState(busy)
         \/ SocketLog \/ SocketFails \/ SocketDrops \/ SocketRetry
  PROVE  IInv'
<1>1. Sane(app) /\ Follows(app) /\ Awake(app.feed)
  BY DEF IInv, Sane
<1>2. ASSUME NEW f, Awake(f), f.bound = app.feed.bound, Frees(Informed(app, f)) PROVE IInv'
  <2>1. Goes(app, Informed(app, f))
    BY <1>1, <1>2, InformedIsSane DEF Goes
  <2> QED
    BY <1>2, <2>1, FreesKeeps
<1>3. ASSUME NEW busy \in BOOLEAN, SocketState(busy) PROVE IInv'
  <2> DEFINE f == Answered(Heard(app.feed))
             b == Informed(app, f)
  <2>1. Awake(f) /\ f.bound = app.feed.bound
    BY <1>1, AnswersKeepAwake
  <2> HIDE DEF f
  <2>2. Sane(b) /\ Follows(b) /\ Same(b, app)
    BY <1>1, <2>1, InformedIsSane
  <2>3. Frees(Show(b, busy))
    BY <1>3 DEF SocketState, f, Informed
  <2> HIDE DEF b
  <2>4. Goes(app, Show(b, busy))
    BY <2>2, ShowGoes DEF Goes, Same, Cleared
  <2> QED
    BY <2>3, <2>4, FreesKeeps
<1>4. CASE SocketLog
  BY <1>1, <1>2, <1>4, AnswersKeepAwake DEF SocketLog, Informed
<1>5. CASE SocketFails
  <2>1. app.feed.bound # None
    BY <1>1, <1>5 DEF SocketFails, Awake
  <2> QED
    BY <1>1, <1>2, <1>5, <2>1, PollingIsAwake DEF SocketFails, Informed
<1>6. CASE SocketDrops
  <2>1. app.feed.bound # None
    BY <1>1, <1>6 DEF SocketDrops, Awake
  <2> QED
    BY <1>1, <1>2, <1>6, <2>1, PollingIsAwake DEF SocketDrops, Informed
<1>7. CASE SocketRetry
  <2>1. app.feed.bound # None
    BY <1>1, <1>7 DEF SocketRetry, Awake
  <2> QED
    BY <1>1, <1>2, <1>7, <2>1, PollingIsAwake DEF SocketRetry, Informed
<1> QED
  BY <1>3, <1>4, <1>5, <1>6, <1>7

LEMMA LoadKeeps ==
  ASSUME IInv, NEW relaunch \in BOOLEAN, Load(relaunch) PROVE IInv'
<1> DEFINE session == IF relaunch THEN None ELSE app.session
           a == LoadedWith(session, app.backup)
<1>1. session \in Sessions \cup {None} /\ app.backup \in Sessions \cup {None}
  BY Typed DEF IInv
<1>2. Sane(a) /\ Follows(a) /\ a.session = session /\ a.backup = app.backup
  BY <1>1, LoadedIsSane
<1>3. app' = a \/ (app' = MountPill(a) /\ a.session # None)
  BY DEF Load
<1> HIDE DEF a
<1>4. Sane(app') /\ Follows(app') /\ app'.session = session /\ app'.backup = app.backup
  BY <1>2, <1>3, MountPillKeeps DEF Same, Follows
<1>5. /\ plays' = [p \in Plays |-> IF plays[p].at = "sent" THEN PlayOver ELSE plays[p]]
      /\ settle' = FALSE /\ stopping' = FALSE /\ probe' = None /\ loads' \in 0..MaxLoads
      /\ UNCHANGED <<aged, torn, robbed>>
  BY SenderAssumption DEF Load, IInv, TypeOK
<1>6. tries' \in 0..MaxTries
  BY SenderAssumption DEF Load, IInv, TypeOK
<1>7. /\ plays' \in [Plays -> PlayRecords]
      /\ \A p \in Plays : /\ plays'[p].at # "sent"
                          /\ plays[p].at # "unused" => plays'[p].at # "unused"
  BY <1>5, Typed, NoPlayIsPlay DEF IInv
<1>8. TypeOK'
  BY <1>4, <1>5, <1>6, <1>7 DEF IInv, TypeOK, Sane, PlayRecords
<1>9. HistorySound'
  BY <1>4, <1>5, <1>7 DEF IInv, TypeOK, HistorySound
<1>10. BackupHeld'
  BY <1>4, <1>5 DEF IInv, BackupHeld
<1> QED
  BY <1>4, <1>8, <1>9, <1>10 DEF IInv

LEMMA ReattachKeeps ==
  ASSUME IInv,
         ReattachBegins \/ BackupUseless \/ ReattachUnanswered \/ ReattachIdle \/ ReattachPlaying
  PROVE  IInv'
<1>1. tries \in 0..MaxTries /\ MaxTries \in 0..MaxTries
  BY SenderAssumption DEF IInv, TypeOK
<1>2. CASE ReattachBegins
  <2>1. /\ probe' = app.backup /\ app.backup # None /\ tries' \in 0..MaxTries
        /\ UNCHANGED <<app, plays, settle, aged, stopping, loads, torn, robbed>>
    BY <1>1, <1>2, SenderAssumption DEF ReattachBegins
  <2>2. TypeOK'
    BY <2>1, Typed DEF IInv, TypeOK
  <2> QED
    BY <2>1, <2>2 DEF IInv, HistorySound, BackupHeld
<1>3. ASSUME app' = [app EXCEPT !.backup = None], app.session = None \/ robbed', robbed' \in BOOLEAN,
             probe' \in {probe, None}, tries' \in 0..MaxTries,
             UNCHANGED <<plays, settle, aged, stopping, loads, torn>>
      PROVE  IInv'
  <2>1. /\ Sane(app') /\ Follows(app') /\ app'.backup = None
        /\ app'.session = app.session /\ app'.gen = app.gen
    BY <1>3 DEF IInv, Sane, Apps, Follows
  <2>2. TypeOK'
    BY <1>3, <2>1 DEF IInv, TypeOK, Sane
  <2>3. HistorySound' /\ BackupHeld'
    BY <1>3, <2>1 DEF IInv, HistorySound, BackupHeld
  <2> QED
    BY <2>1, <2>2, <2>3 DEF IInv
<1>4. CASE BackupUseless
  <2>1. robbed \in BOOLEAN
    BY DEF IInv, TypeOK
  <2> QED
    BY <1>1, <1>3, <1>4, <2>1 DEF BackupUseless
<1>5. CASE ReattachIdle
  <2>1. robbed' \in BOOLEAN /\ (app.session = None \/ robbed')
    BY <1>5 DEF ReattachIdle, IInv, TypeOK
  <2> QED
    BY <1>1, <1>3, <1>5, <2>1 DEF ReattachIdle
<1>6. CASE ReattachUnanswered
  <2>1. /\ probe' = None
        /\ UNCHANGED <<app, plays, settle, aged, stopping, tries, loads, torn, robbed>>
    BY <1>6 DEF ReattachUnanswered
  <2>2. TypeOK'
    BY <2>1 DEF IInv, TypeOK
  <2> QED
    BY <2>1, <2>2 DEF IInv, HistorySound, BackupHeld
<1>7. CASE ReattachPlaying
  <2> DEFINE b == IF app.session = None THEN SetSession(app, probe) ELSE app
  <2>1. /\ probe # None /\ probe \in Sessions /\ probe.play \notin torn
        /\ probe' = None /\ tries' = MaxTries /\ Becomes(b)
        /\ UNCHANGED <<plays, settle, aged, stopping, loads>>
    BY <1>7 DEF ReattachPlaying, IInv, TypeOK, HistorySound
  <2>2. RequestsEnd
    BY <2>1, Typed DEF RequestsEnd, IInv
  <2>3. /\ Sane(b) /\ Follows(b)
        /\ Same(b, app) \/ (/\ b.session # None /\ b.session.play \notin torn
                            /\ b.backup = b.session /\ b.gen = app.gen)
    BY <2>1, SetSessionKeeps DEF IInv, Same
  <2> HIDE DEF b
  <2> QED
    BY <1>1, <2>1, <2>2, <2>3, BecomesKeeps DEF IInv, TypeOK
<1> QED
  BY <1>2, <1>4, <1>5, <1>6, <1>7

LEMMA TimeKeeps ==
  ASSUME IInv, SettleEnds \/ (\E p \in Plays : GraceEnds(p)) \/ UNCHANGED vars PROVE IInv'
<1>1. /\ UNCHANGED <<app, plays, stopping, probe, tries, loads, torn, robbed>>
      /\ settle' \in BOOLEAN /\ aged' \subseteq Plays
  BY DEF SettleEnds, GraceEnds, vars, IInv, TypeOK
<1>2. TypeOK'
  BY <1>1 DEF IInv, TypeOK
<1> QED
  BY <1>1, <1>2 DEF IInv, HistorySound, BackupHeld

LEMMA StepKeeps == IInv /\ [Next]_vars => IInv'
<1> SUFFICES ASSUME IInv, [Next]_vars PROVE IInv'
  OBVIOUS
<1>1. ASSUME NEW p \in Plays, NEW d \in Devices, CastPlay(p, d) PROVE IInv'
  BY <1>1, CommandsKeep
<1>2. ASSUME NEW p \in Plays, PlayAnswered(p) \/ PlayFails(p) \/ GraceEnds(p) PROVE IInv'
  BY <1>2, AnswersOfPlaysKeep, TimeKeeps
<1>3. ASSUME NEW flag \in BOOLEAN,
             StopPressed(flag) \/ Dismiss(flag) \/ Load(flag) \/ SocketState(flag)
      PROVE  IInv'
  BY <1>3, StopsKeep, WatchersKeep, LoadKeeps, SocketKeeps
<1>4. CASE Answers
  BY <1>4, MissesKeep, HitsKeep DEF Answers
<1> QED
  BY <1>1, <1>2, <1>3, <1>4, StopsKeep, WatchersKeep, TicksKeep, SocketKeeps, ReattachKeeps,
     TimeKeeps DEF Next

LEMMA Invariance == Spec => []IInv
  BY InitHolds, StepKeeps, PTL DEF Spec

-----------------------------------------------------------------------------

(* The type invariant, for all receivers and bounds. *)
THEOREM TypeCorrect == Spec => []TypeOK
<1>1. IInv => TypeOK
  BY DEF IInv
<1> QED
  BY <1>1, Invariance, PTL

(* No session is one that was begun before the session was last torn down. *)
THEOREM TornSessionsStayDown == Spec => []TornStaysDown
<1>1. IInv => TornStaysDown
  BY DEF IInv, HistorySound, TornStaysDown
<1> QED
  BY <1>1, Invariance, PTL

(* A relaunch would find the session there is, unless a reattach took it. *)
THEOREM BackupMatches == Spec => []BackupIsSession
<1>1. IInv => BackupIsSession
  BY DEF IInv, BackupHeld, BackupIsSession
<1> QED
  BY <1>1, Invariance, PTL

(* Pill and remote watch the session there is. *)
THEOREM SubscribersFollow == Spec => []FeedFollows
<1>1. IInv => FeedFollows
  BY DEF IInv, Follows, FeedFollows
<1> QED
  BY <1>1, Invariance, PTL

(* A bound session is watched by something that notices its silence. *)
THEOREM SilenceIsNoticed == Spec => []Watched
<1>1. IInv => Watched
  BY DEF IInv, Sane, Awake, Watched
<1> QED
  BY <1>1, Invariance, PTL

(* No idle frame ends a session while a play is on its way, nor before the  *)
(* session was seen playing or had its grace.                               *)
THEOREM StartsSurviveIdle == Spec => StartSurvivesIdle
<1> DEFINE Idle == SocketState(FALSE) \/ \E p \in Polls, walked \in BOOLEAN : PollHit(p, FALSE, walked)
           Due == /\ InFlight = {}
                  /\ \/ app.session.play \in aged
                     \/ app.guard = [of |-> app.session.play, saw |-> TRUE]
           Ends == app.session # None /\ app'.session = None /\ Idle
<1>1. ASSUME IInv, NEW a, Sane(a), Follows(a), a.guard = app.guard,
             a.session # None => a.session.play = app.session.play,
             app' = Show(a, FALSE), a.session # None, app'.session = None
      PROVE  Due
  <2>1. AllowsTeardown(GuardFor(a))
    BY <1>1, ShowGoes DEF Same
  <2>2. InFlight = {} /\ (GuardFor(a).saw \/ GuardFor(a).of \in aged)
    BY <2>1 DEF AllowsTeardown, Settling
  <2>3. /\ GuardFor(a).of = a.session.play
        /\ GuardFor(a).saw => a.guard = [of |-> a.session.play, saw |-> TRUE]
    BY <1>1, GuardForIsGuard
  <2> QED
    BY <1>1, <2>2, <2>3
<1>2. IInv /\ Ends => Due
  <2> SUFFICES ASSUME IInv, Ends PROVE Due
    OBVIOUS
  <2>1. CASE SocketState(FALSE)
    <3> DEFINE f == Answered(Heard(app.feed))
               b == Informed(app, f)
    <3>1. Awake(f) /\ f.bound = app.feed.bound
      BY AnswersKeepAwake DEF IInv, Sane
    <3> HIDE DEF f
    <3>2. Sane(b) /\ Follows(b) /\ b.guard = app.guard /\ b.session = app.session
      BY <3>1, InformedIsSane DEF IInv
    <3>3. app' = Show(b, FALSE)
      BY <2>1 DEF SocketState, Frees, Becomes, Informed, f
    <3> HIDE DEF b, Due
    <3> QED
      BY <1>1, <3>2, <3>3
  <2>2. ASSUME NEW p \in Polls, NEW walked \in BOOLEAN, PollHit(p, FALSE, walked) PROVE Due
    <3> DEFINE a == IF walked THEN PinOther(Taken(p), p.key) ELSE Taken(p)
               f == Answered(a.feed)
               b == Informed(a, f)
    <3>1. /\ Sane(Taken(p)) /\ Same(Taken(p), app) /\ Follows(Taken(p))
          /\ Taken(p).guard = app.guard
      BY <2>2, TakenKeeps DEF PollHit
    <3>2. /\ Goes(Taken(p), a) /\ a.guard = app.guard
          /\ Same(a, Taken(p)) \/ Renewed(Taken(p), a)
      <4>1. p.key \in Keys
        BY DEF Polls
      <4> QED
        BY <3>1, <4>1, PinOtherGoes DEF Goes, Same
    <3> HIDE DEF a
    <3>3. Awake(f) /\ f.bound = a.feed.bound
      BY <3>2, AnswersKeepAwake DEF Goes, Sane
    <3> HIDE DEF f
    <3>4. Sane(b) /\ Follows(b) /\ b.guard = app.guard /\ b.session = a.session
      BY <3>2, <3>3, InformedIsSane DEF Goes
    <3>5. a.session # None /\ a.session.play = app.session.play
      BY <3>1, <3>2 DEF Same, Renewed
    <3>6. app' = Show(b, FALSE)
      BY <2>2 DEF PollHit, Frees, Becomes, a, f, Informed
    <3> HIDE DEF b, Due
    <3> QED
      BY <1>1, <3>4, <3>5, <3>6
  <2> QED
    BY <2>1, <2>2
<1> DEFINE Survives ==
             /\ app.session # None /\ app'.session = None
             /\ SocketState(FALSE) \/ \E p \in Polls, walked \in BOOLEAN : PollHit(p, FALSE, walked)
             => /\ InFlight = {}
                /\ \/ app.session.play \in aged
                   \/ app.guard = [of |-> app.session.play, saw |-> TRUE]
<1>3. IInv /\ [Next]_vars => [Survives]_vars
  BY <1>2
<1> HIDE DEF Survives
<1>4. Spec => [][Survives]_vars
  BY <1>3, Invariance, PTL DEF Spec
<1> QED
  BY <1>4 DEF StartSurvivesIdle, Survives
=============================================================================

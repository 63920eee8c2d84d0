------------------------------ MODULE TvPlayback ------------------------------
(***************************************************************************)
(* Playback in the TV shell (src/src/scripts/tv/playback.ts): choices that *)
(* are looked up side by side, the chain that starts them one by one, the  *)
(* embedded player whose mount takes seconds, the native player that       *)
(* starts at once, and the back key.                                       *)
(*                                                                         *)
(* A play stands for any way to ask for one: a title, an episode, a        *)
(* catch-up, a channel, a zapped number, the retry button.  Views ask after*)
(* awaits of their own, so it may come at any time.  The native engine     *)
(* answers within the task that asks it.  The engines are those of         *)
(* ReceiverPage, at the grain this module needs.  Whoever's session ends,  *)
(* handleSessionEnded gives up the active engine: an end that comes late,  *)
(* as that of a native error whose probe outlived its session, makes a     *)
(* stray of an engine that plays.                                          *)
(***************************************************************************)
EXTENDS Naturals, Sequences

CONSTANTS
  MaxPlays,    \* bound: plays asked for in one behaviour
  HasNative    \* androidNativePlayerAvailable

ASSUME PlaysAssumption == MaxPlays \in Nat /\ HasNative \in BOOLEAN

Plays == 1..MaxPlays

VARIABLES
  gen,        \* playGeneration
  at,         \* per play: how far it has come
  taken,      \* per play: the generation it took
  route,      \* per play: the engine its descriptor and the preference select
  chain,      \* plays in startChain whose turn has not come
  head,       \* the play whose start awaits the mount, 0 for none
  starting,   \* startingEngine and startingGeneration: the play, 0 for null
  active,     \* activeEngine
  emb, nat,   \* the embedded and the native engine: phase and the play
  probe,      \* does reportNativeError await the probe of the last native play?
  target,     \* currentEvents, activeProgressTarget, activeLiveTarget
  presented,  \* embeddedPresentationActive
  view,       \* is the player on the screen?
  floor,      \* history: the newest play that has begun or been backed out of
  strays,     \* history: engines that play on after the end of another session
  stranded    \* history: the player is shown, left by an outdated start that
              \* failed or by the end of another session

look == <<at, taken, route>>
shows == <<target, presented, view>>
others == <<probe, strays>>
vars == <<gen, at, taken, route, chain, head, starting, active, emb, nat,
          target, presented, view, floor, stranded, probe, strays>>

Routes == IF HasNative THEN {"embedded", "native", "nativeOnly"} ELSE {"embedded"}
Off == [phase |-> "off", of |-> 0]
Engine(phase, p) == [phase |-> phase, of |-> p]

Asked == {p \in Plays : at[p] # "unused"}
Newest == IF Asked = {} THEN 0 ELSE CHOOSE p \in Asked : \A q \in Asked : q <= p
Stale(p) == taken[p] # gen
EmbeddedSounds == emb.phase \in {"on", "failed"}
NativeSounds == nat.phase = "on"
Sounding == IF EmbeddedSounds /\ "embedded" \notin strays THEN emb.of
            ELSE IF NativeSounds /\ "native" \notin strays THEN nat.of ELSE 0
Lost == {p \in Plays : ("embedded" \in strays /\ p = emb.of) \/ ("native" \in strays /\ p = nat.of)}

Over(p) == at' = [at EXCEPT ![p] = "over"] /\ UNCHANGED <<taken, route>>

(* teardown() of the embedded engine, if it is active or starting *)
TearDown == emb' = IF active = "embedded" \/ starting # 0 THEN Off ELSE emb

-----------------------------------------------------------------------------
(* Choices and their look-up *)

(* playLive, playVod, playEpisode, playCatchup: beginPlayAttempt *)
Play(p, r) ==
  /\ at[p] = "unused" /\ \A q \in Plays : q < p => at[q] # "unused"
  /\ gen' = gen + 1
  /\ at' = [at EXCEPT ![p] = "resolving"]
  /\ taken' = [taken EXCEPT ![p] = gen + 1]
  /\ route' = [route EXCEPT ![p] = r]
  /\ UNCHANGED <<chain, head, starting, active, emb, nat, shows, floor, stranded, others>>

(* The last of its awaits is over: startSession, unless it is outdated. *)
ResolvedAnyway(p) ==
  /\ at[p] = "resolving"
  /\ at' = [at EXCEPT ![p] = "queued"]
  /\ taken' = [taken EXCEPT ![p] = gen]
  /\ chain' = Append(chain, p)
  /\ UNCHANGED <<gen, route, head, starting, active, emb, nat, shows, floor, stranded, others>>
ResolvedTargets(p) ==
  /\ at[p] = "resolving"
  /\ at' = [at EXCEPT ![p] = IF Stale(p) THEN "over" ELSE "queued"]
  /\ chain' = IF Stale(p) THEN chain ELSE Append(chain, p)
  /\ target' = IF Stale(p) THEN target ELSE p
  /\ UNCHANGED <<gen, taken, route, head, starting, active, emb, nat, presented, view, floor, stranded,
                 others>>
Resolved(p) ==
  /\ at[p] = "resolving"
  /\ at' = [at EXCEPT ![p] = IF Stale(p) THEN "over" ELSE "queued"]
  /\ chain' = IF Stale(p) THEN chain ELSE Append(chain, p)
  /\ UNCHANGED <<gen, taken, route, head, starting, active, emb, nat, shows, floor, stranded, others>>

(* failPlayback: what plays goes on playing. *)
ResolveFails(p) ==
  /\ at[p] = "resolving"
  /\ Over(p)
  /\ UNCHANGED <<gen, chain, head, starting, active, emb, nat, shows, floor, stranded, others>>

-----------------------------------------------------------------------------
(* The start chain *)

(* runStartSession up to the engine's answer or its mount.  The embedded    *)
(* engine plays on until its play() is called, where it is taken over.      *)
Mounts(p) ==
  /\ at' = [at EXCEPT ![p] = "starting"]
  /\ head' = p /\ starting' = p /\ active' = "none"
  /\ emb' = Engine("mounting", p)
  /\ target' = p
  /\ stranded' = FALSE /\ floor' = floor

BeginEmbedded(p) ==
  /\ route[p] = "embedded"
  /\ Mounts(p)
  /\ nat' = IF active = "native" THEN Off ELSE nat
  /\ presented' = TRUE /\ view' = TRUE
  /\ strays' = strays \ {"embedded"} /\ probe' = probe

(* A new native session ends whatever was left of the one before, and its   *)
(* generation outdates the probe.                                           *)
NewNativeSession == strays' = strays \ {"native"} /\ probe' = FALSE

BeginNative(p) ==
  /\ route[p] # "embedded"
  /\ at' = [at EXCEPT ![p] = "over"]
  /\ starting' = 0 /\ active' = "native"
  /\ TearDown
  /\ nat' = Engine("on", p)
  /\ target' = p
  /\ view' = (view /\ active # "embedded" /\ starting = 0)
  /\ floor' = p
  /\ stranded' = (stranded /\ view')
  /\ NewNativeSession
  /\ UNCHANGED <<head, presented>>

(* The native session does not start: fall back, or clean up. *)
BeginFallback(p) ==
  /\ route[p] = "native"
  /\ Mounts(p)
  /\ nat' = Off
  /\ view' = (view /\ active # "embedded" /\ starting = 0)
  /\ strays' = {} /\ probe' = FALSE
  /\ presented' = presented
BeginNothing(p) ==
  /\ route[p] = "nativeOnly"
  /\ at' = [at EXCEPT ![p] = "over"]
  /\ TearDown
  /\ nat' = Off
  /\ starting' = 0 /\ active' = "none"
  /\ target' = 0 /\ presented' = FALSE /\ view' = FALSE /\ stranded' = FALSE
  /\ NewNativeSession
  /\ UNCHANGED <<head, floor>>

TurnInOrder == \* a chain that waits for its outdated head
  /\ head = 0 /\ chain # <<>> /\ ~Stale(Head(chain))
  /\ chain' = Tail(chain)
  /\ LET p == Head(chain)
     IN  BeginEmbedded(p) \/ BeginNative(p) \/ BeginFallback(p) \/ BeginNothing(p)
  /\ UNCHANGED <<gen, taken, route>>
Turn ==
  /\ head = 0 /\ chain # <<>>
  /\ chain' = Tail(chain)
  /\ LET p == Head(chain)
     IN  IF Stale(p)
         THEN /\ at' = [at EXCEPT ![p] = "over"]
              /\ UNCHANGED <<head, starting, active, emb, nat, shows, floor, stranded, others>>
         ELSE BeginEmbedded(p) \/ BeginNative(p) \/ BeginFallback(p) \/ BeginNothing(p)
  /\ UNCHANGED <<gen, taken, route>>

(* The mount is over.  An outdated start that nobody has claimed becomes    *)
(* the active one, so that keys reach what plays; claimed, by a back key or *)
(* the end of a session, it is torn down.                                   *)
Adopted(p) ==
  /\ emb' = Engine("on", p) /\ active' = "embedded"
  /\ view' = TRUE /\ floor' = p
MountDoneOrphaned ==
  /\ head # 0 /\ emb = Engine("mounting", head)
  /\ IF Stale(head) THEN emb' = Engine("on", head) /\ view' = TRUE /\ floor' = head /\ active' = active
     ELSE Adopted(head)
  /\ starting' = IF starting = head THEN 0 ELSE starting
  /\ head' = 0 /\ Over(head)
  /\ stranded' = FALSE
  /\ UNCHANGED <<gen, chain, nat, target, presented, others>>
MountDone ==
  /\ head # 0 /\ emb = Engine("mounting", head)
  /\ IF Stale(head) /\ starting # head
     THEN emb' = Off /\ view' = FALSE /\ UNCHANGED <<active, floor>>
     ELSE Adopted(head)
  /\ starting' = IF starting = head THEN 0 ELSE starting
  /\ head' = 0 /\ Over(head)
  /\ stranded' = FALSE
  /\ UNCHANGED <<gen, chain, nat, target, presented, others>>

(* The end of a start that did not succeed: an outdated one touches nothing *)
(* of what may be another's by now.                                         *)
CleanUp ==
  /\ head' = 0
  /\ Over(head)
  /\ IF Stale(head)
     THEN /\ stranded' = (stranded \/ (starting = head /\ starting' = 0 /\ view))
          /\ UNCHANGED shows
     ELSE /\ target' = 0 /\ presented' = FALSE /\ view' = FALSE
          /\ stranded' = FALSE
  /\ UNCHANGED <<gen, chain, active, nat, floor, others>>

MountClaimed ==
  /\ head # 0 /\ emb # Engine("mounting", head)
  /\ starting' = IF starting = head THEN 0 ELSE starting
  /\ CleanUp
  /\ UNCHANGED emb
MountFails ==
  /\ head # 0 /\ emb = Engine("mounting", head)
  /\ starting' = IF starting = head THEN 0 ELSE starting
  /\ emb' = Off
  /\ CleanUp
MountThrows == \* an outdated start keeps startingEngine
  /\ head # 0
  /\ starting' = IF Stale(head) THEN starting ELSE 0
  /\ emb' = IF emb = Engine("mounting", head) THEN Off ELSE emb
  /\ CleanUp

-----------------------------------------------------------------------------
(* Sessions end *)

(* handleSessionEnded, called for engine e, g the generation by then: the   *)
(* session it ends is the active one, e's or not.                           *)
SessionEnded(e, g) ==
  /\ gen' = IF starting # 0 \/ active # "none" THEN g + 1 ELSE g
  /\ starting' = 0 /\ active' = "none"
  /\ target' = 0 /\ presented' = FALSE
  /\ strays' = (strays \cup ({active} \ {"none"})) \ {e}
  /\ UNCHANGED <<look, chain, head>>

(* teardownInternal(true), finishAndEndSession *)
EmbeddedOver(g) ==
  /\ emb' = Off /\ view' = FALSE /\ stranded' = FALSE
  /\ SessionEnded("embedded", g) /\ UNCHANGED <<nat, probe>>
NativeOver(g) ==
  /\ nat' = Off /\ SessionEnded("native", g)
  /\ stranded' = (stranded \/ (view /\ active # "native"))
  /\ UNCHANGED <<emb, view>>

EmbeddedEnds == emb.phase = "on" /\ EmbeddedOver(gen) /\ floor' = floor
EmbeddedFailsNameless ==
  /\ emb.phase = "on"
  /\ emb' = Engine("failed", 0)
  /\ UNCHANGED <<gen, look, chain, head, starting, active, nat, shows, floor, stranded, others>>
EmbeddedFails ==
  /\ emb.phase = "on"
  /\ emb' = [emb EXCEPT !.phase = "failed"]
  /\ UNCHANGED <<gen, look, chain, head, starting, active, nat, shows, floor, stranded, others>>
ErrorHides == emb.phase = "failed" /\ EmbeddedOver(gen) /\ floor' = floor

(* Finished, or an error that needs no probe *)
NativeEnds == NativeSounds /\ NativeOver(gen) /\ UNCHANGED <<probe, floor>>

(* reportNativeError: only a new native session outdates its answer. *)
NativeErrs ==
  /\ NativeSounds /\ ~probe
  /\ probe' = TRUE
  /\ UNCHANGED <<gen, look, chain, head, starting, active, emb, nat, shows, floor, stranded, strays>>
ProbeAnswers == probe /\ probe' = FALSE /\ NativeOver(gen) /\ floor' = floor

-----------------------------------------------------------------------------
(* The back key *)

(* stopPlayback *)
Stop ==
  /\ active # "none"
  /\ IF active = "embedded" THEN EmbeddedOver(gen + 1)
     ELSE NativeOver(gen + 1) /\ probe' = probe
  /\ floor' = Newest

(* cancelStartingPlayback *)
CancelSameGeneration ==
  /\ active = "none" /\ (starting # 0 \/ presented)
  /\ TearDown
  /\ starting' = 0
  /\ target' = 0 /\ presented' = FALSE /\ view' = FALSE /\ stranded' = FALSE
  /\ floor' = Newest
  /\ UNCHANGED <<gen, look, chain, head, active, nat, others>>
CancelShown ==
  /\ active = "none" /\ (starting # 0 \/ presented)
  /\ gen' = gen + 1
  /\ starting' = 0
  /\ target' = 0 /\ presented' = FALSE
  /\ emb' = Off /\ floor' = Newest
  /\ UNCHANGED <<look, chain, head, active, nat, view, stranded, others>>
Cancel ==
  /\ active = "none" /\ (starting # 0 \/ presented)
  /\ gen' = gen + 1
  /\ TearDown
  /\ starting' = 0
  /\ target' = 0 /\ presented' = FALSE /\ view' = FALSE /\ stranded' = FALSE
  /\ floor' = Newest
  /\ UNCHANGED <<look, chain, head, active, nat, others>>

-----------------------------------------------------------------------------
Init ==
  /\ gen = 0
  /\ at = [p \in Plays |-> "unused"]
  /\ taken = [p \in Plays |-> 0] /\ route = [p \in Plays |-> "embedded"]
  /\ chain = <<>> /\ head = 0 /\ starting = 0 /\ active = "none"
  /\ emb = Off /\ nat = Off
  /\ target = 0 /\ presented = FALSE /\ view = FALSE
  /\ floor = 0 /\ stranded = FALSE
  /\ probe = FALSE /\ strays = {}

LookUp(p) == Resolved(p) \/ ResolveFails(p)
Mounting == MountDone \/ MountClaimed \/ MountFails \/ MountThrows
Next ==
  \/ \E p \in Plays : (\E r \in Routes : Play(p, r)) \/ LookUp(p)
  \/ Turn \/ Mounting
  \/ EmbeddedEnds \/ EmbeddedFails \/ ErrorHides \/ NativeEnds \/ NativeErrs \/ ProbeAnswers
  \/ Stop \/ Cancel

(* Look-ups end or time out, a mount settles, and the chain moves on. *)
Fairness ==
  /\ \A p \in Plays : WF_vars(LookUp(p))
  /\ WF_vars(Turn) /\ WF_vars(Mounting)

Spec == Init /\ [][Next]_vars /\ Fairness

-----------------------------------------------------------------------------
(* Properties *)

Engines(phases) == [phase : phases, of : Plays] \cup {Off}

\* Types of the module state of playback.ts and of its two engines.
TypeOK ==
  /\ gen \in Nat /\ taken \in [Plays -> Nat]
  /\ at \in [Plays -> {"unused", "resolving", "queued", "starting", "over"}]
  /\ route \in [Plays -> {"embedded", "native", "nativeOnly"}]
  /\ chain \in Seq(Plays) /\ head \in 0..MaxPlays /\ starting \in 0..MaxPlays
  /\ active \in {"none", "embedded", "native"}
  /\ emb \in Engines({"mounting", "on", "failed"}) /\ nat \in Engines({"on"})
  /\ target \in 0..MaxPlays /\ floor \in 0..MaxPlays
  /\ presented \in BOOLEAN /\ view \in BOOLEAN /\ stranded \in BOOLEAN
  /\ probe \in BOOLEAN /\ strays \in SUBSET {"embedded", "native"}

\* What plays is under control: an engine that plays is the active one, so that
\* keys reach it and the next start silences it, and only one plays.  An
\* outdated start that succeeds is no exception (playback.ts:555).  The
\* exception is a stray, whose session the end of another one has given up
\* (playback.ts:424); it plays until it ends or its engine is used again.
ActiveSounds ==
  /\ EmbeddedSounds <=> active = "embedded" \/ "embedded" \in strays
  /\ NativeSounds <=> active = "native" \/ "native" \in strays
  /\ active \notin strays

\* The progress of a session goes to the play it belongs to: the module's one
\* set of targets is that of the play the active engine plays, across starts
\* in the chain, adopted starts, fallbacks, strays and ends.
TargetIsPlaying == active # "none" => target = Sounding

\* A player on the screen can be left: back finds an engine or a presentation.
\* The exceptions: the start of an outdated play failed, which cleans nothing
\* up, and a native session's end came while the embedded player was shown.
ScreenCanBeLeft ==
  view => active # "none" \/ starting # 0 \/ presented \/ stranded

\* playback.ts keeps the promise of OnePlayer: what it loses, it loses to an
\* end that came late or to that of another stray.
Promise == INSTANCE OnePlayer WITH asked <- Newest, playing <- Sounding, lost <- Lost, late <- probe
KeepsPromise == Promise!Spec

\* The chain never jams: every play that was asked for begins, fails or yields.
EveryPlaySettles == \A p \in Plays : at[p] = "resolving" ~> at[p] = "over"

=============================================================================

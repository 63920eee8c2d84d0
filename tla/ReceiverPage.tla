---------------------------- MODULE ReceiverPage ----------------------------
(***************************************************************************)
(* What a TV plays when several phones drive it: the /play and /stop       *)
(* handlers and the playback record of src-tauri/src/receiver.rs, the page *)
(* that takes their events (receiver/receiver.ts, and layouts/Layout.astro *)
(* on every other page) and its two engines (receiver/engines.ts).         *)
(*                                                                         *)
(* A handler changes the record and emits its event in two steps, so two   *)
(* senders may overtake one another between them.  Events reach the page   *)
(* in the order they were emitted, and so do the page's reports the        *)
(* record.  The page plays one descriptor at a time: playChain.            *)
(*                                                                         *)
(* Playing stands for playing, paused and buffering, which the page may    *)
(* leave again at any time.  Who may send is the matter of ReceiverServer. *)
(***************************************************************************)
EXTENDS Naturals, Sequences

CONSTANTS
  Descs,         \* cast descriptors; which engine one gets is a preference
  Quiet,         \* those whose sessions owe no report once they play: a live
                 \* channel in the native player, a title left paused
  Senders,       \* requests the server handles at one time
  MaxRequests,   \* bound: plays, stops and retries the model looks at
  MaxExits       \* bound: times the user leaves the receiver page

None == "none"
Stop == "stop"

ASSUME DescsAssumption == None \notin Descs /\ Stop \notin Descs
ASSUME QuietAssumption == Quiet \subseteq Descs
ASSUME BoundsAssumption == MaxRequests \in Nat /\ MaxExits \in Nat

VARIABLES
  record,     \* ReceiverShared.playback.state
  handler,    \* per sender: the descriptor to emit, Stop for a record to reset
  inbox,      \* xt:receiver-play and -control events on their way
  reports,    \* receiver_report_state calls on their way
  page,       \* "here", "away" on another page, "moving" to the receiver page
  pending,    \* xt_receiver_pending_play in sessionStorage
  next,       \* the newest play enqueued and not begun; the others are skipped
  play,       \* per descriptor: the await its onPlay is at
  active,     \* activeEngine
  lastPlay,   \* lastPlayPayload
  mounted,    \* has the embedded player been mounted?
  shown,      \* currentPlaybackState of the page
  emb, nat,   \* the embedded and the native session: a phase and a descriptor
  natProbe,   \* does an error of the newest native session wait for its probe?
  android,    \* the build: native engine and wake bridge, or a desktop window
  requests, exits,  \* bounded by MaxRequests, MaxExits
  word,       \* history: the last thing a user told the TV, "play" or "stop"
  missed,     \* history: a stop found a play under way and no engine to stop
  strayed,    \* history: a play was dropped with the page it was sent to
  latest,     \* history: the last descriptor enqueued, None once refused
  clobbered   \* history: on this page, a late probe answer took another session's
              \* place as the active one away

server  == <<record, handler, inbox>>
where   == <<page, pending, exits>>
chain   == <<next, play, lastPlay>>
engines == <<active, mounted, emb, nat, natProbe>>
told    == <<shown, reports>>
history == <<word, missed, strayed, latest>>
vars == <<record, handler, inbox, reports, page, pending, next, play, active,
          lastPlay, mounted, shown, emb, nat, natProbe, android, requests, exits,
          word, missed, strayed, latest, clobbered>>

States == {"idle", "loading", "playing", "ended", "error"}
Phases == {"off", "loading", "playing", "failing", "failed"}
Off == [phase |-> "off", of |-> None]
Session(d) == [phase |-> "loading", of |-> d]

Awaiting == \E d \in Descs : play[d] # "none"
InFlight == next # None \/ Awaiting

(* The turn of a play is a microtask: when no other is under way it comes   *)
(* before any other event, timer or key.                                    *)
AtRest == next = None \/ Awaiting

(* reportState, once per state of the sequence: the page's own state at     *)
(* once, the record when the call arrives.                                  *)
Report(states) ==
  /\ reports' = reports \o states
  /\ shown' = states[Len(states)]

-----------------------------------------------------------------------------
(* The server *)

(* handle_play: the record first, *)
PlayRecord(s, d) ==
  /\ handler[s] = None
  /\ requests < MaxRequests
  /\ requests' = requests + 1
  /\ handler' = [handler EXCEPT ![s] = d]
  /\ record' = "loading"
  /\ UNCHANGED <<inbox, where, chain, engines, told, android, clobbered, history>>

(* then the event. *)
PlayEmit(s) ==
  /\ handler[s] \in Descs
  /\ inbox' = Append(inbox, handler[s])
  /\ handler' = [handler EXCEPT ![s] = None]
  /\ word' = "play"
  /\ UNCHANGED <<record, where, chain, engines, told, android, clobbered, requests,
                 missed, strayed, latest>>

(* handle_transport("stop"): the event first, *)
StopEmit(s) ==
  /\ handler[s] = None
  /\ requests < MaxRequests
  /\ requests' = requests + 1
  /\ handler' = [handler EXCEPT ![s] = Stop]
  /\ inbox' = Append(inbox, Stop)
  /\ word' = "stop"
  /\ UNCHANGED <<record, where, chain, engines, told, android, clobbered, missed,
                 strayed, latest>>

(* then the record. *)
StopRecord(s) ==
  /\ handler[s] = Stop
  /\ handler' = [handler EXCEPT ![s] = None]
  /\ record' = "idle"
  /\ UNCHANGED <<inbox, where, chain, engines, told, android, clobbered, requests, history>>

(* receiver_report_state: the report replaces the record. *)
ReportArrives ==
  /\ reports # <<>>
  /\ record' = Head(reports)
  /\ reports' = Tail(reports)
  /\ UNCHANGED <<handler, inbox, where, chain, engines, shown, android, clobbered,
                 requests, history>>

-----------------------------------------------------------------------------
(* Events arrive *)

(* enqueuePlay: a play whose turn comes when it is not the newest any more  *)
(* is skipped, so only the newest needs remembering.                        *)
EnqueueIfFree(d) ==
  /\ next' = IF next = None THEN d ELSE next
  /\ latest' = d
  /\ missed' = FALSE
Enqueue(d) ==
  /\ next' = d
  /\ latest' = d
  /\ missed' = FALSE

(* The session of the active engine ends; the other engine is left alone. *)
EndActive ==
  /\ emb' = IF active = "embedded" THEN Off ELSE emb
  /\ nat' = IF active = "native" THEN Off ELSE nat
  /\ active' = "none"
  /\ UNCHANGED <<mounted, natProbe>>

(* activeEngine?.control("stop"): a play under way has no engine yet. *)
ControlStopSilent ==
  \/ /\ active # "none"
     /\ EndActive
     /\ UNCHANGED <<told, missed>>
  \/ /\ active = "none"
     /\ missed' = (missed \/ InFlight)
     /\ UNCHANGED <<engines, told>>
ControlStop ==
  \/ /\ active # "none"
     /\ EndActive
     /\ Report(<<"idle">>)
     /\ UNCHANGED missed
  \/ /\ active = "none"
     /\ missed' = (missed \/ InFlight)
     /\ UNCHANGED <<engines, told>>

Receive(event) ==
  /\ AtRest
  /\ inbox # <<>> /\ Head(inbox) = event
  /\ inbox' = Tail(inbox)
  /\ UNCHANGED <<record, handler, play, lastPlay, android, clobbered, requests, exits>>

(* On the receiver page. *)
ReceivePlay(d) ==
  /\ page = "here"
  /\ Receive(d)
  /\ Enqueue(d)
  /\ UNCHANGED <<page, pending, engines, told, word, strayed>>

ReceiveStop ==
  /\ page = "here"
  /\ Receive(Stop)
  /\ ControlStop
  /\ UNCHANGED <<page, pending, next, word, strayed, latest>>

(* On any other page a play is kept for the receiver page, a later one over *)
(* an earlier one; between the two pages nobody listens.  Nothing there     *)
(* listens for controls.                                                    *)
ReceiveElsewhere(d) ==
  /\ page # "here"
  /\ Receive(d)
  /\ \/ /\ pending' = d /\ page' = "moving"
        /\ UNCHANGED strayed
     \/ /\ page = "moving"
        /\ strayed' = TRUE
        /\ UNCHANGED <<page, pending>>
  /\ UNCHANGED <<next, engines, told, word, missed, latest>>

ReceiveStopElsewhere ==
  /\ page # "here"
  /\ Receive(Stop)
  /\ missed' = (missed \/ pending # None)
  /\ UNCHANGED <<page, pending, next, engines, told, word, strayed, latest>>

(* The receiver page starts: consumePendingPlay. *)
Arrive ==
  /\ page = "moving"
  /\ page' = "here"
  /\ pending' = None
  /\ next' = pending
  /\ latest' = pending
  /\ UNCHANGED <<server, exits, play, lastPlay, engines, told, android, clobbered,
                 requests, word, missed, strayed>>

(* exitReceiver: reached from the idle view only, which also shows while    *)
(* the first play is still waiting for its player.                          *)
Exit ==
  /\ AtRest
  /\ page = "here" /\ exits < MaxExits
  /\ emb = Off /\ nat = Off
  /\ page' = "away"
  /\ exits' = exits + 1
  /\ strayed' = (strayed \/ InFlight)
  /\ next' = None /\ lastPlay' = None /\ latest' = None
  /\ play' = [d \in Descs |-> "none"]
  /\ active' = "none" /\ mounted' = FALSE /\ natProbe' = FALSE
  /\ shown' = "idle" /\ clobbered' = FALSE
  /\ UNCHANGED <<server, pending, emb, nat, reports, android, requests, word, missed>>

-----------------------------------------------------------------------------
(* onPlay *)

(* The old session is torn down, and says so, before the new one loads. *)
Farewell == IF active = "none" THEN <<>> ELSE <<"idle">>

(* selectEngine and fallbackEngineFor know a native engine on Android only. *)
NativeAssumed == TRUE
NativeAvailable == android

BeginNative(d) ==
  /\ NativeAvailable
  /\ nat' = Session(d)
  /\ emb' = IF active = "embedded" THEN Off ELSE emb
  /\ active' = "native"
  /\ natProbe' = FALSE
  /\ play' = [play EXCEPT ![d] = "none"]
  /\ Report(Farewell \o <<"loading">>)
  /\ UNCHANGED mounted

(* The embedded engine, chosen or fallen back to.  Mounting the player is   *)
(* the only await of a play that lets anything else run, and only once.     *)
BeginEmbeddedUntornDown(d) ==
  /\ natProbe' \in {natProbe, FALSE}
  /\ UNCHANGED <<mounted, nat>>
  /\ IF mounted
     THEN /\ emb' = Session(d) /\ active' = "embedded"
          /\ play' = [play EXCEPT ![d] = "none"]
     ELSE /\ active' = "none" /\ UNCHANGED emb
          /\ play' = [play EXCEPT ![d] = "mounting"]
  /\ Report(Farewell \o <<"loading">>)
BeginEmbedded(d) ==
  /\ natProbe' \in {natProbe, FALSE}
  /\ nat' = IF active = "native" THEN Off ELSE nat
  /\ UNCHANGED mounted
  /\ IF mounted
     THEN /\ emb' = Session(d) /\ active' = "embedded"
          /\ play' = [play EXCEPT ![d] = "none"]
     ELSE /\ active' = "none" /\ UNCHANGED emb
          /\ play' = [play EXCEPT ![d] = "mounting"]
  /\ Report(Farewell \o <<"loading">>)

(* An RTSP source falls back to nothing when the native player will not start. *)
BeginNothing(d) ==
  /\ NativeAvailable
  /\ emb' = IF active = "embedded" THEN Off ELSE emb
  /\ nat' = IF active = "native" THEN Off ELSE nat
  /\ active' = "none"
  /\ natProbe' \in {natProbe, FALSE}
  /\ play' = [play EXCEPT ![d] = "none"]
  /\ Report(Farewell \o <<"error">>)
  /\ UNCHANGED mounted

Begin(d) == BeginNative(d) \/ BeginEmbedded(d) \/ BeginNothing(d)

(* The chain gives the newest play its turn. *)
Turn(d) ==
  /\ page = "here"
  /\ next = d
  /\ \A e \in Descs : play[e] = "none"

StartPlay(d) ==
  /\ Turn(d)
  /\ next' = None
  /\ lastPlay' = d
  /\ Begin(d)
  /\ strayed' = FALSE
  /\ UNCHANGED <<server, where, android, clobbered, requests, word, missed, latest>>

(* The descriptor does not validate, or the page is hidden with nothing     *)
(* playing and Android does not let it come forward.                        *)
RefusePlay(d) ==
  /\ Turn(d)
  /\ next' = None
  /\ lastPlay' = d
  /\ Report(<<"error">>)
  /\ strayed' = FALSE
  /\ latest' = None
  /\ UNCHANGED <<server, where, play, engines, android, clobbered, requests, word, missed>>

(* A hidden desktop window is brought forward first, across awaits. *)
WakeWindow(d) ==
  /\ Turn(d)
  /\ ~android /\ active = "none"
  /\ next' = None
  /\ lastPlay' = d
  /\ play' = [play EXCEPT ![d] = "waking"]
  /\ UNCHANGED <<server, where, engines, told, android, clobbered, requests, history>>

Woken(d) ==
  /\ play[d] = "waking"
  /\ Begin(d)
  /\ strayed' = FALSE
  /\ UNCHANGED <<server, where, next, lastPlay, android, clobbered, requests, word,
                 missed, latest>>

(* ensurePlayer comes back with the player, *)
MountDone(d) ==
  /\ play[d] = "mounting"
  /\ play' = [play EXCEPT ![d] = "none"]
  /\ emb' = Session(d) /\ active' = "embedded" /\ mounted' = TRUE
  /\ UNCHANGED <<server, where, next, lastPlay, nat, natProbe, told, android, clobbered,
                 requests, history>>

(* without one, *)
MountFails(d) ==
  /\ play[d] = "mounting"
  /\ play' = [play EXCEPT ![d] = "none"]
  /\ Report(<<"error">>)
  /\ UNCHANGED <<server, where, next, lastPlay, engines, android, clobbered, requests, history>>

(* or throws: a play that was superseded leaves the cleaning up to the next. *)
MountThrows(d) ==
  /\ play[d] = "mounting"
  /\ play' = [play EXCEPT ![d] = "none"]
  /\ IF next # None
     THEN UNCHANGED <<engines, told>>
     ELSE /\ emb' = Off /\ active' = "none"
          /\ Report(<<"idle", "error">>)
          /\ UNCHANGED <<mounted, nat, natProbe>>
  /\ UNCHANGED <<server, where, next, lastPlay, android, clobbered, requests, history>>

-----------------------------------------------------------------------------
(* Sessions run *)

(* One turn of the event loop in which a session moves and nothing else. *)
SessionStep ==
  /\ AtRest
  /\ UNCHANGED <<server, where, chain, android, clobbered, requests, history>>

(* A step of one engine that says nothing about the other. *)
Embedded(phase) ==
  /\ emb' = [emb EXCEPT !.phase = phase]
  /\ UNCHANGED <<active, mounted, nat, natProbe>>

EmbPlays ==
  /\ emb.phase = "loading"
  /\ Embedded("playing")
  /\ Report(<<"playing">>)
  /\ SessionStep

(* timeupdate, looked at when earlier reports have arrived *)
EmbTick ==
  /\ emb.phase = "playing"
  /\ reports = <<>>
  /\ Report(<<"playing">>)
  /\ SessionStep
  /\ UNCHANGED <<engines>>

EmbEnds ==
  /\ emb.phase = "playing"
  /\ emb' = Off /\ active' = "none"
  /\ Report(<<"ended">>)
  /\ SessionStep
  /\ UNCHANGED <<mounted, nat, natProbe>>

(* A media error or a watchdog: the probe decides on the message first. *)
EmbFails ==
  /\ emb.phase \in {"loading", "playing"}
  /\ Embedded("failing")
  /\ SessionStep
  /\ UNCHANGED <<told>>

EmbProbed ==
  /\ emb.phase = "failing"
  /\ Embedded("failed")
  /\ Report(<<"error">>)
  /\ SessionStep

(* errorHideTimer *)
ErrorHides ==
  /\ emb.phase = "failed"
  /\ emb' = Off /\ active' = "none"
  /\ Report(<<"idle">>)
  /\ SessionStep
  /\ UNCHANGED <<mounted, nat, natProbe>>

(* The error panel's retry button. *)
Retry ==
  /\ AtRest
  /\ emb.phase = "failed"
  /\ requests < MaxRequests
  /\ requests' = requests + 1
  /\ Enqueue(lastPlay)
  /\ word' = "play"
  /\ UNCHANGED <<server, where, play, lastPlay, engines, told, android, clobbered, strayed>>

(* The remote's back key, for the session the page knows of. *)
BackKey ==
  /\ AtRest
  /\ page = "here"
  /\ active # "none"
  /\ ControlStop
  /\ UNCHANGED <<server, where, chain, android, clobbered, requests, word, strayed, latest>>

NatPlays ==
  /\ nat.phase = "loading"
  /\ nat' = [nat EXCEPT !.phase = "playing"]
  /\ Report(<<"playing">>)
  /\ SessionStep
  /\ UNCHANGED <<active, mounted, emb, natProbe>>

(* The progress events of a film, or a change of play state: all that a     *)
(* live channel ever says after its start.                                  *)
NatTick ==
  /\ nat.phase = "playing"
  /\ reports = <<>>
  /\ Report(<<"playing">>)
  /\ SessionStep
  /\ UNCHANGED <<engines>>

(* finishAndEndSession and onSessionEnded: whatever engine is active. *)
EndNative ==
  /\ nat' = Off /\ active' = "none"
  /\ UNCHANGED <<mounted, emb>>

NatFinished ==
  /\ nat # Off
  /\ EndNative
  /\ \E how \in {"ended", "idle"} : Report(<<how>>)
  /\ SessionStep
  /\ UNCHANGED <<natProbe>>

NatError ==
  /\ nat # Off /\ ~natProbe
  /\ EndNative
  /\ Report(<<"error">>)
  /\ SessionStep
  /\ UNCHANGED <<natProbe>>

(* An error that reads like a parse failure is probed first; only another   *)
(* play of the native engine makes the answer stale.                        *)
NatErrorProbed ==
  /\ nat # Off /\ ~natProbe
  /\ natProbe' = TRUE
  /\ SessionStep
  /\ UNCHANGED <<active, mounted, emb, nat, told>>

NatProbed ==
  /\ natProbe
  /\ AtRest
  /\ natProbe' = FALSE
  /\ EndNative
  /\ Report(<<"error">>)
  /\ clobbered' = (clobbered \/ (nat = Off /\ active # "none"))
  /\ UNCHANGED <<server, where, chain, android, requests, history>>

-----------------------------------------------------------------------------
Init ==
  /\ record = "idle" /\ shown = "idle"
  /\ handler = [s \in Senders |-> None]
  /\ inbox = <<>> /\ reports = <<>>
  /\ page \in {"here", "away"} /\ pending = None
  /\ next = None /\ lastPlay = None
  /\ play = [d \in Descs |-> "none"]
  /\ active = "none" /\ mounted = FALSE
  /\ emb = Off /\ nat = Off /\ natProbe = FALSE
  /\ android \in BOOLEAN
  /\ requests = 0 /\ exits = 0
  /\ word = None /\ missed = FALSE /\ strayed = FALSE /\ latest = None
  /\ clobbered = FALSE

Server == \E s \in Senders :
            (\E d \in Descs : PlayRecord(s, d)) \/ PlayEmit(s)
            \/ StopEmit(s) \/ StopRecord(s)

Arrivals == \/ \E d \in Descs : ReceivePlay(d) \/ ReceiveElsewhere(d)
            \/ ReceiveStop \/ ReceiveStopElsewhere \/ ReportArrives \/ Arrive

Mount(d) == MountDone(d) \/ MountFails(d) \/ MountThrows(d)
Play(d) == StartPlay(d) \/ RefusePlay(d) \/ WakeWindow(d)

Sessions == \/ EmbPlays \/ EmbTick \/ EmbEnds \/ EmbFails \/ EmbProbed
            \/ ErrorHides \/ NatPlays \/ NatTick \/ NatFinished \/ NatError
            \/ NatErrorProbed \/ NatProbed

Next == \/ Server \/ Arrivals \/ Sessions
        \/ \E d \in Descs : Play(d) \/ Woken(d) \/ Mount(d)
        \/ Retry \/ BackKey \/ Exit

Spec == Init /\ [][Next]_vars

(* A session that is starting starts or fails; one that plays and is not    *)
(* quiet ticks, ends or fails.                                              *)
EmbStarts == emb.phase = "loading" /\ (EmbPlays \/ EmbFails)
EmbRuns   == emb.of \notin Quiet /\ (EmbTick \/ EmbEnds \/ EmbFails)
NatStarts == nat.phase = "loading" /\ (NatPlays \/ NatFinished \/ NatError)
NatRuns   == /\ nat.phase = "playing" /\ nat.of \notin Quiet
             /\ NatTick \/ NatFinished \/ NatError

(* Handlers run to their end, events and reports arrive, a navigation ends, *)
(* a play gets its turn and its awaits resolve, a stream that loads starts  *)
(* or runs into its watchdog, timers go off, and what plays ticks, unless   *)
(* it is quiet: nothing makes a live channel or a paused title report.      *)
FairSpec ==
  /\ Spec
  /\ WF_vars(Arrivals)
  /\ \A s \in Senders : WF_vars(PlayEmit(s)) /\ WF_vars(StopRecord(s))
  /\ \A d \in Descs : WF_vars(Play(d)) /\ WF_vars(Woken(d)) /\ WF_vars(Mount(d))
  /\ WF_vars(EmbStarts) /\ WF_vars(EmbRuns)
  /\ WF_vars(EmbProbed) /\ WF_vars(ErrorHides)
  /\ WF_vars(NatStarts) /\ WF_vars(NatRuns)

-----------------------------------------------------------------------------
(* Properties *)

\* Types of the server's record, the events and reports on their way and what
\* the page and its engines keep; there is a native engine on Android only.
TypeOK ==
  /\ record \in States /\ shown \in States
  /\ handler \in [Senders -> Descs \cup {Stop, None}]
  /\ inbox \in Seq(Descs \cup {Stop}) /\ reports \in Seq(States)
  /\ page \in {"here", "away", "moving"} /\ pending \in Descs \cup {None}
  /\ next \in Descs \cup {None} /\ lastPlay \in Descs \cup {None}
  /\ play \in [Descs -> {"none", "waking", "mounting"}]
  /\ active \in {"none", "embedded"} \cup (IF android THEN {"native"} ELSE {})
  /\ mounted \in BOOLEAN /\ natProbe \in BOOLEAN /\ android \in BOOLEAN
  /\ emb \in [phase : Phases, of : Descs \cup {None}]
  /\ nat \in [phase : Phases, of : Descs \cup {None}]
  /\ requests \in 0..MaxRequests /\ exits \in 0..MaxExits
  /\ word \in {"play", "stop", None} /\ missed \in BOOLEAN
  /\ strayed \in BOOLEAN /\ latest \in Descs \cup {None}
  /\ clobbered \in BOOLEAN

\* A session that runs is the one the remote, the phones and the next play act
\* on ("can't clobber a newer one", engines.ts:610-611).
NoOrphan ==
  /\ emb # Off => active = "embedded"
  /\ nat # Off => active = "native"

\* The two engines never sound at once: "concurrent plays double-mount"
\* (receiver.ts:421) whatever plays arrive while one is under way.
OneEngineSounds == emb = Off \/ nat = Off

\* Only an error whose probe answers after its session is over can break that:
\* until it has, no end, error, stop or overlapping play takes a session away from
\* what controls it.
SessionsOwned == ~clobbered => NoOrphan

\* When no play is under way, what runs is what was asked for last, however the
\* requests of several senders, a pending play and the retry button interleave.
LastPlayWins ==
  ~InFlight /\ latest # None =>
    emb.of \in {latest, None} /\ nat.of \in {latest, None}

\* After a stop nobody followed by a play the TV falls silent, as the sender is
\* told (i18n/en.json:1728), unless the stop found a play still under way.
StopStops ==
  word = "stop" /\ ~missed /\ ~InFlight /\ inbox = <<>> /\ pending = None =>
    emb = Off /\ nat = Off

\* Both at once: the last word of the senders decides what the TV does, on a page
\* whose sessions are owned.
LastWordWins == ~clobbered => LastPlayWins /\ StopStops

Busy == {"loading", "playing"}
Differ == (record \in Busy) # (shown \in Busy)

\* A session that owes no report, all its reports in, over a record that is reset:
\* a stop's handler came to the record after the session's last word.
Unrepaired ==
  /\ emb.of \in Quiet \/ nat.of \in Quiet
  /\ record = "idle" /\ reports = <<>>

\* What the phones are told comes to agree with the TV: handlers and reports
\* that overtake one another leave no lasting difference, unless a play was lost
\* with the page it was sent to, or a stop's handler reset the record after the
\* last report a live channel of the native player or a paused title owed: that
\* record stays wrong ("tick-less live cast", engines.ts:690).
RecordCatchesUp ==
  page = "here" /\ ~strayed /\ Differ ~>
    page # "here" \/ strayed \/ ~Differ \/ Unrepaired

=============================================================================

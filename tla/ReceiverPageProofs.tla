------------------------- MODULE ReceiverPageProofs -------------------------
(***************************************************************************)
(* Proofs about ReceiverPage, for any number of descriptors and senders.   *)
(*                                                                         *)
(* The engines are safe because plays are: while one is under way nothing  *)
(* sounds, so the engine it mounts cannot meet another one.  The last word *)
(* wins because the chain only ever holds the latest play, and because a   *)
(* stop that is last on its way finds everything else settled.             *)
(*                                                                         *)
(* One step breaks this: the answer of a probe that outlives its session   *)
(* (clobbered).  Whatever it left behind is gone when the page is left, so *)
(* the invariant says in full what holds before it and after the next      *)
(* exit, and in part what holds always.                                    *)
(***************************************************************************)
EXTENDS ReceiverPage, SequenceTheorems, TLAPS

PlayOK == play \in [Descs -> {"none", "waking", "mounting"}]

\* playChain: the awaits of two plays never overlap, and no session runs
\* while a play is between its awaits.
OnePlay ==
  /\ \A d, e \in Descs : play[d] # "none" /\ play[e] # "none" => d = e
  /\ Awaiting => active = "none"

\* A session that runs is the active one, and an embedded one has a player.
Owned ==
  /\ active \in {"none", "embedded", "native"}
  /\ NoOrphan
  /\ active = "embedded" => mounted

SessionInv == PlayOK /\ OnePlay /\ Owned

(* Beginning a play leaves one owner, whatever engine it ends up with. *)
LEMMA BeginKeeps ==
  ASSUME SessionInv, NEW d \in Descs,
         \A e \in Descs \ {d} : play[e] = "none",
         Begin(d)
  PROVE  SessionInv'
<1> USE DEF SessionInv, PlayOK, OnePlay, Owned, NoOrphan, Awaiting
<1>0. ASSUME NEW step \in {"none", "mounting"},
             play' = [play EXCEPT ![d] = step],
             step = "none" \/ active' = "none"
      PROVE  PlayOK' /\ OnePlay'
  <2>1. PlayOK'
    BY <1>0
  <2>2. \A e \in Descs : play'[e] = IF e = d THEN step ELSE "none"
    BY <1>0
  <2> QED BY <1>0, <2>1, <2>2
<1>1. CASE BeginNative(d)
  <2>1. PlayOK' /\ OnePlay'
    BY <1>0, <1>1 DEF BeginNative
  <2>2. Owned'
    BY <1>1 DEF BeginNative, Session, Off
  <2> QED BY <2>1, <2>2
<1>2. CASE BeginEmbedded(d)
  <2>1. PlayOK' /\ OnePlay'
    BY <1>0, <1>2 DEF BeginEmbedded
  <2>2. Owned'
    BY <1>2 DEF BeginEmbedded, Session, Off
  <2> QED BY <2>1, <2>2
<1>3. CASE BeginNothing(d)
  <2>1. PlayOK' /\ OnePlay'
    BY <1>0, <1>3 DEF BeginNothing
  <2>2. Owned'
    BY <1>3 DEF BeginNothing, Off
  <2> QED BY <2>1, <2>2
<1> QED BY <1>1, <1>2, <1>3 DEF Begin

LEMMA StopKeeps ==
  ASSUME SessionInv, ControlStop, UNCHANGED play
  PROVE  SessionInv'
BY DEF SessionInv, PlayOK, OnePlay, Owned, NoOrphan, Awaiting, ControlStop,
       EndActive, engines, Off

LEMMA SessionKeeps ==
  ASSUME SessionInv, [Next]_vars, ~clobbered'
  PROVE  SessionInv'
<1> DEFINE Still == UNCHANGED <<play, engines>>
<1>1. CASE Still
  BY <1>1 DEF SessionInv, PlayOK, OnePlay, Owned, NoOrphan, Awaiting, engines, Off
<1>2. CASE Server
  <2>1. Still
    BY <1>2 DEF Server, PlayRecord, PlayEmit, StopEmit, StopRecord, chain
  <2> QED BY <1>1, <2>1
<1>3. CASE Arrivals
  <2>1. CASE ReceiveStop
    BY <2>1, StopKeeps DEF ReceiveStop, Receive
  <2>2. CASE ~ReceiveStop
    <3>1. Still
      BY <1>3, <2>2 DEF Arrivals, ReceivePlay, ReceiveElsewhere,
                        ReceiveStopElsewhere, ReportArrives, Arrive, Receive, chain
    <3> QED BY <1>1, <3>1
  <2> QED BY <2>1, <2>2
<1>4. CASE Sessions
  <2> USE DEF SessionInv, PlayOK, OnePlay, Owned, NoOrphan, Awaiting, Off,
              SessionStep, chain
  <2>1. CASE EmbPlays
    BY <2>1 DEF EmbPlays, Embedded
  <2>2. CASE EmbTick
    BY <2>2 DEF EmbTick, engines
  <2>3. CASE EmbEnds
    BY <2>3 DEF EmbEnds
  <2>4. CASE EmbFails
    BY <2>4 DEF EmbFails, Embedded
  <2>5. CASE EmbProbed
    BY <2>5 DEF EmbProbed, Embedded
  <2>6. CASE ErrorHides
    BY <2>6 DEF ErrorHides
  <2>7. CASE NatPlays
    BY <2>7 DEF NatPlays
  <2>8. CASE NatTick
    BY <2>8 DEF NatTick, engines
  <2>9. CASE NatFinished
    BY <2>9 DEF NatFinished, EndNative
  <2>10. CASE NatError
    BY <2>10 DEF NatError, EndNative
  <2>11. CASE NatErrorProbed
    BY <2>11 DEF NatErrorProbed
  <2>12. CASE NatProbed
    <3>1. nat # Off \/ active = "none"
      BY <2>12, ~clobbered' DEF NatProbed
    <3>2. nat # Off => active = "native"
      OBVIOUS
    <3> QED BY <2>12, <3>1, <3>2 DEF NatProbed, EndNative
  <2> QED
    BY <1>4, <2>1, <2>2, <2>3, <2>4, <2>5, <2>6, <2>7, <2>8, <2>9, <2>10,
       <2>11, <2>12 DEF Sessions
<1>5. ASSUME NEW d \in Descs, Play(d) PROVE SessionInv'
  <2>1. CASE StartPlay(d)
    BY <2>1, BeginKeeps DEF StartPlay, Turn
  <2>2. CASE RefusePlay(d)
    <3>1. Still
      BY <2>2 DEF RefusePlay
    <3> QED BY <1>1, <3>1
  <2>3. CASE WakeWindow(d)
    BY <2>3 DEF WakeWindow, Turn, engines, SessionInv, PlayOK, OnePlay,
                Owned, NoOrphan, Awaiting, Off
  <2> QED BY <1>5, <2>1, <2>2, <2>3 DEF Play
<1>6. ASSUME NEW d \in Descs, Woken(d) PROVE SessionInv'
  <2>1. \A e \in Descs \ {d} : play[e] = "none"
    BY <1>6 DEF Woken, SessionInv, OnePlay
  <2> QED BY <1>6, <2>1, BeginKeeps DEF Woken
<1>7. ASSUME NEW d \in Descs, Mount(d) PROVE SessionInv'
  <2> USE DEF SessionInv, PlayOK, OnePlay, Owned, NoOrphan, Awaiting, Off
  <2>1. CASE MountDone(d)
    BY <2>1 DEF MountDone, Session
  <2>2. CASE MountFails(d)
    BY <2>2 DEF MountFails, engines
  <2>3. CASE MountThrows(d)
    BY <2>3 DEF MountThrows, engines
  <2> QED BY <1>7, <2>1, <2>2, <2>3 DEF Mount
<1>8. CASE Retry
  <2>1. Still
    BY <1>8 DEF Retry
  <2> QED BY <1>1, <2>1
<1>9. CASE BackKey
  BY <1>9, StopKeeps DEF BackKey, chain
<1>10. CASE Exit
  BY <1>10 DEF Exit, SessionInv, PlayOK, OnePlay, Owned, NoOrphan, Awaiting, Off
<1>11. CASE UNCHANGED vars
  <2>1. Still
    BY <1>11 DEF vars, engines
  <2> QED BY <1>1, <2>1
<1> QED
  BY <1>2, <1>3, <1>4, <1>5, <1>6, <1>7, <1>8, <1>9, <1>10, <1>11 DEF Next

LEMMA InitOwned == Init => SessionInv /\ ~clobbered
BY DEF Init, SessionInv, PlayOK, OnePlay, Owned, NoOrphan, Awaiting, Off

\* A page that is left takes everything with it.
LEMMA OnlyExitForgives ==
  ASSUME clobbered, ~clobbered', [Next]_vars PROVE Exit
<1>1. ASSUME UNCHANGED clobbered PROVE FALSE
  BY <1>1
<1>2. ~Server /\ ~Retry /\ ~BackKey /\ ~UNCHANGED vars
  BY <1>1 DEF Server, PlayRecord, PlayEmit, StopEmit, StopRecord, Retry, BackKey, vars
<1>3. ~Arrivals
  BY <1>1 DEF Arrivals, ReceivePlay, ReceiveElsewhere, ReceiveStop, ReceiveStopElsewhere,
              Receive, ReportArrives, Arrive
<1>4. ~Sessions
  BY <1>1 DEF Sessions, SessionStep, EmbPlays, EmbTick, EmbEnds, EmbFails, EmbProbed,
              ErrorHides, NatPlays, NatTick, NatFinished, NatError, NatErrorProbed, NatProbed
<1>5. \A d \in Descs : ~Play(d) /\ ~Woken(d) /\ ~Mount(d)
  BY <1>1 DEF Play, StartPlay, RefusePlay, WakeWindow, Woken, Mount, MountDone, MountFails,
              MountThrows
<1> QED BY <1>2, <1>3, <1>4, <1>5 DEF Next

LEMMA ExitOwned ==
  ASSUME Exit PROVE SessionInv'
BY DEF Exit, SessionInv, PlayOK, OnePlay, Owned, NoOrphan, Awaiting, Off

\* Only the answer of a probe that outlives its session can part a session from
\* what controls it; until one has, two engines never sound at once either.
THEOREM SessionsStayOwned ==
  Spec => [](SessionsOwned /\ (~clobbered => OneEngineSounds))
<1> DEFINE I == ~clobbered => SessionInv
<1>1. Init => I
  BY InitOwned
<1>2. I /\ [Next]_vars => I'
  <2> SUFFICES ASSUME I, [Next]_vars, ~clobbered' PROVE SessionInv'
    OBVIOUS
  <2>1. CASE clobbered
    BY <2>1, OnlyExitForgives, ExitOwned
  <2>2. CASE ~clobbered
    BY <2>2, SessionKeeps
  <2> QED BY <2>1, <2>2
<1>3. I => SessionsOwned /\ (~clobbered => OneEngineSounds)
  BY DEF SessionInv, Owned, NoOrphan, OneEngineSounds, SessionsOwned
<1> QED BY <1>1, <1>2, <1>3, PTL DEF Spec

-----------------------------------------------------------------------------
(* Types *)

LEMMA SingleReport ==
  ASSUME NEW state \in States
  PROVE  <<state>> \in Seq(States) /\ <<state>> # <<>>
OBVIOUS

LEMMA ReportTypes ==
  ASSUME reports \in Seq(States), NEW states \in Seq(States), states # <<>>, Report(states)
  PROVE  reports' \in Seq(States) /\ shown' \in States
<1>1. reports' \in Seq(States)
  BY ConcatProperties DEF Report
<1>2. Len(states) \in 1..Len(states)
  BY LenProperties, EmptySeq
<1>3. shown' \in States
  BY <1>2, ElementOfSeq DEF Report
<1> QED BY <1>1, <1>3

LEMMA OneReport ==
  ASSUME reports \in Seq(States), NEW state \in States, Report(<<state>>)
  PROVE  reports' \in Seq(States) /\ shown' \in States
BY SingleReport, ReportTypes

LEMMA TwoReports ==
  ASSUME reports \in Seq(States), NEW said \in Seq(States), NEW state \in States,
         Report(said \o <<state>>)
  PROVE  reports' \in Seq(States) /\ shown' \in States
<1>1. <<state>> \in Seq(States) /\ Len(<<state>>) = 1
  BY SingleReport
<1>2. /\ said \o <<state>> \in Seq(States)
      /\ Len(said \o <<state>>) = Len(said) + 1
  BY <1>1, ConcatProperties
<1>3. said \o <<state>> # <<>>
  BY <1>2, LenProperties, EmptySeq
<1> QED BY <1>2, <1>3, ReportTypes

ServerTypes ==
  /\ record \in States
  /\ handler \in [Senders -> Descs \cup {Stop, None}]
  /\ inbox \in Seq(Descs \cup {Stop})
  /\ requests \in 0..MaxRequests
PlaceTypes ==
  /\ page \in {"here", "away", "moving"} /\ pending \in Descs \cup {None}
  /\ exits \in 0..MaxExits
ChainTypes ==
  /\ next \in Descs \cup {None} /\ lastPlay \in Descs \cup {None}
  /\ play \in [Descs -> {"none", "waking", "mounting"}]
EngineTypes ==
  /\ active \in {"none", "embedded"} \cup (IF android THEN {"native"} ELSE {})
  /\ mounted \in BOOLEAN /\ natProbe \in BOOLEAN /\ android \in BOOLEAN
  /\ emb \in [phase : Phases, of : Descs \cup {None}]
  /\ nat \in [phase : Phases, of : Descs \cup {None}]
ToldTypes == reports \in Seq(States) /\ shown \in States
HistoryTypes ==
  /\ word \in {"play", "stop", None} /\ missed \in BOOLEAN
  /\ strayed \in BOOLEAN /\ latest \in Descs \cup {None} /\ clobbered \in BOOLEAN

Types == ServerTypes /\ PlaceTypes /\ ChainTypes /\ EngineTypes /\ ToldTypes /\ HistoryTypes

LEMMA SessionTypes ==
  /\ Off \in [phase : Phases, of : Descs \cup {None}]
  /\ \A d \in Descs : Session(d) \in [phase : Phases, of : Descs \cup {None}]
BY DEF Off, Session, Phases

(* What a group of variables is made of decides its types: a step that      *)
(* leaves them alone keeps the types.                                       *)
LEMMA ServerTypesStill ==
  ASSUME ServerTypes, UNCHANGED <<server, requests>> PROVE ServerTypes'
BY DEF ServerTypes, server
LEMMA PlaceTypesStill ==
  ASSUME PlaceTypes, UNCHANGED where PROVE PlaceTypes'
BY DEF PlaceTypes, where
LEMMA ChainTypesStill ==
  ASSUME ChainTypes, UNCHANGED chain PROVE ChainTypes'
BY DEF ChainTypes, chain
LEMMA EngineTypesStill ==
  ASSUME EngineTypes, UNCHANGED <<engines, android>> PROVE EngineTypes'
BY DEF EngineTypes, engines
LEMMA ToldTypesStill ==
  ASSUME ToldTypes, UNCHANGED told PROVE ToldTypes'
BY DEF ToldTypes, told
LEMMA HistoryTypesStill ==
  ASSUME HistoryTypes, UNCHANGED <<history, clobbered>> PROVE HistoryTypes'
BY DEF HistoryTypes, history

LEMMA ServerStepTypes ==
  ASSUME Types, Server PROVE Types'
<1>0. PICK s \in Senders : (\E d \in Descs : PlayRecord(s, d)) \/ PlayEmit(s)
                           \/ StopEmit(s) \/ StopRecord(s)
  BY DEF Server
<1>1. UNCHANGED <<where, chain, engines, android, told>>
  BY <1>0 DEF PlayRecord, PlayEmit, StopEmit, StopRecord
<1>2. PlaceTypes' /\ ChainTypes' /\ EngineTypes' /\ ToldTypes'
  BY <1>1, PlaceTypesStill, ChainTypesStill, EngineTypesStill, ToldTypesStill DEF Types
<1>3. HistoryTypes'
  BY <1>0 DEF Types, HistoryTypes, history, PlayRecord, PlayEmit, StopEmit, StopRecord
<1>4. ServerTypes'
  <2>1. record' \in States
    BY <1>0 DEF Types, ServerTypes, States, PlayRecord, PlayEmit, StopEmit, StopRecord
  <2>2. handler' \in [Senders -> Descs \cup {Stop, None}]
    BY <1>0 DEF Types, ServerTypes, PlayRecord, PlayEmit, StopEmit, StopRecord
  <2>3. inbox' \in Seq(Descs \cup {Stop})
    <3>1. inbox \in Seq(Descs \cup {Stop})
      BY DEF Types, ServerTypes
    <3>2. inbox' = inbox \/ \E e \in Descs \cup {Stop} : inbox' = Append(inbox, e)
      BY <1>0 DEF PlayRecord, PlayEmit, StopEmit, StopRecord
    <3> QED BY <3>1, <3>2, AppendProperties
  <2>4. requests' \in 0..MaxRequests
    BY <1>0, BoundsAssumption
       DEF Types, ServerTypes, PlayRecord, PlayEmit, StopEmit, StopRecord
  <2> QED BY <2>1, <2>2, <2>3, <2>4 DEF ServerTypes
<1> QED BY <1>2, <1>3, <1>4 DEF Types

LEMMA ControlStopTypes ==
  ASSUME EngineTypes, ToldTypes, missed \in BOOLEAN, ControlStop, UNCHANGED android
  PROVE  EngineTypes' /\ ToldTypes' /\ missed' \in BOOLEAN
<1>1. CASE active # "none" /\ EndActive /\ Report(<<"idle">>) /\ UNCHANGED missed
  <2>1. ToldTypes'
    BY <1>1, OneReport DEF ToldTypes, States
  <2> QED BY <1>1, <2>1, SessionTypes DEF EndActive, EngineTypes
<1>2. CASE missed' = (missed \/ InFlight) /\ UNCHANGED <<engines, told>>
  BY <1>2, EngineTypesStill, ToldTypesStill
<1> QED BY <1>1, <1>2 DEF ControlStop

LEMMA ReceiveTypes ==
  ASSUME Types, NEW event, Receive(event)
  PROVE  /\ ServerTypes'
         /\ UNCHANGED <<play, lastPlay, android, clobbered, exits>>
<1>1. inbox' \in Seq(Descs \cup {Stop})
  BY HeadTailProperties DEF Receive, Types, ServerTypes
<1> QED BY <1>1 DEF Receive, Types, ServerTypes

LEMMA ArrivalTypes ==
  ASSUME Types, Arrivals PROVE Types'
<1> USE DEF Types
<1>1. ASSUME NEW d \in Descs, ReceivePlay(d) PROVE Types'
  <2>1. ServerTypes' /\ UNCHANGED <<play, lastPlay, android, clobbered, exits, engines, told>>
    BY <1>1, ReceiveTypes DEF ReceivePlay
  <2>2. EngineTypes' /\ ToldTypes'
    BY <2>1, EngineTypesStill, ToldTypesStill
  <2>3. PlaceTypes' /\ ChainTypes' /\ HistoryTypes'
    BY <1>1, <2>1 DEF ReceivePlay, Enqueue, PlaceTypes, ChainTypes, HistoryTypes
  <2> QED BY <2>1, <2>2, <2>3
<1>2. ASSUME NEW d \in Descs, ReceiveElsewhere(d) PROVE Types'
  <2>1. ServerTypes' /\ UNCHANGED <<play, lastPlay, android, clobbered, exits, engines, told>>
    BY <1>2, ReceiveTypes DEF ReceiveElsewhere
  <2>2. EngineTypes' /\ ToldTypes'
    BY <2>1, EngineTypesStill, ToldTypesStill
  <2>3. PlaceTypes' /\ ChainTypes' /\ HistoryTypes'
    BY <1>2, <2>1 DEF ReceiveElsewhere, PlaceTypes, ChainTypes, HistoryTypes
  <2> QED BY <2>1, <2>2, <2>3
<1>3. CASE ReceiveStop
  <2>1. ServerTypes' /\ UNCHANGED <<play, lastPlay, android, clobbered, exits>>
    BY <1>3, ReceiveTypes DEF ReceiveStop
  <2>2. EngineTypes' /\ ToldTypes' /\ missed' \in BOOLEAN
    BY <1>3, <2>1, ControlStopTypes DEF ReceiveStop, HistoryTypes
  <2>3. PlaceTypes' /\ ChainTypes' /\ HistoryTypes'
    BY <1>3, <2>1, <2>2 DEF ReceiveStop, PlaceTypes, ChainTypes, HistoryTypes
  <2> QED BY <2>1, <2>2, <2>3
<1>4. CASE ReceiveStopElsewhere
  <2>1. ServerTypes' /\ UNCHANGED <<play, lastPlay, android, clobbered, exits, engines, told>>
    BY <1>4, ReceiveTypes DEF ReceiveStopElsewhere
  <2>2. EngineTypes' /\ ToldTypes'
    BY <2>1, EngineTypesStill, ToldTypesStill
  <2>3. PlaceTypes' /\ ChainTypes' /\ HistoryTypes'
    BY <1>4, <2>1 DEF ReceiveStopElsewhere, PlaceTypes, ChainTypes, HistoryTypes
  <2> QED BY <2>1, <2>2, <2>3
<1>5. CASE ReportArrives
  <2>1. record' \in States /\ reports' \in Seq(States)
    BY <1>5, HeadTailProperties DEF ReportArrives, ToldTypes
  <2>2. PlaceTypes' /\ ChainTypes' /\ EngineTypes' /\ HistoryTypes'
    BY <1>5, PlaceTypesStill, ChainTypesStill, EngineTypesStill, HistoryTypesStill
       DEF ReportArrives
  <2>3. ServerTypes' /\ ToldTypes'
    BY <1>5, <2>1 DEF ReportArrives, ServerTypes, ToldTypes
  <2> QED BY <2>2, <2>3
<1>6. CASE Arrive
  <2>1. ServerTypes' /\ EngineTypes' /\ ToldTypes'
    BY <1>6, ServerTypesStill, EngineTypesStill, ToldTypesStill DEF Arrive
  <2>2. PlaceTypes' /\ ChainTypes' /\ HistoryTypes'
    BY <1>6 DEF Arrive, PlaceTypes, ChainTypes, HistoryTypes
  <2> QED BY <2>1, <2>2
<1> QED BY <1>1, <1>2, <1>3, <1>4, <1>5, <1>6 DEF Arrivals

LEMMA BeginTypes ==
  ASSUME ChainTypes, EngineTypes, ToldTypes, NEW d \in Descs, Begin(d), UNCHANGED android
  PROVE  play' \in [Descs -> {"none", "waking", "mounting"}] /\ EngineTypes' /\ ToldTypes'
<1>1. Farewell \in Seq(States)
  <2>1. <<"idle">> \in Seq(States)
    BY SingleReport DEF States
  <2> QED BY <2>1, EmptySeq DEF Farewell
<1>2. ToldTypes'
  <2>1. ASSUME NEW state \in States, Report(Farewell \o <<state>>) PROVE ToldTypes'
    BY <2>1, <1>1, TwoReports DEF ToldTypes
  <2>2. PICK state \in States : Report(Farewell \o <<state>>)
    BY DEF Begin, BeginNative, BeginEmbedded, BeginNothing, States
  <2> QED BY <2>1, <2>2
<1>3. play' \in [Descs -> {"none", "waking", "mounting"}]
  BY DEF Begin, BeginNative, BeginEmbedded, BeginNothing, ChainTypes
<1>4. EngineTypes'
  BY SessionTypes DEF Begin, BeginNative, BeginEmbedded, BeginNothing, NativeAvailable, EngineTypes
<1> QED BY <1>2, <1>3, <1>4

LEMMA PlayTypes ==
  ASSUME Types, NEW d \in Descs, Play(d) \/ Woken(d) \/ Mount(d) PROVE Types'
<1> USE DEF Types
<1>1. ServerTypes' /\ PlaceTypes'
  BY ServerTypesStill, PlaceTypesStill
     DEF Play, StartPlay, RefusePlay, WakeWindow, Woken, Mount, MountDone, MountFails, MountThrows
<1>2. HistoryTypes'
  BY DEF Play, StartPlay, RefusePlay, WakeWindow, Woken, Mount, MountDone, MountFails,
         MountThrows, HistoryTypes, history
<1>3. ChainTypes' /\ EngineTypes' /\ ToldTypes'
  <2>1. CASE StartPlay(d)
    BY <2>1, BeginTypes DEF StartPlay, ChainTypes
  <2>2. CASE RefusePlay(d)
    <3>1. ToldTypes'
      BY <2>2, OneReport DEF RefusePlay, ToldTypes, States
    <3> QED BY <2>2, <3>1, EngineTypesStill DEF RefusePlay, ChainTypes
  <2>3. CASE WakeWindow(d)
    BY <2>3, EngineTypesStill, ToldTypesStill DEF WakeWindow, ChainTypes
  <2>4. CASE Woken(d)
    BY <2>4, BeginTypes DEF Woken, ChainTypes
  <2>5. CASE MountDone(d)
    <3>1. EngineTypes'
      BY <2>5, SessionTypes DEF MountDone, EngineTypes
    <3> QED BY <2>5, <3>1, ToldTypesStill DEF MountDone, ChainTypes
  <2>6. CASE MountFails(d)
    <3>1. ToldTypes'
      BY <2>6, OneReport DEF MountFails, ToldTypes, States
    <3> QED BY <2>6, <3>1, EngineTypesStill DEF MountFails, ChainTypes
  <2>7. CASE MountThrows(d)
    <3>1. ChainTypes'
      BY <2>7 DEF MountThrows, ChainTypes
    <3>2. CASE next # None
      BY <2>7, <3>1, <3>2, EngineTypesStill, ToldTypesStill DEF MountThrows
    <3>3. CASE next = None
      <4>1. <<"idle", "error">> \in Seq(States) /\ <<"idle", "error">> # <<>>
        BY DEF States
      <4>2. ToldTypes'
        BY <2>7, <3>3, <4>1, ReportTypes DEF MountThrows, ToldTypes
      <4>3. EngineTypes'
        BY <2>7, <3>3, SessionTypes DEF MountThrows, EngineTypes
      <4> QED BY <3>1, <4>2, <4>3
    <3> QED BY <3>2, <3>3
  <2> QED BY <2>1, <2>2, <2>3, <2>4, <2>5, <2>6, <2>7 DEF Play, Mount
<1> QED BY <1>1, <1>2, <1>3

LEMMA SessionStepTypes ==
  ASSUME Types, Sessions PROVE Types'
<1> USE DEF Types
<1>1. /\ UNCHANGED <<server, where, chain, android, requests, history>>
      /\ clobbered' = clobbered \/ NatProbed
  BY DEF Sessions, SessionStep, EmbPlays, EmbTick, EmbEnds, EmbFails, EmbProbed, ErrorHides,
         NatPlays, NatTick, NatFinished, NatError, NatErrorProbed, NatProbed
<1>2. ServerTypes' /\ PlaceTypes' /\ ChainTypes' /\ UNCHANGED android
  BY <1>1, ServerTypesStill, PlaceTypesStill, ChainTypesStill
<1>5. HistoryTypes'
  <2>1. clobbered' \in BOOLEAN
    BY <1>1 DEF NatProbed, HistoryTypes
  <2> QED BY <1>1, <2>1 DEF history, HistoryTypes
<1>3. EngineTypes'
  <2> USE <1>2, SessionTypes DEF EngineTypes, Phases
  <2>1. CASE EmbPlays \/ EmbFails \/ EmbProbed
    BY <2>1 DEF EmbPlays, EmbFails, EmbProbed, Embedded
  <2>2. CASE EmbTick \/ NatTick
    BY <2>2 DEF EmbTick, NatTick, engines
  <2>3. CASE EmbEnds \/ ErrorHides
    BY <2>3 DEF EmbEnds, ErrorHides
  <2>4. CASE NatPlays \/ NatErrorProbed
    BY <2>4 DEF NatPlays, NatErrorProbed
  <2>5. CASE NatFinished \/ NatError \/ NatProbed
    BY <2>5 DEF NatFinished, NatError, NatProbed, EndNative
  <2> QED BY <2>1, <2>2, <2>3, <2>4, <2>5 DEF Sessions
<1>4. ToldTypes'
  <2>1. CASE EmbFails \/ NatErrorProbed
    BY <2>1, ToldTypesStill DEF EmbFails, NatErrorProbed
  <2>2. CASE \E state \in States : Report(<<state>>)
    BY <2>2, OneReport DEF ToldTypes
  <2> QED
    BY <2>1, <2>2 DEF Sessions, EmbPlays, EmbTick, EmbEnds, EmbProbed, ErrorHides,
       NatPlays, NatTick, NatFinished, NatError, NatProbed, States
<1> QED BY <1>2, <1>3, <1>4, <1>5

LEMMA InitTypes ==
  ASSUME Init PROVE Types
<1>1. ServerTypes /\ ToldTypes
  <2>1. <<>> \in Seq(Descs \cup {Stop}) /\ <<>> \in Seq(States)
    BY EmptySeq
  <2> QED BY <2>1, BoundsAssumption DEF Init, ServerTypes, ToldTypes, States
<1>2. EngineTypes
  BY SessionTypes DEF Init, EngineTypes
<1>3. PlaceTypes
  BY BoundsAssumption DEF Init, PlaceTypes
<1>4. ChainTypes
  BY DEF Init, ChainTypes
<1>5. HistoryTypes
  BY DEF Init, HistoryTypes
<1> QED BY <1>1, <1>2, <1>3, <1>4, <1>5 DEF Types

LEMMA TypesKeep ==
  ASSUME Types, [Next]_vars PROVE Types'
<1> USE DEF Types
<1>1. CASE Retry
  <2>1. ServerTypes'
    <3>1. requests' \in 0..MaxRequests
      BY <1>1, BoundsAssumption DEF Retry, ServerTypes
    <3> QED BY <1>1, <3>1 DEF Retry, server, ServerTypes
  <2>2. HistoryTypes' /\ ChainTypes'
    BY <1>1 DEF Retry, Enqueue, HistoryTypes, ChainTypes
  <2> QED BY <1>1, <2>1, <2>2, PlaceTypesStill, EngineTypesStill, ToldTypesStill DEF Retry
<1>2. CASE BackKey
  <2>1. EngineTypes' /\ ToldTypes' /\ missed' \in BOOLEAN
    BY <1>2, ControlStopTypes DEF BackKey, HistoryTypes
  <2>2. HistoryTypes'
    BY <1>2, <2>1 DEF BackKey, HistoryTypes
  <2> QED BY <1>2, <2>1, <2>2, ServerTypesStill, PlaceTypesStill, ChainTypesStill DEF BackKey
<1>3. CASE Exit
  <2>1. ServerTypes'
    BY <1>3, ServerTypesStill DEF Exit
  <2>2. PlaceTypes'
    <3>1. exits' \in 0..MaxExits
      BY <1>3, BoundsAssumption DEF Exit, PlaceTypes
    <3> QED BY <1>3, <3>1 DEF Exit, PlaceTypes
  <2>3. ChainTypes'
    BY <1>3 DEF Exit, ChainTypes
  <2>4. EngineTypes' /\ ToldTypes'
    BY <1>3 DEF Exit, EngineTypes, ToldTypes, States
  <2>5. HistoryTypes'
    BY <1>3 DEF Exit, HistoryTypes, InFlight, Awaiting
  <2> QED BY <2>1, <2>2, <2>3, <2>4, <2>5
<1>4. CASE UNCHANGED vars
  BY <1>4, ServerTypesStill, PlaceTypesStill, ChainTypesStill, EngineTypesStill,
     ToldTypesStill, HistoryTypesStill
     DEF vars, server, where, chain, engines, told, history
<1> QED
  BY <1>1, <1>2, <1>3, <1>4, ServerStepTypes, ArrivalTypes, SessionStepTypes, PlayTypes
     DEF Next

\* Types of the server's record, the events and reports on their way and what
\* the page and its engines keep, late probes or not.
THEOREM TypeCorrect ==
  Spec => []TypeOK
<1>1. Init => Types
  BY InitTypes
<1>2. Types /\ [Next]_vars => Types'
  BY TypesKeep
<1>3. Types => TypeOK
  BY DEF Types, ServerTypes, PlaceTypes, ChainTypes, EngineTypes, ToldTypes, HistoryTypes, TypeOK
<1> QED BY <1>1, <1>2, <1>3, PTL DEF Spec

-----------------------------------------------------------------------------
(* The last word *)

\* A page that is not the receiver page plays nothing, and the receiver page
\* has taken the pending play.
PageInv ==
  /\ page = "here" => pending = None
  /\ page # "here" => next = None /\ ~Awaiting /\ emb = Off /\ nat = Off

\* The play that waits for its turn is the latest, and so is the one at an await
\* when none waits; what runs when neither does is the latest as well.
LatestInv ==
  /\ next # None => latest = next
  /\ \A d \in Descs : next = None /\ play[d] # "none" => latest \in {d, None}
  /\ LastPlayWins

\* After a stop nothing but stops is last on its way,
StopsLast == word = "stop" /\ inbox # <<>> => inbox[Len(inbox)] = Stop

\* and once they are all there nothing plays and nothing will, unless one of them
\* came amid a play.
Silent == pending = None /\ ~InFlight /\ emb = Off /\ nat = Off
StopInv == word = "stop" /\ inbox = <<>> /\ ~missed => Silent

BaseInv == Types /\ PageInv /\ StopsLast
WordInv == BaseInv /\ SessionInv /\ LatestInv /\ StopInv

LEMMA BeginPlays ==
  ASSUME SessionInv, NEW d \in Descs,
         \A e \in Descs \ {d} : play[e] = "none",
         Begin(d)
  PROVE  /\ \A e \in Descs \ {d} : play'[e] = "none"
         /\ emb'.of \in {d, None} /\ nat'.of \in {d, None}
<1> USE DEF SessionInv, PlayOK, OnePlay, Owned, NoOrphan, Begin, BeginNative,
            BeginEmbedded, BeginNothing, Session, Off
<1>1. \A e \in Descs \ {d} : play'[e] = "none"
  OBVIOUS
<1>2. CASE BeginNative(d)
  BY <1>1, <1>2
<1>3. CASE BeginEmbedded(d)
  BY <1>1, <1>3
<1>4. CASE BeginNothing(d)
  BY <1>1, <1>4
<1> QED BY <1>2, <1>3, <1>4

LEMMA StopSilences ==
  ASSUME SessionInv, ControlStop
  PROVE  /\ emb' = Off /\ nat' = Off
         /\ active # "none" => missed' = missed
         /\ active = "none" => missed' = (missed \/ InFlight)
BY DEF SessionInv, Owned, NoOrphan, ControlStop, EndActive, engines

LEMMA SessionsOnlyEnd ==
  ASSUME Types, Sessions
  PROVE  /\ UNCHANGED <<server, where, chain, history>>
         /\ emb'.of \in {emb.of, None} /\ nat'.of \in {nat.of, None}
         /\ emb = Off => emb' = Off
         /\ nat = Off => nat' = Off
<1>1. UNCHANGED <<server, where, chain, history>>
  BY DEF Sessions, SessionStep, EmbPlays, EmbTick, EmbEnds, EmbFails, EmbProbed,
         ErrorHides, NatPlays, NatTick, NatFinished, NatError, NatErrorProbed, NatProbed
<1> USE DEF Types, EngineTypes, Off
<1>3. CASE EmbPlays \/ EmbFails \/ EmbProbed
  BY <1>1, <1>3 DEF EmbPlays, EmbFails, EmbProbed, Embedded
<1>4. CASE EmbTick \/ NatTick
  BY <1>1, <1>4 DEF EmbTick, NatTick, engines
<1>5. CASE EmbEnds \/ ErrorHides
  BY <1>1, <1>5 DEF EmbEnds, ErrorHides
<1>6. CASE NatPlays \/ NatErrorProbed
  BY <1>1, <1>6 DEF NatPlays, NatErrorProbed
<1>7. CASE NatFinished \/ NatError \/ NatProbed
  BY <1>1, <1>7 DEF NatFinished, NatError, NatProbed, EndNative
<1> QED BY <1>3, <1>4, <1>5, <1>6, <1>7 DEF Sessions

(* The events that are left are the last ones. *)
LEMMA LastOfTail ==
  ASSUME NEW S, NEW events \in Seq(S), Tail(events) # <<>>, events # <<>>
  PROVE  Tail(events)[Len(Tail(events))] = events[Len(events)]
<1>1. Len(Tail(events)) = Len(events) - 1 /\ Len(Tail(events)) \in Nat /\ Len(Tail(events)) # 0
  BY HeadTailProperties, LenProperties, EmptySeq
<1> QED BY <1>1, HeadTailProperties, LenProperties

LEMMA OnlyEvent ==
  ASSUME NEW S, NEW events \in Seq(S), Tail(events) = <<>>, events # <<>>
  PROVE  Head(events) = events[Len(events)]
<1>1. Len(events) = 1
  <2>1. Tail(events) \in Seq(S) /\ Len(Tail(events)) = Len(events) - 1
    BY HeadTailProperties
  <2>2. Len(Tail(events)) = 0
    BY <2>1, EmptySeq
  <2>3. Len(events) \in Nat
    BY LenProperties
  <2>4. \A n \in Nat : n - 1 = 0 => n = 1
    OBVIOUS
  <2> QED BY <2>1, <2>2, <2>3, <2>4, Zenon
<1> QED BY <1>1, HeadTailProperties

LEMMA LastOfInbox ==
  ASSUME Types, NEW event, Receive(event)
  PROVE  /\ inbox' # <<>> => inbox'[Len(inbox')] = inbox[Len(inbox)]
         /\ inbox' = <<>> => event = inbox[Len(inbox)]
         /\ inbox # <<>>
BY LastOfTail, OnlyEvent DEF Types, ServerTypes, Receive

LEMMA PageKeeps ==
  ASSUME Types, PageInv, [Next]_vars PROVE PageInv'
<1> USE DEF PageInv
<1>1. CASE Server \/ UNCHANGED vars
  <2>1. UNCHANGED <<where, chain, engines>>
    BY <1>1 DEF Server, PlayRecord, PlayEmit, StopEmit, StopRecord, vars, where, chain, engines
  <2> QED BY <2>1 DEF where, chain, engines, Awaiting
<1>2. CASE Arrivals
  <2>1. CASE ReceiveStop
    BY <2>1 DEF ReceiveStop, Receive
  <2>2. CASE ~ReceiveStop
    BY <1>2, <2>2 DEF Arrivals, ReceivePlay, ReceiveElsewhere, ReceiveStopElsewhere,
       ReportArrives, Arrive, Receive, where, chain, engines, Awaiting
  <2> QED BY <2>1, <2>2
<1>3. CASE Sessions
  BY <1>3, SessionsOnlyEnd DEF where, chain, Awaiting
<1>4. ASSUME NEW d \in Descs, Play(d) \/ Woken(d) \/ Mount(d) PROVE PageInv'
  <2>1. UNCHANGED where
    BY <1>4 DEF Play, StartPlay, RefusePlay, WakeWindow, Woken, Mount, MountDone,
                MountFails, MountThrows
  <2>2. page = "here"
    BY <1>4 DEF Play, StartPlay, RefusePlay, WakeWindow, Turn, Woken, Mount, MountDone,
                MountFails, MountThrows, Awaiting
  <2> QED BY <2>1, <2>2 DEF where
<1>5. CASE Retry
  <2>1. emb # Off
    BY <1>5 DEF Retry, Off
  <2> QED BY <1>5, <2>1 DEF Retry, where
<1>6. CASE BackKey
  BY <1>6 DEF BackKey, where
<1>7. CASE Exit
  BY <1>7 DEF Exit, Awaiting
<1> QED BY <1>1, <1>2, <1>3, <1>4, <1>5, <1>6, <1>7 DEF Next

LEMMA LatestKeeps ==
  ASSUME WordInv, [Next]_vars PROVE LatestInv'
<1> USE DEF WordInv, BaseInv
<1>0. ASSUME UNCHANGED <<next, play, emb, nat, latest>> PROVE LatestInv'
  BY <1>0 DEF LatestInv, LastPlayWins, InFlight, Awaiting
<1>1. CASE Server \/ UNCHANGED vars
  BY <1>0, <1>1 DEF Server, PlayRecord, PlayEmit, StopEmit, StopRecord, vars, chain,
                    engines, history
<1>2. CASE Arrivals
  <2>1. ASSUME NEW d \in Descs, ReceivePlay(d) PROVE LatestInv'
    BY <2>1, DescsAssumption DEF ReceivePlay, Enqueue, LatestInv, LastPlayWins, InFlight
  <2>2. CASE ReceiveStop
    BY <2>2, StopSilences
       DEF ReceiveStop, Receive, LatestInv, LastPlayWins, InFlight, Awaiting, Off
  <2>3. CASE Arrive
    BY <2>3 DEF Arrive, engines, PageInv, LatestInv, LastPlayWins, InFlight, Awaiting, Off
  <2>4. CASE (\E d \in Descs : ReceiveElsewhere(d)) \/ ReceiveStopElsewhere \/ ReportArrives
    BY <1>0, <2>4 DEF ReceiveElsewhere, ReceiveStopElsewhere, ReportArrives, Receive,
                      chain, engines, history
  <2> QED BY <1>2, <2>1, <2>2, <2>3, <2>4 DEF Arrivals
<1>3. CASE Sessions
  BY <1>3, SessionsOnlyEnd DEF chain, history, LatestInv, LastPlayWins, InFlight, Awaiting
<1>4. ASSUME NEW d \in Descs, Play(d) PROVE LatestInv'
  <2>1. next = d /\ latest = d /\ next' = None /\ \A e \in Descs : play[e] = "none"
    BY <1>4, DescsAssumption
       DEF Play, StartPlay, RefusePlay, WakeWindow, Turn, LatestInv
  <2>2. CASE StartPlay(d)
    BY <2>1, <2>2, BeginPlays DEF StartPlay, LatestInv, LastPlayWins, InFlight, Awaiting
  <2>3. CASE RefusePlay(d)
    BY <2>1, <2>3 DEF RefusePlay, LatestInv, LastPlayWins, InFlight, Awaiting
  <2>4. CASE WakeWindow(d)
    BY <2>1, <2>4 DEF WakeWindow, history, LatestInv, LastPlayWins, InFlight, Awaiting,
                      Types, ChainTypes
  <2> QED BY <1>4, <2>2, <2>3, <2>4 DEF Play
<1>5. ASSUME NEW d \in Descs, Woken(d) \/ Mount(d) PROVE LatestInv'
  <2>1. /\ UNCHANGED <<next, latest>>
        /\ play[d] # "none" /\ Awaiting
    BY <1>5 DEF Woken, Mount, MountDone, MountFails, MountThrows, history, Awaiting
  <2>2. /\ \A e \in Descs \ {d} : play[e] = "none"
        /\ emb = Off /\ nat = Off
    BY <2>1 DEF SessionInv, OnePlay, Owned, NoOrphan
  <2>3. /\ \A e \in Descs \ {d} : play'[e] = "none"
        /\ emb'.of \in {d, None} /\ nat'.of \in {d, None}
    <3>1. CASE Woken(d)
      BY <2>2, <3>1, BeginPlays DEF Woken
    <3>2. CASE Mount(d)
      BY <2>2, <3>2 DEF Mount, MountDone, MountFails, MountThrows, engines, Session, Off,
                        SessionInv, PlayOK
    <3> QED BY <1>5, <3>1, <3>2
  <2> QED BY <2>1, <2>2, <2>3 DEF LatestInv, LastPlayWins, InFlight, Awaiting
<1>6. CASE Retry
  BY <1>6 DEF Retry, Enqueue, engines, LatestInv, LastPlayWins, InFlight, Awaiting,
              AtRest, Types, ChainTypes
<1>7. CASE BackKey
  BY <1>7, StopSilences
     DEF BackKey, chain, LatestInv, LastPlayWins, InFlight, Awaiting, Off
<1>8. CASE Exit
  BY <1>8 DEF Exit, LatestInv, LastPlayWins, InFlight, Awaiting
<1> QED BY <1>1, <1>2, <1>3, <1>4, <1>5, <1>6, <1>7, <1>8 DEF Next

LEMMA StopsStayLast ==
  ASSUME Types, StopsLast, [Next]_vars PROVE StopsLast'
<1>0. ASSUME UNCHANGED <<word, inbox>> PROVE StopsLast'
  BY <1>0 DEF StopsLast
<1>1. CASE Server
  <2>0. PICK s \in Senders : (\E d \in Descs : PlayRecord(s, d)) \/ PlayEmit(s)
                             \/ StopEmit(s) \/ StopRecord(s)
    BY <1>1 DEF Server
  <2>1. CASE PlayEmit(s)
    BY <2>1 DEF PlayEmit, StopsLast
  <2>2. CASE StopEmit(s)
    <3>1. inbox' # <<>> /\ inbox'[Len(inbox')] = Stop
      BY <2>2, AppendProperties, LenProperties DEF StopEmit, Types, ServerTypes
    <3> QED BY <3>1 DEF StopsLast
  <2>3. CASE (\E d \in Descs : PlayRecord(s, d)) \/ StopRecord(s)
    BY <1>0, <2>3 DEF PlayRecord, StopRecord, history
  <2> QED BY <2>0, <2>1, <2>2, <2>3
<1>2. CASE Arrivals
  <2>1. ASSUME NEW event, Receive(event), word' = word PROVE StopsLast'
    <3>1. /\ inbox' # <<>> => inbox'[Len(inbox')] = inbox[Len(inbox)]
          /\ inbox # <<>>
      BY <2>1, LastOfInbox
    <3> QED BY <2>1, <3>1 DEF StopsLast
  <2>2. CASE ReportArrives \/ Arrive
    BY <1>0, <2>2 DEF ReportArrives, Arrive, server, history
  <2> QED
    BY <1>2, <2>1, <2>2 DEF Arrivals, ReceivePlay, ReceiveElsewhere, ReceiveStop,
                            ReceiveStopElsewhere
<1>3. CASE Sessions
  BY <1>0, <1>3, SessionsOnlyEnd DEF server, history
<1>4. ASSUME NEW d \in Descs, Play(d) \/ Woken(d) \/ Mount(d) PROVE StopsLast'
  BY <1>0, <1>4 DEF Play, StartPlay, RefusePlay, WakeWindow, Woken, Mount, MountDone,
                    MountFails, MountThrows, server, history
<1>5. CASE Retry
  BY <1>5 DEF Retry, StopsLast
<1>6. CASE BackKey \/ Exit \/ UNCHANGED vars
  BY <1>0, <1>6 DEF BackKey, Exit, vars, server
<1> QED BY <1>1, <1>2, <1>3, <1>4, <1>5, <1>6 DEF Next

LEMMA StopKeepsWord ==
  ASSUME WordInv, [Next]_vars PROVE StopInv'
<1> USE DEF WordInv, BaseInv
<1>0. ASSUME UNCHANGED <<word, inbox>>,
             missed => missed',
             ~missed' /\ Silent => Silent'
      PROVE  StopInv'
  BY <1>0 DEF StopInv
<1>1. CASE Server
  <2>0. PICK s \in Senders : (\E d \in Descs : PlayRecord(s, d)) \/ PlayEmit(s)
                             \/ StopEmit(s) \/ StopRecord(s)
    BY <1>1 DEF Server
  <2>1. CASE PlayEmit(s)
    BY <2>1 DEF PlayEmit, StopInv
  <2>2. CASE StopEmit(s)
    <3>1. inbox' # <<>> /\ inbox'[Len(inbox')] = Stop
      BY <2>2, AppendProperties, LenProperties DEF StopEmit, Types, ServerTypes
    <3> QED BY <3>1 DEF StopInv
  <2>3. CASE (\E d \in Descs : PlayRecord(s, d)) \/ StopRecord(s)
    BY <1>0, <2>3 DEF PlayRecord, StopRecord, history, where, chain, engines, Silent,
                      InFlight, Awaiting
  <2> QED BY <2>0, <2>1, <2>2, <2>3
<1>2. CASE Arrivals
  <2>1. ASSUME NEW d \in Descs, ReceivePlay(d) \/ ReceiveElsewhere(d) PROVE StopInv'
    <3>1. Receive(d) /\ word' = word /\ d # Stop
      BY <2>1, DescsAssumption DEF ReceivePlay, ReceiveElsewhere
    <3>2. /\ inbox' # <<>> => inbox'[Len(inbox')] = inbox[Len(inbox)]
          /\ inbox' = <<>> => d = inbox[Len(inbox)]
          /\ inbox # <<>>
      BY <3>1, LastOfInbox
    <3> QED BY <3>1, <3>2 DEF StopInv, StopsLast
  <2>2. CASE ReceiveStop
    <3>1. /\ inbox' # <<>> => inbox'[Len(inbox')] = inbox[Len(inbox)]
          /\ inbox # <<>>
      BY <2>2, LastOfInbox DEF ReceiveStop
    <3>2. ~missed' => Silent'
      <4>1. /\ emb' = Off /\ nat' = Off
            /\ active = "none" => missed' = (missed \/ InFlight)
            /\ UNCHANGED <<pending, next, play>> /\ pending = None /\ AtRest
        BY <2>2, StopSilences DEF ReceiveStop, Receive, PageInv
      <4>2. active # "none" => ~InFlight
        BY <4>1 DEF AtRest, InFlight, SessionInv, OnePlay
      <4> QED BY <4>1, <4>2 DEF Silent, InFlight, Awaiting
    <3> QED BY <2>2, <3>1, <3>2 DEF ReceiveStop, StopInv
  <2>3. CASE ReceiveStopElsewhere
    <3>1. /\ inbox' # <<>> => inbox'[Len(inbox')] = inbox[Len(inbox)]
          /\ inbox # <<>>
      BY <2>3, LastOfInbox DEF ReceiveStopElsewhere
    <3>2. ~missed' => Silent'
      BY <2>3 DEF ReceiveStopElsewhere, Receive, PageInv, engines, Silent, InFlight, Awaiting
    <3> QED BY <2>3, <3>1, <3>2 DEF ReceiveStopElsewhere, StopInv
  <2>4. CASE ReportArrives
    BY <1>0, <2>4 DEF ReportArrives, history, where, chain, engines, Silent, InFlight, Awaiting
  <2>5. CASE Arrive
    BY <1>0, <2>5 DEF Arrive, server, engines, Silent, InFlight, Awaiting
  <2> QED BY <1>2, <2>1, <2>2, <2>3, <2>4, <2>5 DEF Arrivals
<1>3. CASE Sessions
  BY <1>0, <1>3, SessionsOnlyEnd DEF server, where, chain, history, Silent, InFlight, Awaiting
<1>4. ASSUME NEW d \in Descs, Play(d) \/ Woken(d) \/ Mount(d) PROVE StopInv'
  <2>1. UNCHANGED <<word, inbox, missed>>
    BY <1>4 DEF Play, StartPlay, RefusePlay, WakeWindow, Woken, Mount, MountDone,
                MountFails, MountThrows, server, history
  <2>2. ~Silent
    BY <1>4, DescsAssumption
       DEF Play, StartPlay, RefusePlay, WakeWindow, Turn, Woken, Mount, MountDone,
           MountFails, MountThrows, Silent, InFlight, Awaiting
  <2> QED BY <1>0, <2>1, <2>2
<1>5. CASE Retry
  BY <1>5 DEF Retry, StopInv
<1>6. CASE BackKey
  <2>1. missed => missed'
    BY <1>6, StopSilences DEF BackKey
  <2>2. Silent => Silent'
    BY <1>6, StopSilences DEF BackKey, where, chain, Silent, InFlight, Awaiting
  <2> QED BY <1>0, <1>6, <2>1, <2>2 DEF BackKey, server
<1>7. CASE Exit
  BY <1>0, <1>7 DEF Exit, server, Silent, InFlight, Awaiting
<1>8. CASE UNCHANGED vars
  BY <1>0, <1>8 DEF vars, Silent, InFlight, Awaiting
<1> QED BY <1>1, <1>2, <1>3, <1>4, <1>5, <1>6, <1>7, <1>8 DEF Next

\* The page that is left was the receiver page, so nothing is pending either.
LEMMA ExitSettles ==
  ASSUME PageInv, Exit PROVE SessionInv' /\ LatestInv' /\ StopInv'
<1>1. SessionInv'
  BY ExitOwned
<1>2. LatestInv'
  BY DEF Exit, LatestInv, LastPlayWins, InFlight, Awaiting
<1>3. StopInv'
  BY DEF Exit, PageInv, StopInv, Silent, InFlight, Awaiting
<1> QED BY <1>1, <1>2, <1>3

\* The last word of the senders decides what the TV does: what runs is what was
\* asked for last, and after a stop that came amid no play nothing runs.  Only the
\* answer of a probe that outlives its session can change that, and no longer than
\* until the page is left.
THEOREM LastWordDecides ==
  Spec => []LastWordWins
<1> DEFINE I == BaseInv /\ (~clobbered => WordInv)
<1>1. Init => I
  <2> SUFFICES ASSUME Init PROVE WordInv
    BY DEF WordInv
  <2>1. Types
    BY InitTypes
  <2>2. SessionInv
    BY InitOwned
  <2>3. PageInv /\ StopsLast
    BY DEF Init, PageInv, Awaiting, StopsLast
  <2>4. LatestInv
    BY DEF Init, LatestInv, LastPlayWins
  <2>5. StopInv
    BY DEF Init, StopInv, None
  <2> QED BY <2>1, <2>2, <2>3, <2>4, <2>5 DEF WordInv, BaseInv
<1>2. I /\ [Next]_vars => I'
  <2> SUFFICES ASSUME I, [Next]_vars PROVE I'
    OBVIOUS
  <2>1. BaseInv'
    BY TypesKeep, PageKeeps, StopsStayLast DEF BaseInv
  <2>2. ASSUME ~clobbered' PROVE SessionInv' /\ LatestInv' /\ StopInv'
    <3>1. CASE clobbered
      BY <2>2, <3>1, OnlyExitForgives, ExitSettles DEF BaseInv
    <3>2. CASE ~clobbered
      BY <2>2, <3>2, SessionKeeps, LatestKeeps, StopKeepsWord DEF WordInv
    <3> QED BY <3>1, <3>2
  <2> QED BY <2>1, <2>2 DEF WordInv
<1>3. I => LastWordWins
  BY DEF WordInv, LatestInv, StopInv, Silent, LastWordWins, StopStops
<1> QED BY <1>1, <1>2, <1>3, PTL DEF Spec

=============================================================================

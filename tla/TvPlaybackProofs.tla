--------------------------- MODULE TvPlaybackProofs ---------------------------
(***************************************************************************)
(* Proofs about playback in the TV shell, for every number of plays, with  *)
(* and without the native player: what plays is under control, the screen  *)
(* can be left, and playback.ts implements OnePlayer.                      *)
(*                                                                         *)
(* The induction rests on three facts.  Plays take generations in the      *)
(* order they are asked for, so that the one that still holds the current  *)
(* generation is the newest (TakenInOrder) and is above the floor          *)
(* (FloorHolds).  A mount that is under way belongs to the head of the     *)
(* chain and to nobody else (MountIsHead): whatever takes the engine away   *)
(* from it tears it down or outdates it.  And a player that is shown while  *)
(* nothing of it is active or starting was left by an outdated start or by  *)
(* the end of another session (ViewHeld).                                   *)
(***************************************************************************)
EXTENDS TvPlayback, TLAPS

Waits(p) == at[p] \in {"resolving", "queued"}

AskedInOrder == \E n \in 0..MaxPlays : \A p \in Plays : at[p] # "unused" <=> p <= n
TakenInOrder ==
  /\ \A p \in Plays : at[p] # "unused" => taken[p] <= gen
  /\ \A p, q \in Plays : at[p] # "unused" /\ q < p => taken[q] < taken[p]

HeadStarts == \A p \in Plays : at[p] = "starting" <=> p = head
ChainWaits ==
  /\ \A i \in 1..Len(chain) : at[chain[i]] = "queued"
  /\ \A i, j \in 1..Len(chain) : chain[i] = chain[j] => i = j

MountIsHead ==
  /\ head # 0 => active = "none" /\ starting \in {0, head}
  /\ emb.phase = "mounting" =>
       /\ head # 0 /\ emb.of = head
       /\ starting = head => target = head /\ floor < head
       /\ starting # head => taken[head] < gen
  /\ head # 0 \/ starting # 0 => ~EmbeddedSounds
  /\ starting # 0 => active = "none"
  /\ emb.phase = "off" => emb.of = 0
  /\ nat.phase = "off" => nat.of = 0

FloorHolds ==
  /\ \A p \in Plays : Waits(p) /\ taken[p] = gen => floor < p
  /\ floor # 0 => at[floor] # "unused"
ViewHeld == view => active = "embedded" \/ starting # 0 \/ stranded

Controls == ActiveSounds /\ TargetIsPlaying /\ MountIsHead
Orders == AskedInOrder /\ TakenInOrder /\ HeadStarts /\ ChainWaits

IInv == TypeOK /\ Orders /\ Controls /\ FloorHolds /\ ViewHeld

LEMMA PlaysAreNumbers == MaxPlays \in Nat /\ \A p \in Plays : p \in Nat /\ p # 0 /\ p <= MaxPlays
  BY PlaysAssumption DEF Plays

LEMMA InitHolds == Init => IInv
<1> SUFFICES ASSUME Init PROVE IInv
  OBVIOUS
<1>1. TypeOK
  <2>1. 0 \in 0..MaxPlays /\ Off \in Engines({"mounting", "on", "failed"}) /\ Off \in Engines({"on"})
    BY PlaysAreNumbers DEF Engines
  <2>2. chain \in Seq(Plays)
    BY DEF Init
  <2> QED
    BY <2>1, <2>2 DEF Init, TypeOK
<1>2. Orders
  <2>1. AskedInOrder
    <3>1. 0 \in 0..MaxPlays /\ \A p \in Plays : at[p] # "unused" <=> p <= 0
      BY PlaysAreNumbers DEF Init
    <3> QED
      BY <3>1 DEF AskedInOrder
  <2> QED
    BY <2>1, PlaysAreNumbers DEF Init, Orders, TakenInOrder, HeadStarts, ChainWaits
<1>3. Controls /\ FloorHolds /\ ViewHeld
  BY DEF Init, Controls, ActiveSounds, TargetIsPlaying, MountIsHead, FloorHolds, Waits,
         ViewHeld, EmbeddedSounds, NativeSounds, Off
<1> QED
  BY <1>1, <1>2, <1>3 DEF IInv

-----------------------------------------------------------------------------
(* The choices *)

LEMMA NewestIs ==
  ASSUME NEW n \in 0..MaxPlays, \A p \in Plays : at[p] # "unused" <=> p <= n
  PROVE  Newest = n
<1>1. Asked = 1..n
  BY PlaysAreNumbers DEF Asked, Plays
<1>2. CASE n = 0
  BY <1>1, <1>2 DEF Newest
<1>3. CASE n # 0
  <2>1. n \in Asked /\ \A q \in Asked : q <= n
    BY <1>1, <1>3
  <2>2. \A m \in Asked : (\A q \in Asked : q <= m) => m = n
    BY <1>1, <1>3
  <2> QED
    BY <2>1, <2>2 DEF Newest
<1> QED
  BY <1>2, <1>3

(* A step in which nobody asks leaves the choices in order. *)
LEMMA NobodyAsks ==
  ASSUME TypeOK, AskedInOrder, TakenInOrder, taken' = taken, gen' \in Nat, gen <= gen',
         \A p \in Plays : at'[p] = "unused" <=> at[p] = "unused"
  PROVE  AskedInOrder' /\ TakenInOrder' /\ Newest' = Newest
<1>1. PICK n \in 0..MaxPlays : \A p \in Plays : at[p] # "unused" <=> p <= n
  BY DEF AskedInOrder
<1>2. \A p \in Plays : at'[p] # "unused" <=> p <= n
  BY <1>1
<1>3. AskedInOrder'
  BY <1>2 DEF AskedInOrder
<1>4. TakenInOrder'
  BY DEF TakenInOrder, TypeOK
<1>5. Newest = n
  BY <1>1, NewestIs
<1>6. Asked' = Asked
  BY DEF Asked
<1>7. Newest' = Newest
  BY <1>6 DEF Newest
<1> QED
  BY <1>3, <1>4, <1>7

(* The play that holds the current generation is the newest. *)
LEMMA CurrentIsNewest ==
  ASSUME TypeOK, TakenInOrder, NEW p \in Plays, taken[p] = gen,
         NEW q \in Plays, at[q] # "unused"
  PROVE  q <= p
<1>1. taken[p] \in Nat /\ taken[q] \in Nat /\ taken[q] <= gen
  BY DEF TypeOK, TakenInOrder
<1>2. ~(p < q)
  BY <1>1 DEF TakenInOrder
<1> QED
  BY <1>2, PlaysAreNumbers

-----------------------------------------------------------------------------
(* The steps of the look-up *)

LEMMA PlayKeeps ==
  ASSUME IInv, NEW p \in Plays, NEW r \in Routes, Play(p, r)
  PROVE  IInv' /\ Newest' = Newest + 1
<1>1. /\ at \in [Plays -> {"unused", "resolving", "queued", "starting", "over"}]
      /\ taken \in [Plays -> Nat] /\ gen \in Nat /\ r \in {"embedded", "native", "nativeOnly"}
  BY DEF IInv, TypeOK, Routes
<1>2. /\ gen' = gen + 1 /\ at[p] = "unused" /\ \A q \in Plays : q < p => at[q] # "unused"
      /\ at' = [at EXCEPT ![p] = "resolving"] /\ taken' = [taken EXCEPT ![p] = gen + 1]
      /\ UNCHANGED <<chain, head, starting, active, emb, nat, target, presented, view, floor, stranded,
                     probe, strays>>
  BY DEF Play, shows, others
<1>3. TypeOK'
  BY <1>1, <1>2 DEF IInv, TypeOK, Play, Engines
<1>4. PICK n \in 0..MaxPlays : \A q \in Plays : at[q] # "unused" <=> q <= n
  BY DEF IInv, Orders, AskedInOrder
<1>5. p = n + 1
  <2>1. n < p
    BY <1>2, <1>4, PlaysAreNumbers
  <2>2. ~(n + 1 < p)
    <3> SUFFICES ASSUME n + 1 < p PROVE FALSE
      OBVIOUS
    <3>1. n + 1 \in Plays
      BY PlaysAreNumbers DEF Plays
    <3> QED
      BY <1>2, <1>4, <3>1
  <2> QED
    BY <2>1, <2>2, PlaysAreNumbers
<1>6. n + 1 \in 0..MaxPlays /\ \A q \in Plays : at'[q] # "unused" <=> q <= n + 1
  BY <1>1, <1>2, <1>4, <1>5, PlaysAreNumbers
<1>7. Newest = n /\ Newest' = n + 1
  <2>1. Asked' = 1..(n + 1)
    BY <1>6, PlaysAreNumbers DEF Asked, Plays
  <2>2. \A m \in Asked' : (\A q \in Asked' : q <= m) => m = n + 1
    BY <2>1
  <2>3. n + 1 \in Asked' /\ \A q \in Asked' : q <= n + 1
    BY <2>1
  <2>4. Newest' = n + 1
    BY <2>2, <2>3 DEF Newest
  <2> QED
    BY <1>4, <2>4, NewestIs
<1>8. Orders'
  <2>1. AskedInOrder'
    BY <1>6 DEF AskedInOrder
  <2>2. \A q \in Plays : at'[q] # "unused" => taken'[q] <= gen'
    BY <1>1, <1>2 DEF IInv, Orders, TakenInOrder
  <2>3. ASSUME NEW x \in Plays, NEW q \in Plays, at'[x] # "unused", q < x
        PROVE  taken'[q] < taken'[x]
    <3>1. x <= p
      BY <1>4, <1>5, <1>6, <2>3
    <3>2. CASE x = p
      <4>1. taken[q] <= gen
        BY <1>2, <2>3, <3>2 DEF IInv, Orders, TakenInOrder
      <4> QED
        BY <1>1, <1>2, <2>3, <3>2, <4>1, PlaysAreNumbers
    <3>3. CASE x # p
      BY <1>1, <1>2, <2>3, <3>1, <3>3, PlaysAreNumbers DEF IInv, Orders, TakenInOrder
    <3> QED
      BY <3>2, <3>3
  <2>4. HeadStarts' /\ ChainWaits'
    <3>1. \A i \in 1..Len(chain) : chain[i] \in Plays
      BY DEF IInv, TypeOK
    <3> QED
      BY <1>1, <1>2, <3>1 DEF IInv, Orders, HeadStarts, ChainWaits
  <2> QED
    BY <2>1, <2>2, <2>3, <2>4 DEF Orders, TakenInOrder
<1>9. Controls' /\ ViewHeld'
  <2>1. head # 0 => head \in Plays /\ head # p /\ taken'[head] = taken[head] /\ taken[head] \in Nat
    BY <1>1, <1>2, PlaysAreNumbers DEF IInv, TypeOK, Orders, HeadStarts, Plays
  <2>2. MountIsHead'
    BY <1>1, <1>2, <2>1 DEF IInv, Controls, MountIsHead, EmbeddedSounds
  <2> QED
    BY <1>2, <2>2
    DEF IInv, Controls, ActiveSounds, TargetIsPlaying, Sounding, EmbeddedSounds, NativeSounds,
        ViewHeld
<1>10. FloorHolds'
  <2>1. floor # 0 => floor \in Plays /\ floor <= n
    BY <1>4 DEF IInv, TypeOK, FloorHolds, Plays
  <2>2. floor < p
    BY <1>5, <2>1, PlaysAreNumbers DEF IInv, TypeOK
  <2>3. \A q \in Plays : q # p /\ at'[q] # "unused" => taken'[q] # gen'
    BY <1>1, <1>2 DEF IInv, Orders, TakenInOrder
  <2>4. \A q \in Plays : Waits(q)' => at'[q] # "unused"
    BY DEF Waits
  <2>5. floor' # 0 => at'[floor'] # "unused"
    BY <1>1, <1>2, <2>1 DEF IInv, FloorHolds
  <2> QED
    BY <1>2, <2>2, <2>3, <2>4, <2>5 DEF FloorHolds
<1> QED
  BY <1>3, <1>7, <1>8, <1>9, <1>10 DEF IInv

(* What changes at[p] alone and does not begin anything. *)
LEMMA AtMoves ==
  ASSUME IInv, NEW p \in Plays, at[p] = "resolving",
         NEW s \in {"queued", "over"}, at' = [at EXCEPT ![p] = s],
         chain' = IF s = "queued" THEN Append(chain, p) ELSE chain,
         UNCHANGED <<gen, taken, route, head, starting, active, emb, nat, target, presented,
                     view, floor, stranded, probe, strays>>
  PROVE  IInv' /\ Newest' = Newest
<1>1. /\ at \in [Plays -> {"unused", "resolving", "queued", "starting", "over"}]
      /\ chain \in Seq(Plays) /\ gen \in Nat
  BY DEF IInv, TypeOK
<1>2. TypeOK'
  BY <1>1 DEF IInv, TypeOK, Engines
<1>3. AskedInOrder' /\ TakenInOrder' /\ Newest' = Newest
  BY <1>1, NobodyAsks DEF IInv, Orders
<1>4. HeadStarts'
  BY <1>1 DEF IInv, Orders, HeadStarts
<1>5. ChainWaits'
  <2>1. \A i \in 1..Len(chain) : chain[i] \in Plays /\ at[chain[i]] = "queued" /\ chain[i] # p
    BY <1>1 DEF IInv, Orders, ChainWaits
  <2>2. CASE s # "queued"
    BY <1>1, <2>1, <2>2 DEF IInv, Orders, ChainWaits
  <2>3. CASE s = "queued"
    <3>1. /\ Len(chain') = Len(chain) + 1 /\ Len(chain) \in Nat
          /\ \A i \in 1..Len(chain') : chain'[i] = IF i <= Len(chain) THEN chain[i] ELSE p
      BY <1>1, <2>3
    <3>2. \A i, j \in 1..Len(chain) : chain[i] = chain[j] => i = j
      BY DEF IInv, Orders, ChainWaits
    <3>3. ASSUME NEW i \in 1..Len(chain') PROVE at'[chain'[i]] = "queued"
      BY <1>1, <2>1, <2>3, <3>1
    <3>4. ASSUME NEW i \in 1..Len(chain'), NEW j \in 1..Len(chain'), chain'[i] = chain'[j]
          PROVE  i = j
      BY <2>1, <3>1, <3>2, <3>4
    <3> QED
      BY <3>3, <3>4 DEF ChainWaits
  <2> QED
    BY <2>2, <2>3
<1>6. Controls' /\ ViewHeld'
  BY DEF IInv, Controls, ActiveSounds, TargetIsPlaying, Sounding, EmbeddedSounds, NativeSounds,
         MountIsHead, ViewHeld
<1>7. FloorHolds'
  <2>1. floor # 0 => floor \in Plays
    BY DEF IInv, TypeOK, Plays
  <2> QED
    BY <1>1, <2>1 DEF IInv, FloorHolds, Waits
<1> QED
  BY <1>2, <1>3, <1>4, <1>5, <1>6, <1>7 DEF IInv, Orders

LEMMA LookUpKeeps ==
  ASSUME IInv, NEW p \in Plays, LookUp(p)
  PROVE  IInv' /\ Newest' = Newest /\ UNCHANGED <<floor, Sounding, Lost, probe>>
<1>1. CASE Resolved(p)
  <2>1. CASE Stale(p)
    BY <1>1, <2>1, AtMoves DEF Resolved, shows, others, Sounding, EmbeddedSounds, NativeSounds, Lost
  <2>2. CASE ~Stale(p)
    BY <1>1, <2>2, AtMoves DEF Resolved, shows, others, Sounding, EmbeddedSounds, NativeSounds, Lost
  <2> QED
    BY <2>1, <2>2
<1>2. CASE ResolveFails(p)
  BY <1>2, AtMoves DEF ResolveFails, Over, shows, others, Sounding, EmbeddedSounds, NativeSounds, Lost
<1> QED
  BY <1>1, <1>2 DEF LookUp

-----------------------------------------------------------------------------
(* The steps of the chain *)

(* Every step maps to one of OnePlayer or to a stutter. *)
Maps == UNCHANGED <<Newest, floor, Sounding, Lost, probe>> \/ Promise!Next

LEMMA TurnTakes ==
  ASSUME IInv, head = 0, chain # <<>>, chain' = Tail(chain),
         NEW s \in {"starting", "over"}, at' = [at EXCEPT ![Head(chain)] = s],
         head' = IF s = "starting" THEN Head(chain) ELSE 0,
         UNCHANGED <<gen, taken, route>>
  PROVE  /\ Head(chain) \in Plays /\ at[Head(chain)] = "queued"
         /\ Orders' /\ Newest' = Newest
         /\ chain' \in Seq(Plays) /\ head' \in 0..MaxPlays
         /\ at' \in [Plays -> {"unused", "resolving", "queued", "starting", "over"}]
<1>1. /\ at \in [Plays -> {"unused", "resolving", "queued", "starting", "over"}]
      /\ chain \in Seq(Plays) /\ gen \in Nat
  BY DEF IInv, TypeOK
<1> DEFINE p == Head(chain)
<1>2. 1 \in 1..Len(chain) /\ p = chain[1] /\ p \in Plays /\ at[p] = "queued"
  BY <1>1 DEF IInv, Orders, ChainWaits
<1>3. /\ Len(chain) \in Nat /\ Len(chain') = Len(chain) - 1 /\ chain' \in Seq(Plays)
      /\ \A i \in 1..Len(chain') : i + 1 \in 1..Len(chain) /\ chain'[i] = chain[i + 1]
  BY <1>1, <1>2
<1>4. /\ \A i \in 1..Len(chain) : chain[i] \in Plays /\ at[chain[i]] = "queued"
      /\ \A i, j \in 1..Len(chain) : chain[i] = chain[j] => i = j
  BY <1>1 DEF IInv, Orders, ChainWaits
<1>5. ASSUME NEW i \in 1..Len(chain') PROVE at'[chain'[i]] = "queued"
  <2>1. i + 1 \in 1..Len(chain) /\ i + 1 # 1 /\ chain'[i] = chain[i + 1]
    BY <1>3
  <2>2. chain[i + 1] # p /\ chain[i + 1] \in Plays /\ at[chain[i + 1]] = "queued"
    BY <1>2, <1>4, <2>1
  <2> QED
    BY <1>1, <2>1, <2>2
<1>6. ASSUME NEW i \in 1..Len(chain'), NEW j \in 1..Len(chain'), chain'[i] = chain'[j]
      PROVE  i = j
  <2>1. i + 1 = j + 1
    BY <1>3, <1>4, <1>6
  <2> QED
    BY <2>1
<1>7. ChainWaits'
  BY <1>5, <1>6 DEF ChainWaits
<1>8. HeadStarts'
  BY <1>1, <1>2, PlaysAreNumbers DEF IInv, Orders, HeadStarts
<1>9. AskedInOrder' /\ TakenInOrder' /\ Newest' = Newest
  BY <1>1, <1>2, NobodyAsks DEF IInv, Orders
<1>10. at' \in [Plays -> {"unused", "resolving", "queued", "starting", "over"}]
  BY <1>1
<1>11. head' \in 0..MaxPlays
  BY <1>2, PlaysAreNumbers DEF Plays
<1> QED
  BY <1>2, <1>3, <1>7, <1>8, <1>9, <1>10, <1>11 DEF Orders

(* The floor may rise to the play that begins: all that still may is newer. *)
LEMMA FloorRises ==
  ASSUME IInv, NEW p \in Plays, at[p] # "unused", at'[p] \notin {"unused", "resolving", "queued"},
         floor' = p, taken' = taken, gen' = gen,
         \A q \in Plays : q # p => at'[q] = at[q]
  PROVE  FloorHolds'
<1>1. ASSUME NEW q \in Plays, Waits(q)', taken'[q] = gen'
      PROVE  p < q
  <2>1. q # p /\ at[q] # "unused"
    BY <1>1 DEF Waits
  <2>2. p <= q
    BY <1>1, CurrentIsNewest DEF IInv, Orders
  <2> QED
    BY <2>1, <2>2, PlaysAreNumbers
<1> QED
  BY <1>1 DEF FloorHolds

LEMMA FloorStays ==
  ASSUME IInv, UNCHANGED <<floor, taken, gen>>,
         \A q \in Plays : Waits(q)' => Waits(q),
         \A q \in Plays : at[q] # "unused" => at'[q] # "unused"
  PROVE  FloorHolds'
<1>1. floor # 0 => floor \in Plays
  BY DEF IInv, TypeOK, Plays
<1> QED
  BY <1>1 DEF IInv, FloorHolds

(* A start leaves no more lost than there was. *)
LEMMA MountsKeeps ==
  ASSUME IInv, head = 0, chain # <<>>, chain' = Tail(chain),
         ~Stale(Head(chain)), Mounts(Head(chain)),
         \/ nat' = (IF active = "native" THEN Off ELSE nat)
            /\ strays' = strays \ {"embedded"} /\ probe' = probe
         \/ nat' = Off /\ strays' = {} /\ probe' = FALSE,
         view' \in BOOLEAN, presented' \in BOOLEAN, UNCHANGED <<gen, taken, route>>
  PROVE  IInv' /\ Maps
<1> DEFINE p == Head(chain)
<1>1. /\ at' = [at EXCEPT ![p] = "starting"] /\ head' = p /\ starting' = p /\ active' = "none"
      /\ emb' = Engine("mounting", p) /\ target' = p /\ floor' = floor /\ stranded' = FALSE
  BY DEF Mounts
<1>2. /\ p \in Plays /\ at[p] = "queued" /\ Orders' /\ Newest' = Newest
      /\ chain' \in Seq(Plays) /\ head' \in 0..MaxPlays
      /\ at' \in [Plays -> {"unused", "resolving", "queued", "starting", "over"}]
  BY <1>1, TurnTakes
<1>3. nat' \in Engines({"on"}) /\ (nat'.phase = "off" => nat'.of = 0)
  BY DEF IInv, TypeOK, Engines, Off, Controls, MountIsHead
<1>4. emb' = [phase |-> "mounting", of |-> p] /\ emb' \in Engines({"mounting", "on", "failed"})
  BY <1>1, <1>2 DEF Engine, Engines
<1>5. strays' \subseteq strays \ {"embedded"} /\ probe' \in BOOLEAN /\ (probe' => probe)
  <2>1. strays' \subseteq strays \ {"embedded"}
    OBVIOUS
  <2>2. CASE probe' = FALSE
    BY <2>1, <2>2
  <2>3. CASE probe' = probe
    BY <2>1, <2>3 DEF IInv, TypeOK
  <2> QED
    BY <2>2, <2>3
<1>6. TypeOK'
  <2>1. strays' \in SUBSET {"embedded", "native"}
    BY <1>5 DEF IInv, TypeOK
  <2> QED
    BY <1>1, <1>2, <1>3, <1>4, <1>5, <2>1 DEF IInv, TypeOK
<1>7. floor < p
  BY <1>2 DEF IInv, FloorHolds, Waits, Stale
<1>8. (NativeSounds' <=> "native" \in strays') /\ ("native" \in strays' => nat' = nat)
  <2>1. (NativeSounds <=> active = "native" \/ "native" \in strays) /\ active \notin strays
    BY DEF IInv, Controls, ActiveSounds
  <2>2. CASE nat' = Off /\ strays' = {}
    BY <2>2 DEF NativeSounds, Off
  <2>3. CASE nat' = (IF active = "native" THEN Off ELSE nat) /\ strays' = strays \ {"embedded"}
    BY <2>1, <2>3 DEF NativeSounds, Off
  <2> QED
    BY <2>2, <2>3
<1>9. Controls'
  <2>1. ActiveSounds'
    BY <1>1, <1>4, <1>5, <1>8, <1>6 DEF ActiveSounds, EmbeddedSounds, TypeOK
  <2>2. TargetIsPlaying' /\ MountIsHead'
    BY <1>1, <1>2, <1>3, <1>4, <1>7, PlaysAreNumbers
    DEF TargetIsPlaying, MountIsHead, EmbeddedSounds
  <2> QED
    BY <2>1, <2>2 DEF Controls
<1>10. FloorHolds'
  BY <1>1, <1>2, FloorStays DEF IInv, TypeOK, Waits
<1>11. ViewHeld'
  BY <1>1, <1>2, PlaysAreNumbers DEF ViewHeld
<1>12. Maps
  <2>1. Sounding' = 0
    BY <1>4, <1>8 DEF Sounding, EmbeddedSounds
  <2>2. Lost' \subseteq Lost
    BY <1>5, <1>8 DEF Lost
  <2> QED
    BY <1>1, <1>2, <1>5, <2>1, <2>2 DEF Maps, Promise!Next, Promise!End, Promise!Fewer
<1> QED
  BY <1>2, <1>6, <1>9, <1>10, <1>11, <1>12 DEF IInv

(* What the start of a native session leaves of the embedded engine. *)
LEMMA TornDown ==
  ASSUME IInv, head = 0, TearDown, strays' \subseteq strays,
         "embedded" \in strays' <=> "embedded" \in strays
  PROVE  /\ emb' \in Engines({"mounting", "on", "failed"})
         /\ emb'.phase # "mounting" /\ (emb'.phase = "off" => emb'.of = 0)
         /\ EmbeddedSounds' <=> "embedded" \in strays'
         /\ "embedded" \in strays => emb' = emb /\ starting = 0
<1>1. emb' = IF active = "embedded" \/ starting # 0 THEN Off ELSE emb
  BY DEF TearDown
<1>2. /\ EmbeddedSounds <=> active = "embedded" \/ "embedded" \in strays
      /\ active \notin strays /\ emb.phase # "mounting" /\ (starting # 0 => ~EmbeddedSounds)
      /\ emb.phase = "off" => emb.of = 0
      /\ emb \in Engines({"mounting", "on", "failed"})
  BY DEF IInv, TypeOK, Controls, ActiveSounds, MountIsHead
<1>3. CASE active = "embedded" \/ starting # 0
  <2>1. emb' = Off /\ "embedded" \notin strays
    BY <1>1, <1>2, <1>3
  <2> QED
    BY <2>1 DEF Off, Engines, EmbeddedSounds
<1>4. CASE ~(active = "embedded" \/ starting # 0)
  <2>1. emb' = emb
    BY <1>1, <1>4
  <2> QED
    BY <1>2, <1>4, <2>1 DEF EmbeddedSounds
<1> QED
  BY <1>3, <1>4

LEMMA BeginNativeKeeps ==
  ASSUME IInv, head = 0, chain # <<>>, chain' = Tail(chain),
         ~Stale(Head(chain)), BeginNative(Head(chain)), UNCHANGED <<gen, taken, route>>
  PROVE  IInv' /\ Maps
<1> DEFINE p == Head(chain)
<1>1. /\ at' = [at EXCEPT ![p] = "over"] /\ head' = head /\ starting' = 0 /\ active' = "native"
      /\ TearDown /\ nat' = [phase |-> "on", of |-> p] /\ target' = p /\ floor' = p
      /\ view' = (view /\ active # "embedded" /\ starting = 0) /\ presented' = presented
      /\ stranded' = (stranded /\ view') /\ strays' = strays \ {"native"} /\ probe' = FALSE
  BY DEF BeginNative, Engine, NewNativeSession
<1>2. /\ p \in Plays /\ at[p] = "queued" /\ Orders' /\ Newest' = Newest
      /\ chain' \in Seq(Plays) /\ head' \in 0..MaxPlays
      /\ at' \in [Plays -> {"unused", "resolving", "queued", "starting", "over"}]
  BY <1>1, TurnTakes
<1>3. /\ emb' \in Engines({"mounting", "on", "failed"})
      /\ emb'.phase # "mounting" /\ (emb'.phase = "off" => emb'.of = 0)
      /\ EmbeddedSounds' <=> "embedded" \in strays'
      /\ "embedded" \in strays => emb' = emb
  BY <1>1, TornDown
<1>4. TypeOK'
  <2>1. nat' \in Engines({"on"}) /\ p \in 0..MaxPlays
    BY <1>1, <1>2, PlaysAreNumbers DEF Engines, Plays
  <2>2. strays' \in SUBSET {"embedded", "native"} /\ probe' \in BOOLEAN
    BY <1>1 DEF IInv, TypeOK
  <2>3. view' \in BOOLEAN /\ stranded' \in BOOLEAN /\ presented' \in BOOLEAN
    BY <1>1 DEF IInv, TypeOK
  <2> QED
    BY <1>1, <1>2, <1>3, <2>1, <2>2, <2>3 DEF IInv, TypeOK
<1>5. NativeSounds' /\ "native" \notin strays'
  BY <1>1 DEF NativeSounds
<1>6. Sounding' = p
  BY <1>1, <1>3, <1>5 DEF Sounding
<1>7. Controls'
  BY <1>1, <1>3, <1>5, <1>6 DEF Controls, ActiveSounds, TargetIsPlaying, MountIsHead
<1>8. FloorHolds'
  BY <1>1, <1>2, FloorRises DEF IInv, TypeOK
<1>9. ViewHeld'
  BY <1>1 DEF IInv, ViewHeld
<1>10. Maps
  <2>1. floor < p
    BY <1>2 DEF IInv, FloorHolds, Waits, Stale
  <2>2. p <= Newest
    <3>1. PICK n \in 0..MaxPlays : \A q \in Plays : at[q] # "unused" <=> q <= n
      BY DEF IInv, Orders, AskedInOrder
    <3> QED
      BY <1>2, <3>1, NewestIs
  <2>3. Newest \in Nat /\ p \in (floor + 1)..Newest
    <3>1. \E n \in 0..MaxPlays : Newest = n
      BY NewestIs DEF IInv, Orders, AskedInOrder
    <3> QED
      BY <2>1, <2>2, <3>1, <1>2, PlaysAreNumbers DEF IInv, TypeOK
  <2>4. Lost' \subseteq Lost
    BY <1>1, <1>3 DEF Lost
  <2> QED
    BY <1>1, <1>2, <1>6, <2>3, <2>4 DEF Maps, Promise!Next, Promise!Begin, Promise!Fewer
<1> QED
  BY <1>2, <1>4, <1>7, <1>8, <1>9, <1>10 DEF IInv

LEMMA BeginNothingKeeps ==
  ASSUME IInv, head = 0, chain # <<>>, chain' = Tail(chain),
         BeginNothing(Head(chain)), UNCHANGED <<gen, taken, route>>
  PROVE  IInv' /\ Maps
<1> DEFINE p == Head(chain)
<1>1. /\ at' = [at EXCEPT ![p] = "over"] /\ head' = head /\ starting' = 0 /\ active' = "none"
      /\ TearDown /\ nat' = Off /\ target' = 0 /\ floor' = floor
      /\ presented' = FALSE /\ view' = FALSE /\ stranded' = FALSE
      /\ strays' = strays \ {"native"} /\ probe' = FALSE
  BY DEF BeginNothing, NewNativeSession
<1>2. /\ p \in Plays /\ at[p] = "queued" /\ Orders' /\ Newest' = Newest
      /\ chain' \in Seq(Plays) /\ head' \in 0..MaxPlays
      /\ at' \in [Plays -> {"unused", "resolving", "queued", "starting", "over"}]
  BY <1>1, TurnTakes
<1>3. /\ emb' \in Engines({"mounting", "on", "failed"})
      /\ emb'.phase # "mounting" /\ (emb'.phase = "off" => emb'.of = 0)
      /\ EmbeddedSounds' <=> "embedded" \in strays'
      /\ "embedded" \in strays => emb' = emb
  BY <1>1, TornDown
<1>4. nat'.phase = "off" /\ nat'.of = 0 /\ nat' \in Engines({"on"}) /\ ~NativeSounds'
  BY <1>1 DEF Engines, Off, NativeSounds
<1>5. TypeOK'
  <2>1. strays' \in SUBSET {"embedded", "native"} /\ "none" \notin strays'
    BY <1>1 DEF IInv, TypeOK
  <2> QED
    BY <1>1, <1>2, <1>3, <1>4, <2>1, PlaysAreNumbers DEF IInv, TypeOK
<1>6. Sounding' = 0
  BY <1>3, <1>4 DEF Sounding
<1>7. Controls' /\ ViewHeld'
  <2>1. "none" \notin strays' /\ "native" \notin strays'
    BY <1>1 DEF IInv, TypeOK
  <2> QED
    BY <1>1, <1>3, <1>4, <2>1 DEF Controls, ActiveSounds, TargetIsPlaying, MountIsHead, ViewHeld
<1>8. FloorHolds'
  BY <1>1, <1>2, FloorStays DEF IInv, TypeOK, Waits
<1>9. Maps
  <2>1. Lost' \subseteq Lost
    BY <1>1, <1>3 DEF Lost
  <2> QED
    BY <1>1, <1>2, <1>6, <2>1 DEF Maps, Promise!Next, Promise!End, Promise!Fewer
<1> QED
  BY <1>2, <1>5, <1>7, <1>8, <1>9 DEF IInv

LEMMA TurnKeeps ==
  ASSUME IInv, Turn PROVE IInv' /\ Maps
<1> DEFINE p == Head(chain)
<1>1. /\ head = 0 /\ chain # <<>> /\ chain' = Tail(chain)
      /\ UNCHANGED <<gen, taken, route>>
  BY DEF Turn
<1>2. CASE Stale(p)
  <2>1. /\ at' = [at EXCEPT ![p] = "over"]
        /\ UNCHANGED <<head, starting, active, emb, nat, target, presented, view, floor, stranded,
                       probe, strays>>
    BY <1>2 DEF Turn, shows, others
  <2>2. /\ p \in Plays /\ at[p] = "queued" /\ Orders' /\ Newest' = Newest
        /\ chain' \in Seq(Plays) /\ head' \in 0..MaxPlays
        /\ at' \in [Plays -> {"unused", "resolving", "queued", "starting", "over"}]
    BY <1>1, <2>1, TurnTakes
  <2>3. TypeOK'
    BY <1>1, <2>1, <2>2 DEF IInv, TypeOK, Engines
  <2>4. Controls' /\ ViewHeld'
    BY <1>1, <2>1
    DEF IInv, Controls, ActiveSounds, TargetIsPlaying, Sounding, EmbeddedSounds, NativeSounds,
        MountIsHead, ViewHeld
  <2>5. FloorHolds'
    BY <1>1, <2>1, <2>2, FloorStays DEF IInv, TypeOK, Waits
  <2>6. Maps
    BY <2>1, <2>2 DEF Maps, Sounding, EmbeddedSounds, NativeSounds, Lost
  <2> QED
    BY <2>2, <2>3, <2>4, <2>5, <2>6 DEF IInv
<1>3. CASE ~Stale(p)
  <2>1. BeginEmbedded(p) \/ BeginNative(p) \/ BeginFallback(p) \/ BeginNothing(p)
    BY <1>3 DEF Turn
  <2>2. view \in BOOLEAN /\ presented \in BOOLEAN
    BY DEF IInv, TypeOK
  <2>3. CASE BeginEmbedded(p)
    BY <1>1, <1>3, <2>3, MountsKeeps DEF BeginEmbedded
  <2>4. CASE BeginFallback(p)
    <3>1. view' \in BOOLEAN /\ presented' \in BOOLEAN
      BY <2>2, <2>4 DEF BeginFallback
    <3> QED
      BY <1>1, <1>3, <2>4, <3>1, MountsKeeps DEF BeginFallback
  <2> QED
    BY <1>1, <1>3, <2>1, <2>3, <2>4, BeginNativeKeeps, BeginNothingKeeps
<1> QED
  BY <1>2, <1>3

-----------------------------------------------------------------------------
(* The steps of a mount *)

(* The head leaves the chain. *)
LEMMA HeadEnds ==
  ASSUME IInv, head # 0, Over(head), head' = 0, UNCHANGED <<gen, chain>>
  PROVE  /\ head \in Plays /\ at[head] = "starting" /\ Orders' /\ Newest' = Newest
         /\ at' = [at EXCEPT ![head] = "over"] /\ UNCHANGED <<taken, route>>
         /\ at' \in [Plays -> {"unused", "resolving", "queued", "starting", "over"}]
<1>1. /\ at \in [Plays -> {"unused", "resolving", "queued", "starting", "over"}]
      /\ chain \in Seq(Plays) /\ gen \in Nat /\ head \in Plays
  BY PlaysAreNumbers DEF IInv, TypeOK, Plays
<1>2. at[head] = "starting" /\ at' = [at EXCEPT ![head] = "over"] /\ UNCHANGED <<taken, route>>
  BY <1>1 DEF IInv, Orders, HeadStarts, Over
<1>3. HeadStarts'
  BY <1>1, <1>2, PlaysAreNumbers DEF IInv, Orders, HeadStarts
<1>4. ChainWaits'
  <2>1. \A i \in 1..Len(chain) : chain[i] \in Plays /\ at[chain[i]] = "queued"
    BY <1>1 DEF IInv, Orders, ChainWaits
  <2> QED
    BY <1>1, <1>2, <2>1 DEF IInv, Orders, ChainWaits
<1>5. AskedInOrder' /\ TakenInOrder' /\ Newest' = Newest
  BY <1>1, <1>2, NobodyAsks DEF IInv, Orders
<1>6. at' \in [Plays -> {"unused", "resolving", "queued", "starting", "over"}]
  BY <1>1, <1>2
<1> QED
  BY <1>1, <1>2, <1>3, <1>4, <1>5, <1>6 DEF Orders

LEMMA AskedIsNewest ==
  ASSUME IInv, NEW p \in Plays, at[p] # "unused"
  PROVE  Newest \in 0..MaxPlays /\ p <= Newest
<1>1. PICK n \in 0..MaxPlays : \A q \in Plays : at[q] # "unused" <=> q <= n
  BY DEF IInv, Orders, AskedInOrder
<1> QED
  BY <1>1, NewestIs

LEMMA NewestIsPlay ==
  ASSUME IInv
  PROVE  Newest \in 0..MaxPlays /\ (Newest # 0 => Newest \in Plays /\ at[Newest] # "unused")
<1>1. PICK n \in 0..MaxPlays : \A q \in Plays : at[q] # "unused" <=> q <= n
  BY DEF IInv, Orders, AskedInOrder
<1> QED
  BY <1>1, NewestIs, PlaysAreNumbers DEF Plays

LEMMA MountDoneKeeps ==
  ASSUME IInv, MountDone PROVE IInv' /\ Maps
<1>1. /\ head # 0 /\ emb = [phase |-> "mounting", of |-> head] /\ head' = 0 /\ Over(head)
      /\ stranded' = FALSE /\ UNCHANGED <<gen, chain, nat, target, presented, probe, strays>>
      /\ starting' = IF starting = head THEN 0 ELSE starting
  BY DEF MountDone, Engine, others
<1>2. /\ starting \in {0, head} /\ active = "none" /\ "embedded" \notin strays
      /\ starting = head => target = head /\ floor < head
      /\ starting # head => taken[head] < gen
      /\ NativeSounds <=> "native" \in strays
  BY <1>1 DEF IInv, Controls, MountIsHead, ActiveSounds, EmbeddedSounds
<1>3. /\ head \in Plays /\ at[head] = "starting" /\ Orders' /\ Newest' = Newest
      /\ at' = [at EXCEPT ![head] = "over"] /\ UNCHANGED <<taken, route>>
      /\ at' \in [Plays -> {"unused", "resolving", "queued", "starting", "over"}]
  BY <1>1, HeadEnds
<1>4. starting' = 0 /\ NativeSounds' = NativeSounds /\ (nat.phase = "off" => nat.of = 0)
  BY <1>1, <1>2 DEF NativeSounds, IInv, Controls, MountIsHead
<1>5. Sounding = 0
  BY <1>1, <1>2 DEF Sounding, EmbeddedSounds
<1>6. Lost' = Lost
  BY <1>1, <1>2 DEF Lost
<1>7. CASE Stale(head) /\ starting # head
  <2>1. emb' = Off /\ view' = FALSE /\ UNCHANGED <<active, floor>>
    BY <1>7 DEF MountDone
  <2>2. /\ emb' \in Engines({"mounting", "on", "failed"}) /\ emb'.of = 0 /\ emb'.phase = "off"
        /\ ~EmbeddedSounds'
    BY <2>1 DEF Engines, Off, EmbeddedSounds
  <2>3. TypeOK'
    <3>1. presented' \in BOOLEAN /\ view' \in BOOLEAN /\ stranded' \in BOOLEAN /\ probe' \in BOOLEAN
      BY <1>1, <2>1 DEF IInv, TypeOK
    <3> QED
      BY <1>1, <1>3, <1>4, <2>1, <2>2, <3>1, PlaysAreNumbers DEF IInv, TypeOK
  <2>4. Controls' /\ ViewHeld'
    BY <1>1, <1>2, <1>4, <2>1, <2>2
    DEF IInv, TypeOK, Controls, ActiveSounds, TargetIsPlaying, MountIsHead, ViewHeld
  <2>5. FloorHolds'
    BY <1>1, <1>3, <2>1, FloorStays DEF IInv, TypeOK, Waits
  <2>6. Sounding' = 0
    BY <1>1, <1>2, <1>4, <2>2 DEF Sounding
  <2>7. Maps
    BY <1>1, <1>3, <1>5, <1>6, <2>1, <2>6 DEF Maps
  <2> QED
    BY <1>3, <2>3, <2>4, <2>5, <2>7 DEF IInv
<1>8. CASE ~(Stale(head) /\ starting # head)
  <2>1. /\ emb' = [phase |-> "on", of |-> head] /\ active' = "embedded"
        /\ view' = TRUE /\ floor' = head
    BY <1>8 DEF MountDone, Adopted, Engine
  <2>2. starting = head /\ target = head /\ floor < head
    <3>1. gen \in Nat /\ taken[head] \in Nat
      BY <1>3 DEF IInv, TypeOK
    <3>2. starting = head
      BY <1>2, <1>8, <3>1 DEF Stale
    <3> QED
      BY <1>2, <3>2
  <2>3. EmbeddedSounds' /\ emb'.of = head /\ emb' \in Engines({"mounting", "on", "failed"})
    BY <1>3, <2>1 DEF EmbeddedSounds, Engines
  <2>4. TypeOK'
    <3>1. presented' \in BOOLEAN /\ view' \in BOOLEAN /\ stranded' \in BOOLEAN /\ probe' \in BOOLEAN
      BY <1>1, <2>1 DEF IInv, TypeOK
    <3> QED
      BY <1>1, <1>3, <1>4, <2>1, <2>3, <3>1, PlaysAreNumbers DEF IInv, TypeOK, Plays
  <2>5. Sounding' = head
    BY <1>1, <1>2, <2>3 DEF Sounding
  <2>6. Controls' /\ ViewHeld'
    <3>1. ActiveSounds' /\ TargetIsPlaying' /\ ViewHeld'
      BY <1>1, <1>2, <1>4, <2>1, <2>2, <2>3, <2>5
      DEF ActiveSounds, TargetIsPlaying, ViewHeld
    <3>2. MountIsHead'
      BY <1>1, <1>4, <2>1 DEF MountIsHead
    <3> QED
      BY <3>1, <3>2 DEF Controls
  <2>7. FloorHolds'
    BY <1>1, <1>3, <2>1, FloorRises DEF IInv, TypeOK
  <2>8. Maps
    <3>1. head \in (floor + 1)..Newest
      BY <1>3, <2>2, AskedIsNewest, PlaysAreNumbers DEF IInv, TypeOK
    <3> QED
      BY <1>1, <1>3, <1>6, <2>1, <2>5, <3>1 DEF Maps, Promise!Next, Promise!Begin, Promise!Fewer
  <2> QED
    BY <1>3, <2>4, <2>6, <2>7, <2>8 DEF IInv
<1> QED
  BY <1>7, <1>8

(* A start that did not succeed. *)
LEMMA CleanUpKeeps ==
  ASSUME IInv, head # 0, CleanUp,
         emb' = IF emb.phase = "mounting" THEN Off ELSE emb,
         starting' \in {0, starting},
         starting' = 0 => starting = 0 \/ starting = head,
         ~Stale(head) => starting' = 0
  PROVE  IInv' /\ Maps
<1>1. head' = 0 /\ Over(head) /\ UNCHANGED <<gen, chain, active, nat, floor, probe, strays>>
  BY DEF CleanUp, others
<1>2. /\ head \in Plays /\ at[head] = "starting" /\ Orders' /\ Newest' = Newest
      /\ at' = [at EXCEPT ![head] = "over"] /\ UNCHANGED <<taken, route>>
      /\ at' \in [Plays -> {"unused", "resolving", "queued", "starting", "over"}]
  BY <1>1, HeadEnds
<1>3. /\ active = "none" /\ ~EmbeddedSounds /\ "embedded" \notin strays
      /\ NativeSounds <=> "native" \in strays
      /\ nat.phase = "off" => nat.of = 0
  BY DEF IInv, Controls, MountIsHead, ActiveSounds
<1>4. /\ emb' \in Engines({"mounting", "on", "failed"}) /\ emb'.phase = "off" /\ emb'.of = 0
      /\ ~EmbeddedSounds' /\ NativeSounds' = NativeSounds
  BY <1>1, <1>3 DEF IInv, TypeOK, Engines, Off, Controls, MountIsHead, EmbeddedSounds, NativeSounds
<1>5. TypeOK'
  <2>1. /\ target' \in 0..MaxPlays /\ presented' \in BOOLEAN /\ view' \in BOOLEAN
        /\ stranded' \in BOOLEAN
    <3>1. CASE Stale(head)
      <4>1. UNCHANGED <<target, presented, view>> /\ stranded' \in BOOLEAN
        BY <3>1 DEF CleanUp, shows
      <4> QED
        BY <4>1 DEF IInv, TypeOK
    <3>2. CASE ~Stale(head)
      <4>1. target' = 0 /\ presented' = FALSE /\ view' = FALSE /\ stranded' = FALSE
        BY <3>2 DEF CleanUp
      <4>2. target' \in 0..MaxPlays
        BY <4>1, PlaysAreNumbers
      <4> QED
        BY <4>1, <4>2
    <3> QED
      BY <3>1, <3>2
  <2> QED
    BY <1>1, <1>2, <1>4, <2>1, PlaysAreNumbers DEF IInv, TypeOK, Engines
<1>6. Controls'
  BY <1>1, <1>3, <1>4 DEF IInv, TypeOK, Controls, ActiveSounds, TargetIsPlaying, MountIsHead
<1>7. FloorHolds'
  BY <1>1, <1>2, FloorStays DEF IInv, TypeOK, Waits
<1>8. ViewHeld'
  <2>1. CASE Stale(head)
    BY <1>1, <1>3, <2>1 DEF IInv, ViewHeld, CleanUp, shows
  <2>2. CASE ~Stale(head)
    BY <2>2 DEF ViewHeld, CleanUp
  <2> QED
    BY <2>1, <2>2
<1>9. Maps
  <2>1. Sounding = 0 /\ Sounding' = 0 /\ Lost' = Lost
    BY <1>1, <1>3, <1>4 DEF Sounding, Lost
  <2> QED
    BY <1>1, <1>2, <2>1 DEF Maps
<1> QED
  BY <1>2, <1>5, <1>6, <1>7, <1>8, <1>9 DEF IInv

LEMMA MountingKeeps ==
  ASSUME IInv, Mounting PROVE IInv' /\ Maps
<1>1. head # 0 => starting \in {0, head} /\ active = "none" /\ emb.phase \notin {"on", "failed"}
  BY DEF IInv, Controls, MountIsHead, EmbeddedSounds
<1>2. head # 0 /\ emb.phase = "mounting" => emb = Engine("mounting", head)
  BY DEF IInv, TypeOK, Engines, Off, Engine, Controls, MountIsHead
<1>3. Engine("mounting", head).phase = "mounting"
  BY DEF Engine
<1>4. CASE MountClaimed
  <2>1. emb.phase # "mounting" /\ emb' = emb
    BY <1>2, <1>4 DEF MountClaimed
  <2> QED
    BY <1>1, <1>4, <2>1, CleanUpKeeps DEF MountClaimed
<1>5. CASE MountFails
  <2>1. emb.phase = "mounting" /\ emb' = Off
    BY <1>3, <1>5 DEF MountFails
  <2> QED
    BY <1>1, <1>5, <2>1, CleanUpKeeps DEF MountFails
<1>6. CASE MountThrows
  <2>1. emb' = IF emb.phase = "mounting" THEN Off ELSE emb
    BY <1>2, <1>3, <1>6 DEF MountThrows
  <2> QED
    BY <1>1, <1>6, <2>1, CleanUpKeeps DEF MountThrows
<1> QED
  BY <1>4, <1>5, <1>6, MountDoneKeeps DEF Mounting

-----------------------------------------------------------------------------
(* Ends, and the back key *)

(* The engine that plays and is no stray is the active one. *)
LEMMA SoundingIs ==
  ASSUME ActiveSounds, strays \subseteq {"embedded", "native"}
  PROVE  Sounding = IF active = "embedded" THEN emb.of
                    ELSE IF active = "native" THEN nat.of ELSE 0
  BY DEF ActiveSounds, Sounding

(* What plays is one of the plays. *)
LEMMA SoundsArePlays ==
  ASSUME TypeOK
  PROVE  /\ EmbeddedSounds => emb.of \in Plays /\ emb.of # 0
         /\ NativeSounds => nat.of \in Plays /\ nat.of # 0
  BY PlaysAreNumbers DEF TypeOK, Engines, Off, EmbeddedSounds, NativeSounds

(* The session of one engine is over, whichever was active; floor and        *)
(* generation may rise.                                                      *)
LEMMA SessionOverKeeps ==
  ASSUME IInv, NEW e \in {"embedded", "native"}, NEW g \in Nat, SessionEnded(e, g),
         \/ e = "embedded" /\ EmbeddedSounds /\ emb' = Off /\ nat' = nat
            /\ view' = FALSE /\ stranded' = FALSE
         \/ e = "native" /\ nat' = Off /\ emb' = emb
            /\ view' = view /\ stranded' = (stranded \/ (view /\ active # "native")),
         probe' \in BOOLEAN,
         \/ g = gen /\ floor' = floor
         \/ g = gen + 1 /\ floor' = Newest /\ active = e
  PROVE  /\ IInv' /\ Newest' = Newest /\ Sounding' = 0
         /\ active \in {"none", e} => Lost' \subseteq Lost
         /\ Lost' \subseteq Lost \cup {Sounding}
         /\ active = e => Lost' = Lost
<1>1. /\ gen' = (IF starting # 0 \/ active # "none" THEN g + 1 ELSE g)
      /\ starting' = 0 /\ active' = "none" /\ target' = 0 /\ presented' = FALSE
      /\ strays' = (strays \cup ({active} \ {"none"})) \ {e}
      /\ UNCHANGED <<at, taken, route, chain, head>>
  BY DEF SessionEnded, look
<1>2. /\ EmbeddedSounds <=> active = "embedded" \/ "embedded" \in strays
      /\ NativeSounds <=> active = "native" \/ "native" \in strays
      /\ active \notin strays /\ strays \subseteq {"embedded", "native"}
      /\ active \in {"none", "embedded", "native"} /\ gen \in Nat
  BY DEF IInv, TypeOK, Controls, ActiveSounds
<1>3. gen' \in Nat /\ gen <= gen' /\ (starting # 0 \/ active # "none" => gen < gen')
  BY <1>1, <1>2
<1>4. /\ emb' \in Engines({"mounting", "on", "failed"}) /\ (emb'.phase = "off" => emb'.of = 0)
      /\ nat' \in Engines({"on"}) /\ (nat'.phase = "off" => nat'.of = 0)
      /\ Off.phase = "off"
  BY DEF IInv, TypeOK, Engines, Off, Controls, MountIsHead
<1>5. /\ EmbeddedSounds' <=> "embedded" \in strays'
      /\ NativeSounds' <=> "native" \in strays'
      /\ strays' \in SUBSET {"embedded", "native"} /\ "none" \notin strays'
  <2>1. CASE e = "embedded"
    <3>1. emb' = Off /\ nat' = nat /\ "embedded" \notin strays'
      BY <1>1, <2>1
    <3> QED
      BY <1>1, <1>2, <1>4, <2>1, <3>1 DEF EmbeddedSounds, NativeSounds
  <2>2. CASE e = "native"
    <3>1. nat' = Off /\ emb' = emb /\ "native" \notin strays'
      BY <1>1, <2>2
    <3> QED
      BY <1>1, <1>2, <1>4, <2>2, <3>1 DEF EmbeddedSounds, NativeSounds
  <2> QED
    BY <2>1, <2>2
<1>6. TypeOK'
  <2>1. floor' \in 0..MaxPlays /\ target' \in 0..MaxPlays /\ starting' \in 0..MaxPlays
    BY <1>1, NewestIsPlay, PlaysAreNumbers DEF IInv, TypeOK
  <2>2. view' \in BOOLEAN /\ stranded' \in BOOLEAN /\ presented' \in BOOLEAN
    <3>1. CASE view' = FALSE /\ stranded' = FALSE
      BY <1>1, <3>1
    <3>2. CASE view' = view /\ stranded' = (stranded \/ (view /\ active # "native"))
      BY <1>1, <3>2 DEF IInv, TypeOK
    <3> QED
      BY <3>1, <3>2
  <2> QED
    BY <1>1, <1>3, <1>4, <1>5, <2>1, <2>2 DEF IInv, TypeOK
<1>7. AskedInOrder' /\ TakenInOrder' /\ Newest' = Newest
  BY <1>1, <1>3, NobodyAsks DEF IInv, Orders
<1>8. HeadStarts' /\ ChainWaits'
  BY <1>1 DEF IInv, Orders, HeadStarts, ChainWaits
<1>9. Sounding' = 0
  BY <1>5 DEF Sounding
<1>10. Controls'
  <2>1. ActiveSounds' /\ TargetIsPlaying'
    BY <1>1, <1>5 DEF ActiveSounds, TargetIsPlaying
  <2>2. ASSUME emb'.phase = "mounting" PROVE head # 0 /\ emb'.of = head /\ taken[head] < gen'
    <3>1. emb = emb' /\ head # 0 /\ emb.of = head /\ head \in Plays /\ at[head] = "starting"
      BY <1>4, <2>2, PlaysAreNumbers
      DEF IInv, TypeOK, Controls, MountIsHead, Orders, HeadStarts, Plays
    <3>2. CASE starting = head
      <4>1. taken[head] \in Nat /\ taken[head] <= gen
        BY <3>1 DEF IInv, TypeOK, Orders, TakenInOrder
      <4> QED
        BY <1>2, <1>3, <3>1, <3>2, <4>1
    <3>3. CASE starting # head
      <4>1. taken[head] \in Nat /\ taken[head] < gen
        BY <2>2, <3>1, <3>3 DEF IInv, TypeOK, Controls, MountIsHead
      <4> QED
        BY <1>2, <1>3, <3>1, <4>1
    <3> QED
      BY <3>2, <3>3
  <2>3. head # 0 => ~EmbeddedSounds'
    <3>1. head # 0 => ~EmbeddedSounds /\ active = "none"
      BY DEF IInv, Controls, MountIsHead
    <3> QED
      BY <1>1, <1>2, <1>5, <3>1
  <2>4. MountIsHead'
    BY <1>1, <1>4, <2>2, <2>3 DEF MountIsHead
  <2> QED
    BY <2>1, <2>4 DEF Controls
<1>11. FloorHolds'
  <2>1. CASE starting # 0 \/ active # "none"
    <3>1. \A p \in Plays : Waits(p)' => taken'[p] # gen'
      BY <1>1, <1>2, <1>3, <2>1 DEF IInv, TypeOK, Orders, TakenInOrder, Waits
    <3> QED
      BY <1>1, <3>1, NewestIsPlay DEF IInv, FloorHolds
  <2>2. CASE ~(starting # 0 \/ active # "none")
    <3>1. gen' = gen /\ floor' = floor
      BY <1>1, <2>2
    <3> QED
      BY <1>1, <3>1 DEF IInv, FloorHolds, Waits
  <2> QED
    BY <2>1, <2>2
<1>12. ViewHeld'
  <2>1. CASE view' = FALSE
    BY <2>1 DEF ViewHeld
  <2>2. CASE view' = view /\ stranded' = (stranded \/ (view /\ active # "native"))
    <3>1. view => active = "embedded" \/ starting # 0 \/ stranded
      BY DEF IInv, ViewHeld
    <3>2. starting # 0 => active = "none"
      BY DEF IInv, Controls, MountIsHead
    <3> QED
      BY <2>2, <3>1, <3>2 DEF ViewHeld
  <2> QED
    BY <2>1, <2>2
<1>13. /\ active \in {"none", e} => Lost' \subseteq Lost
       /\ Lost' \subseteq Lost \cup {Sounding}
       /\ active = e => Lost' = Lost
  <2>1. Sounding = IF active = "embedded" THEN emb.of
                   ELSE IF active = "native" THEN nat.of ELSE 0
    BY <1>2, SoundingIs DEF IInv, Controls
  <2>2. CASE e = "embedded" /\ nat' = nat
    <3>1. Lost' = {p \in Plays : "native" \in strays' /\ p = nat.of}
      BY <1>1, <2>2 DEF Lost
    <3>2. "native" \in strays' <=> "native" \in strays \/ active = "native"
      BY <1>1, <2>2
    <3>3. active = "embedded" => "embedded" \notin strays
      BY <1>2
    <3> QED
      BY <2>1, <2>2, <3>1, <3>2, <3>3 DEF Lost
  <2>3. CASE e = "native" /\ emb' = emb
    <3>1. Lost' = {p \in Plays : "embedded" \in strays' /\ p = emb.of}
      BY <1>1, <2>3 DEF Lost
    <3>2. "embedded" \in strays' <=> "embedded" \in strays \/ active = "embedded"
      BY <1>1, <2>3
    <3>3. active = "native" => "native" \notin strays
      BY <1>2
    <3> QED
      BY <2>1, <2>3, <3>1, <3>2, <3>3 DEF Lost
  <2> QED
    BY <2>2, <2>3
<1> QED
  BY <1>6, <1>7, <1>8, <1>9, <1>10, <1>11, <1>12, <1>13 DEF IInv, Orders

(* An end: of what plays, or of what does not play any more or plays lost,  *)
(* and then what plays is lost in its stead.                                *)
LEMMA EndMaps ==
  ASSUME IInv, NEW e \in {"embedded", "native"}, Newest' = Newest, floor' = floor,
         Sounding' = 0, probe' => probe,
         active \in {"none", e} => Lost' \subseteq Lost,
         Lost' \subseteq Lost \cup {Sounding},
         probe \/ (IF e = "embedded" THEN EmbeddedSounds ELSE NativeSounds)
  PROVE  Maps
<1>1. /\ EmbeddedSounds <=> active = "embedded" \/ "embedded" \in strays
      /\ NativeSounds <=> active = "native" \/ "native" \in strays
      /\ strays \subseteq {"embedded", "native"} /\ active \in {"none", "embedded", "native"}
  BY DEF IInv, TypeOK, Controls, ActiveSounds
<1>2. CASE active \in {"none", e}
  BY <1>2 DEF Maps, Promise!Next, Promise!End, Promise!Fewer
<1>3. CASE active \notin {"none", e}
  <2>1. Sounding # 0
    BY <1>1, <1>3, SoundsArePlays, SoundingIs DEF IInv, Controls
  <2>2. probe \/ Lost # {}
    <3>1. CASE ~probe
      BY <1>1, <1>3, <3>1, SoundsArePlays DEF IInv, Lost
    <3> QED
      BY <3>1
  <2> QED
    BY <2>1, <2>2 DEF Maps, Promise!Next, Promise!Lose
<1> QED
  BY <1>2, <1>3

LEMMA EndsKeep ==
  ASSUME IInv, EmbeddedEnds \/ ErrorHides \/ NativeEnds \/ ProbeAnswers PROVE IInv' /\ Maps
<1>1. gen \in Nat /\ probe \in BOOLEAN
  BY DEF IInv, TypeOK
<1>2. CASE EmbeddedEnds \/ ErrorHides
  <2>1. EmbeddedSounds /\ EmbeddedOver(gen) /\ floor' = floor
    BY <1>2 DEF EmbeddedEnds, ErrorHides, EmbeddedSounds
  <2>2. /\ SessionEnded("embedded", gen) /\ probe' = probe
        /\ emb' = Off /\ nat' = nat /\ view' = FALSE /\ stranded' = FALSE
    BY <2>1 DEF EmbeddedOver
  <2>3. /\ IInv' /\ Newest' = Newest /\ Sounding' = 0 /\ Lost' \subseteq Lost \cup {Sounding}
        /\ active \in {"none", "embedded"} => Lost' \subseteq Lost
    BY <1>1, <2>1, <2>2, SessionOverKeeps
  <2> QED
    BY <2>1, <2>2, <2>3, EndMaps
<1>3. CASE NativeEnds \/ ProbeAnswers
  <2>1. /\ probe \/ NativeSounds
        /\ NativeOver(gen) /\ floor' = floor /\ probe' \in BOOLEAN /\ (probe' => probe)
    <3>1. CASE NativeEnds
      <4>1. NativeSounds /\ NativeOver(gen) /\ floor' = floor /\ probe' = probe
        BY <3>1 DEF NativeEnds
      <4> QED
        BY <1>1, <4>1
    <3>2. CASE ProbeAnswers
      <4>1. probe /\ NativeOver(gen) /\ floor' = floor /\ probe' = FALSE
        BY <3>2 DEF ProbeAnswers
      <4> QED
        BY <4>1
    <3> QED
      BY <1>3, <3>1, <3>2
  <2>2. /\ SessionEnded("native", gen) /\ nat' = Off /\ emb' = emb /\ view' = view
        /\ stranded' = (stranded \/ (view /\ active # "native"))
    BY <2>1 DEF NativeOver
  <2>3. /\ IInv' /\ Newest' = Newest /\ Sounding' = 0 /\ Lost' \subseteq Lost \cup {Sounding}
        /\ active \in {"none", "native"} => Lost' \subseteq Lost
    BY <1>1, <2>1, <2>2, SessionOverKeeps
  <2> QED
    BY <2>1, <2>3, EndMaps
<1> QED
  BY <1>2, <1>3

LEMMA NativeErrsKeeps ==
  ASSUME IInv, NativeErrs PROVE IInv' /\ Maps
<1>1. /\ NativeSounds /\ probe' = TRUE
      /\ UNCHANGED <<gen, at, taken, route, chain, head, starting, active, emb, nat, target,
                     presented, view, floor, stranded, strays>>
  BY DEF NativeErrs, look, shows
<1>2. Sounding' = Sounding /\ Lost' = Lost
  BY <1>1 DEF Sounding, EmbeddedSounds, NativeSounds, Lost
<1>3. TypeOK'
  BY <1>1 DEF IInv, TypeOK
<1>4. Orders' /\ Newest' = Newest
  BY <1>1 DEF IInv, Orders, AskedInOrder, TakenInOrder, HeadStarts, ChainWaits, Newest, Asked
<1>5. Controls' /\ ViewHeld' /\ FloorHolds'
  BY <1>1, <1>2
  DEF IInv, Controls, ActiveSounds, TargetIsPlaying, MountIsHead, ViewHeld, FloorHolds, Waits,
      EmbeddedSounds, NativeSounds
<1>6. Sounding # 0 \/ Lost # {}
  <2>1. active = "native" \/ "native" \in strays
    BY <1>1 DEF IInv, Controls, ActiveSounds
  <2>2. strays \subseteq {"embedded", "native"} /\ nat.of \in Plays /\ nat.of # 0
    BY <1>1, SoundsArePlays DEF IInv, TypeOK
  <2>3. CASE active = "native"
    BY <2>2, <2>3, SoundingIs DEF IInv, Controls
  <2>4. CASE "native" \in strays
    BY <2>2, <2>4 DEF Lost
  <2> QED
    BY <2>1, <2>3, <2>4
<1>7. Maps
  BY <1>1, <1>2, <1>4, <1>6 DEF Maps, Promise!Next, Promise!Fail
<1> QED
  BY <1>3, <1>4, <1>5, <1>7 DEF IInv

LEMMA EmbeddedFailsKeeps ==
  ASSUME IInv, EmbeddedFails PROVE IInv' /\ Maps
<1>1. /\ emb.phase = "on" /\ emb' = [emb EXCEPT !.phase = "failed"]
      /\ UNCHANGED <<gen, at, taken, route, chain, head, starting, active, nat, target, presented,
                     view, floor, stranded, probe, strays>>
  BY DEF EmbeddedFails, look, shows, others
<1>2. emb \in Engines({"mounting", "on", "failed"})
  BY DEF IInv, TypeOK
<1>3. /\ emb' \in Engines({"mounting", "on", "failed"})
      /\ emb'.phase = "failed" /\ emb'.of = emb.of
  BY <1>1, <1>2 DEF Engines, Off
<1>4. Sounding' = Sounding /\ Lost' = Lost
  BY <1>1, <1>3 DEF Sounding, EmbeddedSounds, NativeSounds, Lost
<1>5. TypeOK'
  BY <1>1, <1>3 DEF IInv, TypeOK
<1>6. Orders' /\ Newest' = Newest
  BY <1>1 DEF IInv, Orders, AskedInOrder, TakenInOrder, HeadStarts, ChainWaits, Newest, Asked
<1>7. Controls' /\ ViewHeld' /\ FloorHolds'
  BY <1>1, <1>3, <1>4
  DEF IInv, Controls, ActiveSounds, TargetIsPlaying, MountIsHead, ViewHeld, FloorHolds, Waits,
      EmbeddedSounds, NativeSounds
<1>8. Maps
  BY <1>1, <1>4, <1>6 DEF Maps
<1> QED
  BY <1>5, <1>6, <1>7, <1>8 DEF IInv

LEMMA StopKeeps ==
  ASSUME IInv, Stop PROVE IInv' /\ Maps
<1>1. /\ active \in {"embedded", "native"} /\ floor' = Newest /\ gen + 1 \in Nat
      /\ probe \in BOOLEAN
  BY DEF Stop, IInv, TypeOK
<1>2. /\ probe' = probe /\ IInv' /\ Newest' = Newest /\ Sounding' = 0 /\ Lost' = Lost
  <2>1. CASE active = "embedded"
    <3>1. /\ SessionEnded("embedded", gen + 1) /\ probe' = probe
          /\ emb' = Off /\ nat' = nat /\ view' = FALSE /\ stranded' = FALSE
      BY <2>1 DEF Stop, EmbeddedOver
    <3>2. EmbeddedSounds
      BY <2>1 DEF IInv, Controls, ActiveSounds
    <3> QED
      BY <1>1, <2>1, <3>1, <3>2, SessionOverKeeps
  <2>2. CASE active = "native"
    <3>1. /\ SessionEnded("native", gen + 1) /\ probe' = probe
          /\ nat' = Off /\ emb' = emb /\ view' = view
          /\ stranded' = (stranded \/ (view /\ active # "native"))
      BY <2>2 DEF Stop, NativeOver
    <3> QED
      BY <1>1, <2>2, <3>1, SessionOverKeeps
  <2> QED
    BY <1>1, <2>1, <2>2
<1> QED
  BY <1>1, <1>2 DEF Maps, Promise!Next, Promise!GoBack

LEMMA CancelKeeps ==
  ASSUME IInv, Cancel PROVE IInv' /\ Maps
<1>1. /\ active = "none" /\ gen' = gen + 1 /\ starting' = 0 /\ target' = 0
      /\ presented' = FALSE /\ view' = FALSE /\ stranded' = FALSE /\ floor' = Newest
      /\ emb' = (IF starting # 0 THEN Off ELSE emb)
      /\ UNCHANGED <<at, taken, route, chain, head, active, nat, probe, strays>>
  BY DEF Cancel, TearDown, look, others
<1>2. /\ emb' \in Engines({"mounting", "on", "failed"}) /\ (emb'.phase = "off" => emb'.of = 0)
      /\ EmbeddedSounds' = EmbeddedSounds
      /\ emb' # Off => emb' = emb
  <2>1. emb \in Engines({"mounting", "on", "failed"}) /\ (emb.phase = "off" => emb.of = 0)
    BY DEF IInv, TypeOK, Controls, MountIsHead
  <2>2. CASE starting # 0
    <3>1. emb' = Off /\ ~EmbeddedSounds
      BY <1>1, <2>2 DEF IInv, Controls, MountIsHead
    <3> QED
      BY <3>1 DEF Off, Engines, EmbeddedSounds
  <2>3. CASE starting = 0
    <3>1. emb' = emb
      BY <1>1, <2>3
    <3> QED
      BY <2>1, <3>1 DEF EmbeddedSounds
  <2> QED
    BY <2>2, <2>3
<1>3. gen \in Nat /\ NativeSounds' = NativeSounds
  BY <1>1 DEF IInv, TypeOK, NativeSounds
<1>4. TypeOK'
  <2>1. floor' \in 0..MaxPlays /\ target' \in 0..MaxPlays /\ starting' \in 0..MaxPlays
    BY <1>1, NewestIsPlay, PlaysAreNumbers DEF IInv, TypeOK
  <2>2. gen' \in Nat
    BY <1>1, <1>3
  <2>3. nat' \in Engines({"on"}) /\ view' \in BOOLEAN /\ stranded' \in BOOLEAN /\ presented' \in BOOLEAN
    BY <1>1 DEF IInv, TypeOK
  <2> QED
    BY <1>1, <1>2, <2>1, <2>2, <2>3 DEF IInv, TypeOK
<1>5. AskedInOrder' /\ TakenInOrder' /\ Newest' = Newest
  BY <1>1, <1>3, NobodyAsks DEF IInv, Orders
<1>6. HeadStarts' /\ ChainWaits'
  BY <1>1 DEF IInv, Orders, HeadStarts, ChainWaits
<1>7. Lost' = Lost /\ Sounding' = 0
  <2>1. /\ EmbeddedSounds <=> "embedded" \in strays
        /\ NativeSounds <=> "native" \in strays
    BY <1>1 DEF IInv, Controls, ActiveSounds
  <2>2. "embedded" \in strays => emb' = emb
    BY <1>2, <2>1 DEF Off, EmbeddedSounds
  <2> QED
    BY <1>1, <1>2, <1>3, <2>1, <2>2 DEF Lost, Sounding
<1>8. Controls' /\ ViewHeld'
  <2>1. ActiveSounds' /\ TargetIsPlaying' /\ ViewHeld'
    BY <1>1, <1>2, <1>3 DEF IInv, Controls, ActiveSounds, TargetIsPlaying, ViewHeld
  <2>2. emb'.phase = "mounting" => head # 0 /\ emb'.of = head /\ taken[head] < gen'
    BY <1>1, <1>2, <1>3 DEF IInv, TypeOK, Off, Controls, MountIsHead, Plays
  <2>3. MountIsHead'
    BY <1>1, <1>2, <2>2 DEF IInv, Controls, MountIsHead
  <2> QED
    BY <2>1, <2>3 DEF Controls
<1>9. FloorHolds'
  <2>1. \A p \in Plays : Waits(p)' => taken'[p] # gen'
    BY <1>1, <1>3 DEF IInv, TypeOK, Orders, TakenInOrder, Waits
  <2> QED
    BY <1>1, <2>1, NewestIsPlay DEF FloorHolds
<1>10. Maps
  BY <1>1, <1>5, <1>7 DEF Maps, Promise!Next, Promise!GoBack
<1> QED
  BY <1>4, <1>5, <1>6, <1>8, <1>9, <1>10 DEF IInv, Orders

LEMMA StepKeeps == IInv /\ [Next]_vars => IInv' /\ Maps
<1> SUFFICES ASSUME IInv, [Next]_vars PROVE IInv' /\ Maps
  OBVIOUS
<1>1. ASSUME NEW p \in Plays, NEW r \in Routes, Play(p, r) PROVE IInv' /\ Maps
  <2>1. IInv' /\ Newest' = Newest + 1
    BY <1>1, PlayKeeps
  <2>2. floor' = floor /\ Sounding' = Sounding /\ Lost' = Lost /\ probe' = probe
    BY <1>1 DEF Play, others, Sounding, EmbeddedSounds, NativeSounds, Lost
  <2> QED
    BY <2>1, <2>2 DEF Maps, Promise!Next, Promise!Ask
<1>2. ASSUME NEW p \in Plays, LookUp(p) PROVE IInv' /\ Maps
  BY <1>2, LookUpKeeps DEF Maps
<1>3. CASE UNCHANGED vars
  <2>1. UNCHANGED <<gen, at, taken, route, chain, head, starting, active, emb, nat, target,
                    presented, view, floor, stranded, probe, strays>>
    BY <1>3 DEF vars
  <2> QED
    BY <2>1
    DEF IInv, TypeOK, Orders, AskedInOrder, TakenInOrder, HeadStarts, ChainWaits, Controls,
        ActiveSounds, TargetIsPlaying, MountIsHead, Sounding, EmbeddedSounds, NativeSounds, Lost,
        FloorHolds, Waits, ViewHeld, Maps, Newest, Asked
<1> QED
  BY <1>1, <1>2, <1>3, TurnKeeps, MountingKeeps, EndsKeep, EmbeddedFailsKeeps,
     NativeErrsKeeps, StopKeeps, CancelKeeps DEF Next

LEMMA Invariance == Spec => []IInv
<1>1. IInv /\ [Next]_vars => IInv'
  BY StepKeeps
<1> QED
  BY <1>1, InitHolds, PTL DEF Spec

-----------------------------------------------------------------------------

(* The type invariant, for every number of plays, with or without the native *)
(* player.                                                                   *)
THEOREM TypeCorrect == Spec => []TypeOK
<1>1. IInv => TypeOK
  BY DEF IInv
<1> QED
  BY <1>1, Invariance, PTL

(* What plays is the active engine, and only one plays, but for a stray that *)
(* the end of another session has made.                                      *)
THEOREM WhatPlaysIsActive == Spec => []ActiveSounds
<1>1. IInv => ActiveSounds
  BY DEF IInv, Controls
<1> QED
  BY <1>1, Invariance, PTL

(* Events and progress go to the play that the active engine plays. *)
THEOREM TargetFollows == Spec => []TargetIsPlaying
<1>1. IInv => TargetIsPlaying
  BY DEF IInv, Controls
<1> QED
  BY <1>1, Invariance, PTL

(* A player that is shown can be left, but for the one that an outdated      *)
(* start or the end of another session left.                                 *)
THEOREM BackFindsThePlayer == Spec => []ScreenCanBeLeft
<1>1. IInv => ScreenCanBeLeft
  BY DEF IInv, ViewHeld, ScreenCanBeLeft
<1> QED
  BY <1>1, Invariance, PTL

(* playback.ts implements OnePlayer: a newer choice is never replaced by an  *)
(* older one, and nothing chosen before the back key begins after it.        *)
THEOREM Implements == Spec => KeepsPromise
<1>1. Init => Promise!Init
  <2> SUFFICES ASSUME Init PROVE Promise!Init
    OBVIOUS
  <2>1. Asked = {}
    BY DEF Init, Asked
  <2> QED
    BY <2>1 DEF Init, Promise!Init, Newest, Sounding, EmbeddedSounds, NativeSounds, Lost, Off
<1>2. IInv /\ [Next]_vars =>
        [Promise!Next]_<<Newest, floor, Sounding, Lost, probe>>
  BY StepKeeps DEF Maps
<1> QED
  BY <1>1, <1>2, Invariance, PTL DEF Spec, KeepsPromise, Promise!Spec
=============================================================================

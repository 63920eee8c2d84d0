----------------------------- MODULE WarmupProofs -----------------------------
(***************************************************************************)
(* Proofs about the catalog warm-up, for every number of calls, kinds,     *)
(* playlists, jobs and navigations.                                        *)
(*                                                                         *)
(* Jobs are numbered, so what has to be known of an object or a call is    *)
(* that its job is not younger than the slot's and, if it is the slot's,   *)
(* is about the same playlist (Known).  Rows that are said to be stored, by *)
(* a tracker, by the job itself or by the snapshot a call was handed, are  *)
(* those of that job or newer ones, or a navigation took them (ObjSound,   *)
(* CallSound, JobSound).  What may be stored is what the slot holds, so    *)
(* nothing older comes last.                                               *)
(***************************************************************************)
EXTENDS Warmup, TLAPS

Filed == {"rows", "stored", "lateStored"}
Known(j, pl) == j <= slot /\ (slot # 0 /\ j = slot => pl = job.pl)

(* What the page has may be what the disk has, and nothing is from a job to come. *)
CacheSound ==
  \A pl \in Playlists, k \in Kinds :
    /\ cache[pl][k] \in durable[pl][k]
    /\ \A j \in durable[pl][k] : j <= slot
ObjSound ==
  \A o \in Callers :
    /\ Known(obj[o].job, obj[o].pl)
    /\ \A k \in Kinds : obj[o].trk[k] \in Filed => Found(obj[o].pl, k, obj[o].job)
CallSound ==
  \A c \in Callers :
    /\ Known(call[c].job, call[c].pl)
    /\ \A k \in Kinds : call[c].snap[k] = "ingested" => Found(call[c].pl, k, call[c].job)
JobSound == \A k \in Kinds : slot # 0 /\ job.kind[k] = "ingested" => Found(job.pl, k, slot)

IInv == TypeOK /\ CacheSound /\ ObjSound /\ CallSound /\ JobSound

(* Found in the next state, by a job and a playlist of this one. *)
FoundNow(pl, k, j) == cache'[pl][k] >= j \/ <<j, k>> \in lost'

Jobs == [pl : Playlists, state : {"running", "done", "cancelled"},
         cancelled : BOOLEAN, kind : [Kinds -> KindStates]]
Objects == [job : 0..MaxJobs, pl : Playlists, trk : [Kinds -> Trackers]]
CallRecords == [pc : {"idle", "attaching", "waiting"}, pl : Playlists,
                want : SUBSET Kinds, job : 0..MaxJobs, joined : BOOLEAN,
                snap : [Kinds -> KindStates], on : Callers \cup {None}]

LEMMA AnyPlaylistIsOne == AnyPlaylist \in Playlists
  BY WarmupAssumption DEF AnyPlaylist

LEMMA Nothing == NoCall \in CallRecords /\ NoObject \in Objects /\ NoKinds \in [Kinds -> KindStates]
  BY AnyPlaylistIsOne, WarmupAssumption
  DEF NoCall, NoObject, NoKinds, CallRecords, Objects, KindStates, Trackers, Settled

LEMMA InitHolds == Init => IInv
<1> SUFFICES ASSUME Init PROVE IInv
  OBVIOUS
<1>1. TypeOK
  BY AnyPlaylistIsOne, Nothing, WarmupAssumption
  DEF Init, TypeOK, CallRecords, Objects, KindStates
<1>2. CacheSound /\ ObjSound /\ CallSound /\ JobSound
  BY DEF Init, CacheSound, ObjSound, CallSound, JobSound, Known, NoCall, NoObject, NoKinds, Filed
<1> QED
  BY <1>1, <1>2 DEF IInv

-----------------------------------------------------------------------------
(* What the helpers make of trackers *)

(* Told by a state, a tracker stays one, and has rows it had not only when  *)
(* the state says that the rows are stored.                                 *)
LEMMA ToldIsTracker ==
  ASSUME NEW t \in Trackers, NEW state \in KindStates
  PROVE  /\ Told(t, state) \in Trackers
         /\ Told(t, state) \in Filed => t \in Filed \/ state = "ingested"
  BY DEF Told, Trackers, Settled, Filed, KindStates

LEMMA ReconciledAreTrackers ==
  ASSUME NEW trk \in [Kinds -> Trackers], NEW kinds \in [Kinds -> KindStates]
  PROVE  /\ Reconciled(trk, kinds) \in [Kinds -> Trackers]
         /\ \A k \in Kinds : Reconciled(trk, kinds)[k] \in Filed
                               => trk[k] \in Filed \/ kinds[k] = "ingested"
<1>1. \A k \in Kinds : /\ Told(trk[k], kinds[k]) \in Trackers
                       /\ Told(trk[k], kinds[k]) \in Filed
                            => trk[k] \in Filed \/ kinds[k] = "ingested"
  BY ToldIsTracker
<1> QED
  BY <1>1 DEF Reconciled

LEMMA MoreTrackers ==
  ASSUME NEW trk \in [Kinds -> Trackers], NEW ks
  PROVE  /\ WithTrackers(trk, ks) \in [Kinds -> Trackers]
         /\ \A k \in Kinds : WithTrackers(trk, ks)[k] \in Filed => trk[k] \in Filed
  BY DEF WithTrackers, Trackers, Filed

LEMMA ForcedIsTracker ==
  ASSUME NEW t \in Trackers
  PROVE  Forced(t) \in Trackers /\ (Forced(t) \in Filed => t \in Filed)
  BY DEF Forced, Trackers, Settled, Filed

(* The rows of nobody become older. *)
Grows ==
  /\ slot' = slot /\ job'.pl = job.pl
  /\ cache' \in [Playlists -> [Kinds -> 0..MaxJobs]]
  /\ \A pl \in Playlists, k \in Kinds : cache'[pl][k] >= cache[pl][k]
  /\ durable' \in [Playlists -> [Kinds -> SUBSET (0..MaxJobs)]]
  /\ lost' = lost

LEMMA SameGrows ==
  ASSUME TypeOK, UNCHANGED <<slot, rows>>, job'.pl = job.pl
  PROVE  Grows
<1>1. \A pl \in Playlists, k \in Kinds : cache[pl][k] \in 0..MaxJobs
  BY DEF TypeOK
<1> QED
  BY <1>1 DEF Grows, TypeOK, rows

(* What is found stays found. *)
LEMMA FoundStays ==
  ASSUME TypeOK, Grows, NEW pl \in Playlists, NEW k \in Kinds, NEW j \in 0..MaxJobs,
         Found(pl, k, j)
  PROVE  FoundNow(pl, k, j)
<1>1. cache[pl][k] \in 0..MaxJobs /\ cache'[pl][k] \in 0..MaxJobs
  BY DEF TypeOK, Grows
<1>2. cache'[pl][k] >= cache[pl][k] /\ lost' = lost
  BY DEF Grows
<1>3. CASE <<j, k>> \in lost
  BY <1>2, <1>3 DEF FoundNow
<1>4. CASE cache[pl][k] >= j
  BY <1>1, <1>2, <1>4, WarmupAssumption DEF FoundNow
<1> QED
  BY <1>3, <1>4 DEF Found

(* Objects that keep their jobs, and get no rows but those of their jobs or *)
(* newer ones, stay sound; so do calls that nothing happens to.             *)
LEMMA ObjectsKeep ==
  ASSUME TypeOK, ObjSound, Grows, obj' \in [Callers -> Objects],
         \A x \in Callers : obj'[x].job = obj[x].job /\ obj'[x].pl = obj[x].pl,
         \A x \in Callers, k \in Kinds : obj'[x].trk[k] \in Filed =>
           obj[x].trk[k] \in Filed \/ FoundNow(obj[x].pl, k, obj[x].job)
  PROVE  ObjSound'
<1>1. obj \in [Callers -> Objects]
  BY DEF TypeOK, Objects
<1>2. ASSUME NEW x \in Callers PROVE Known(obj[x].job, obj[x].pl)'
  BY DEF ObjSound, Known, Grows
<1>3. ASSUME NEW x \in Callers, NEW k \in Kinds, obj'[x].trk[k] \in Filed
      PROVE  FoundNow(obj'[x].pl, k, obj'[x].job)
  <2>1. obj[x].pl \in Playlists /\ obj[x].job \in 0..MaxJobs
    BY <1>1 DEF Objects
  <2>2. obj[x].trk[k] \in Filed => Found(obj[x].pl, k, obj[x].job)
    BY DEF ObjSound
  <2>3. FoundNow(obj[x].pl, k, obj[x].job)
    BY <2>1, <2>2, <1>3, FoundStays
  <2> QED
    BY <2>3
<1> QED
  BY <1>2, <1>3 DEF ObjSound, Found, FoundNow

LEMMA CallsKeep ==
  ASSUME TypeOK, CallSound, Grows,
         call' \in [Callers -> CallRecords],
         \A x \in Callers : \/ call'[x] = call[x]
                            \/ /\ Known(call[x].job, call[x].pl)'
                               /\ \A k \in Kinds : call'[x].snap[k] = "ingested"
                                                    => FoundNow(call'[x].pl, k, call'[x].job)
  PROVE  CallSound'
<1>1. call \in [Callers -> CallRecords]
  BY DEF TypeOK, CallRecords
<1>2. ASSUME NEW x \in Callers PROVE Known(call[x].job, call[x].pl)'
  BY DEF CallSound, Known, Grows
<1>3. ASSUME NEW x \in Callers, NEW k \in Kinds, call'[x].snap[k] = "ingested"
      PROVE  FoundNow(call'[x].pl, k, call'[x].job)
  <2>1. CASE call'[x] # call[x]
    BY <2>1, <1>3
  <2>2. CASE call'[x] = call[x]
    <3>1. call[x].pl \in Playlists /\ call[x].job \in 0..MaxJobs
      BY <1>1 DEF CallRecords
    <3>2. Found(call[x].pl, k, call[x].job)
      BY <1>3, <2>2 DEF CallSound
    <3>3. FoundNow(call[x].pl, k, call[x].job)
      BY <3>1, <3>2, FoundStays
    <3> QED
      BY <2>2, <3>3
  <2> QED
    BY <2>1, <2>2
<1> QED
  BY <1>2, <1>3 DEF CallSound, Found, FoundNow

LEMMA JobKeeps ==
  ASSUME TypeOK, JobSound, Grows,
         \A k \in Kinds : slot # 0 /\ job'.kind[k] = "ingested" =>
           job.kind[k] = "ingested" \/ FoundNow(job.pl, k, slot)
  PROVE  JobSound'
<1> SUFFICES ASSUME NEW k \in Kinds, slot' # 0, job'.kind[k] = "ingested"
             PROVE  FoundNow(job'.pl, k, slot')
  BY DEF JobSound, Found, FoundNow
<1>1. job.pl \in Playlists /\ slot \in 0..MaxJobs
  BY DEF TypeOK
<1>2. job.kind[k] = "ingested" => Found(job.pl, k, slot)
  BY DEF JobSound, Grows
<1>3. FoundNow(job.pl, k, slot)
  BY <1>1, <1>2, FoundStays DEF Grows
<1> QED
  BY <1>3 DEF Grows

LEMMA CacheKeeps ==
  ASSUME TypeOK, CacheSound, UNCHANGED rows, slot' \in Nat, slot' >= slot
  PROVE  CacheSound'
<1>1. \A pl \in Playlists, k \in Kinds : \A j \in durable[pl][k] : j \in Nat /\ j <= slot /\ slot \in Nat
  BY WarmupAssumption DEF TypeOK, CacheSound
<1> QED
  BY <1>1 DEF CacheSound, rows

(* A step that gives o new trackers. *)
LEMMA TrackedKeeps ==
  ASSUME TypeOK, ObjSound, Grows, NEW o \in Callers, NEW trk \in [Kinds -> Trackers],
         Tracked(o, trk),
         \A k \in Kinds : trk[k] \in Filed =>
           obj[o].trk[k] \in Filed \/ FoundNow(obj[o].pl, k, obj[o].job)
  PROVE  obj' \in [Callers -> Objects] /\ active' \in Callers \cup {None} /\ ObjSound'
<1>1. obj \in [Callers -> Objects] /\ obj' = [obj EXCEPT ![o].trk = trk]
  BY DEF TypeOK, Objects, Tracked
<1>2. obj' \in [Callers -> Objects]
  BY <1>1 DEF Objects
<1>3. active' \in Callers \cup {None}
  BY DEF TypeOK, Tracked
<1>4. ASSUME NEW x \in Callers
      PROVE  /\ obj'[x].job = obj[x].job /\ obj'[x].pl = obj[x].pl
             /\ obj'[x].trk = IF x = o THEN trk ELSE obj[x].trk
  BY <1>1 DEF Objects
<1>5. \A x \in Callers, k \in Kinds : obj'[x].trk[k] \in Filed =>
           obj[x].trk[k] \in Filed \/ FoundNow(obj[x].pl, k, obj[x].job)
  BY <1>4
<1> QED
  BY <1>2, <1>3, <1>4, <1>5, ObjectsKeep

(* forceSettleJob of o. *)
LEMMA EndedObjects ==
  ASSUME TypeOK, NEW o \in Callers
  PROVE  /\ Ended(o) \in [Callers -> Objects]
         /\ \A x \in Callers :
              /\ Ended(o)[x].job = obj[x].job /\ Ended(o)[x].pl = obj[x].pl
              /\ \A k \in Kinds : Ended(o)[x].trk[k] \in Filed => obj[x].trk[k] \in Filed
<1> DEFINE forced == [k \in Kinds |-> Forced(obj[o].trk[k])]
<1>1. obj \in [Callers -> Objects]
  BY DEF TypeOK, Objects
<1>2. Ended(o) = [obj EXCEPT ![o].trk = forced]
  BY DEF Ended
<1>3. obj[o].trk \in [Kinds -> Trackers]
  BY <1>1 DEF Objects
<1>4. forced \in [Kinds -> Trackers] /\ \A k \in Kinds : forced[k] \in Filed => obj[o].trk[k] \in Filed
  <2>1. ASSUME NEW k \in Kinds
        PROVE  forced[k] \in Trackers /\ (forced[k] \in Filed => obj[o].trk[k] \in Filed)
    <3>1. obj[o].trk[k] \in Trackers
      BY <1>3
    <3> QED
      BY <3>1, ForcedIsTracker
  <2> QED
    BY <2>1
<1> HIDE DEF forced
<1>5. Ended(o) \in [Callers -> Objects]
  BY <1>1, <1>2, <1>4 DEF Objects
<1>6. ASSUME NEW x \in Callers
      PROVE  /\ Ended(o)[x].job = obj[x].job /\ Ended(o)[x].pl = obj[x].pl
             /\ Ended(o)[x].trk = IF x = o THEN forced ELSE obj[x].trk
  BY <1>1, <1>2 DEF Objects
<1> QED
  BY <1>4, <1>5, <1>6

-----------------------------------------------------------------------------
(* The steps *)

(* What a step that does not change the slot has to show. *)
LEMMA SameSlot ==
  ASSUME IInv, Grows, CacheSound', job' \in Jobs,
         \A k \in Kinds : slot # 0 /\ job'.kind[k] = "ingested" =>
           job.kind[k] = "ingested" \/ FoundNow(job.pl, k, slot),
         call' \in [Callers -> CallRecords], CallSound',
         obj' \in [Callers -> Objects], ObjSound', active' \in Callers \cup {None},
         fails' \in 0..(MaxFailures - 1), overtaken' \subseteq Callers, loads' \in 0..MaxLoads
  PROVE  IInv'
<1>1. JobSound'
  BY JobKeeps DEF IInv
<1>2. TypeOK'
  BY DEF TypeOK, IInv, Grows, Jobs, CallRecords, Objects
<1> QED
  BY <1>1, <1>2 DEF IInv

(* The same when calls, rows, the slot and its playlist stay too. *)
LEMMA CallsStay ==
  ASSUME IInv, UNCHANGED <<slot, rows, call>>, job' \in Jobs, job'.pl = job.pl
  PROVE  /\ Grows /\ CacheSound'
         /\ call' \in [Callers -> CallRecords] /\ CallSound'
<1>1. Grows
  BY SameGrows DEF IInv
<1>2. CacheSound'
  BY DEF IInv, CacheSound, rows
<1>3. call' \in [Callers -> CallRecords]
  BY DEF IInv, TypeOK, CallRecords
<1> QED
  BY <1>1, <1>2, <1>3, CallsKeep DEF IInv

LEMMA Typed ==
  ASSUME TypeOK
  PROVE  /\ job \in Jobs /\ obj \in [Callers -> Objects] /\ call \in [Callers -> CallRecords]
         /\ slot \in 0..MaxJobs /\ slot \in Nat /\ job.pl \in Playlists
         /\ job.kind \in [Kinds -> KindStates]
         /\ \A o \in Callers : /\ obj[o].trk \in [Kinds -> Trackers]
                              /\ obj[o].job \in 0..MaxJobs /\ obj[o].pl \in Playlists
         /\ fails \in 0..(MaxFailures - 1) /\ overtaken \subseteq Callers /\ loads \in 0..MaxLoads
         /\ active \in Callers \cup {None}
  BY WarmupAssumption DEF TypeOK, Jobs, Objects, CallRecords

(* Neither tracker nor call moves. *)
LEMMA JobMoves ==
  ASSUME IInv, UNCHANGED <<slot, rows, call, obj, active, fails, overtaken, loads>>,
         job' \in Jobs, job'.pl = job.pl,
         \A k \in Kinds : job'.kind[k] = "ingested" => job.kind[k] = "ingested"
  PROVE  IInv'
<1>1. ObjSound'
  BY CallsStay, Typed, ObjectsKeep DEF IInv
<1> QED
  BY <1>1, CallsStay, Typed, SameSlot DEF IInv

LEMMA KindLeavesKeeps ==
  ASSUME IInv, NEW k \in Kinds, KindLeaves(k) PROVE IInv'
<1>1. job \in Jobs /\ job' = [job EXCEPT !.kind[k] = "left"]
  BY Typed DEF IInv, KindLeaves
<1>2. /\ job' \in Jobs /\ job'.pl = job.pl
      /\ \A kk \in Kinds : job'.kind[kk] = "ingested" => job.kind[kk] = "ingested"
  BY <1>1 DEF Jobs, KindStates
<1> QED
  BY <1>2, JobMoves DEF KindLeaves

LEMMA JobEndsKeeps ==
  ASSUME IInv, JobEnds PROVE IInv'
<1>1. job \in Jobs /\ job' = [job EXCEPT !.state = IF job.cancelled THEN "cancelled" ELSE "done"]
  BY Typed DEF IInv, JobEnds
<1>2. /\ job' \in Jobs /\ job'.pl = job.pl
      /\ \A kk \in Kinds : job'.kind[kk] = "ingested" => job.kind[kk] = "ingested"
  BY <1>1 DEF Jobs
<1> QED
  BY <1>2, JobMoves DEF JobEnds

LEMMA KindEndsKeeps ==
  ASSUME IInv, NEW k \in Kinds, NEW state \in {"done", "error"}, KindEnds(k, state)
  PROVE  IInv'
<1>1. job \in Jobs /\ job' = [job EXCEPT !.kind[k] = state]
  BY Typed DEF IInv, KindEnds
<1>2. /\ job' \in Jobs /\ job'.pl = job.pl
      /\ \A kk \in Kinds : job'.kind[kk] = "ingested" => job.kind[kk] = "ingested"
  BY <1>1 DEF Jobs, KindStates
<1>3. UNCHANGED <<slot, rows, call, fails, overtaken, loads>>
  BY DEF KindEnds
<1>4. CASE UNCHANGED <<obj, active>>
  BY <1>2, <1>3, <1>4, JobMoves
<1>5. CASE /\ active # None
           /\ Tracked(active, [obj[active].trk EXCEPT ![k] = Told(@, state)])
  <2> DEFINE trk == [obj[active].trk EXCEPT ![k] = Told(@, state)]
  <2>1. active \in Callers /\ obj[active].trk \in [Kinds -> Trackers]
    BY <1>5, Typed DEF IInv
  <2>2. /\ Told(obj[active].trk[k], state) \in Trackers
        /\ Told(obj[active].trk[k], state) \in Filed => obj[active].trk[k] \in Filed
    <3>1. obj[active].trk[k] \in Trackers /\ state \in KindStates /\ state # "ingested"
      BY <2>1 DEF KindStates
    <3> QED
      BY <3>1, ToldIsTracker
  <2>3. /\ trk \in [Kinds -> Trackers]
        /\ \A kk \in Kinds : trk[kk] \in Filed => obj[active].trk[kk] \in Filed
    BY <2>1, <2>2
  <2>4. obj' \in [Callers -> Objects] /\ active' \in Callers \cup {None} /\ ObjSound'
    <3> HIDE DEF trk
    <3>1. Grows
      BY <1>2, <1>3, CallsStay
    <3>2. Tracked(active, trk)
      BY <1>5 DEF trk
    <3> QED
      BY <2>1, <2>3, <3>1, <3>2, TrackedKeeps DEF IInv
  <2> QED
    BY <1>2, <1>3, <2>4, CallsStay, Typed, SameSlot DEF IInv
<1> QED
  BY <1>4, <1>5 DEF KindEnds

(* What the trackers of an object of the job in the slot make of its kinds. *)
LEMMA Reconciles ==
  ASSUME IInv, NEW o \in Callers, obj[o].job = slot, NEW trk \in [Kinds -> Trackers],
         \A k \in Kinds : trk[k] \in Filed => obj[o].trk[k] \in Filed
  PROVE  /\ Reconciled(trk, job.kind) \in [Kinds -> Trackers]
         /\ \A k \in Kinds : Reconciled(trk, job.kind)[k] \in Filed =>
              obj[o].trk[k] \in Filed \/ Found(obj[o].pl, k, obj[o].job)
<1>1. /\ Reconciled(trk, job.kind) \in [Kinds -> Trackers]
      /\ \A k \in Kinds : Reconciled(trk, job.kind)[k] \in Filed
                           => trk[k] \in Filed \/ job.kind[k] = "ingested"
  BY ReconciledAreTrackers, Typed DEF IInv
<1>2. ASSUME NEW k \in Kinds, job.kind[k] = "ingested"
      PROVE  Found(obj[o].pl, k, obj[o].job)
  <2>1. CASE slot = 0
    <3>1. cache[obj[o].pl][k] \in 0..MaxJobs
      BY Typed DEF IInv, TypeOK
    <3> QED
      BY <3>1, <2>1, WarmupAssumption DEF Found
  <2>2. CASE slot # 0
    BY <2>2, <1>2 DEF IInv, JobSound, ObjSound, Known
  <2> QED
    BY <2>1, <2>2
<1> QED
  BY <1>1, <1>2

LEMMA PollAnsweredKeeps ==
  ASSUME IInv, PollAnswered PROVE IInv'
<1>1. UNCHANGED <<slot, job, rows, call, overtaken, loads>> /\ fails' \in 0..(MaxFailures - 1)
  BY WarmupAssumption DEF PollAnswered, rust
<1>2. active \in Callers
  BY Typed DEF IInv, PollAnswered
<1>3. job' \in Jobs /\ job'.pl = job.pl
  BY <1>1, Typed DEF IInv
<1>4. Grows
  BY <1>1, <1>3, CallsStay
<1>5. obj' \in [Callers -> Objects] /\ active' \in Callers \cup {None} /\ ObjSound'
  <2>1. CASE obj[active].job = slot
    <3>1. Tracked(active, Reconciled(obj[active].trk, job.kind))
      BY <2>1 DEF PollAnswered
    <3>2. obj[active].trk \in [Kinds -> Trackers]
      BY <1>2, Typed DEF IInv
    <3>3. /\ Reconciled(obj[active].trk, job.kind) \in [Kinds -> Trackers]
          /\ \A k \in Kinds : Reconciled(obj[active].trk, job.kind)[k] \in Filed =>
               obj[active].trk[k] \in Filed \/ FoundNow(obj[active].pl, k, obj[active].job)
      BY <1>1, <1>2, <2>1, <3>2, Reconciles DEF Found, FoundNow, rows
    <3> QED
      BY <1>2, <1>4, <3>1, <3>3, TrackedKeeps DEF IInv
  <2>2. CASE obj[active].job # slot
    <3>1. UNCHANGED <<obj, active>>
      BY <2>2 DEF PollAnswered
    <3> QED
      BY <3>1, <1>4, Typed, ObjectsKeep DEF IInv
  <2> QED
    BY <2>1, <2>2
<1> QED
  BY <1>1, <1>3, <1>4, <1>5, CallsStay, Typed, SameSlot DEF IInv

LEMMA PollFailsKeeps ==
  ASSUME IInv, PollFails PROVE IInv'
<1>1. UNCHANGED <<slot, job, rows, call, overtaken, loads>>
  BY DEF PollFails, rust
<1>2. active \in Callers /\ fails \in 0..(MaxFailures - 1)
  BY Typed DEF IInv, PollFails
<1>3. job' \in Jobs /\ job'.pl = job.pl
  BY <1>1, Typed DEF IInv
<1>4. Grows
  BY <1>1, <1>3, CallsStay
<1>5. /\ fails' \in 0..(MaxFailures - 1) /\ active' \in Callers \cup {None}
      /\ obj' = obj \/ obj' = Ended(active)
  BY <1>2, WarmupAssumption DEF PollFails
<1>6. obj' \in [Callers -> Objects] /\ ObjSound'
  <2>1. CASE obj' = obj
    BY <2>1, <1>4, Typed, ObjectsKeep DEF IInv
  <2>2. CASE obj' = Ended(active)
    BY <2>2, <1>2, <1>4, EndedObjects, ObjectsKeep DEF IInv
  <2> QED
    BY <1>5, <2>1, <2>2
<1> QED
  BY <1>1, <1>3, <1>4, <1>5, <1>6, CallsStay, Typed, SameSlot DEF IInv

(* Only what the slot holds can be read, so that nothing is newer. *)
LEMMA ReadGrows ==
  ASSUME IInv, NEW o \in Callers, NEW k \in Kinds, Read(o, k)
  PROVE  /\ Grows /\ CacheSound'
         /\ Readable(obj[o].job, k) => FoundNow(obj[o].pl, k, obj[o].job)
<1>1. /\ cache \in [Playlists -> [Kinds -> 0..MaxJobs]]
      /\ obj[o].pl \in Playlists /\ obj[o].job \in 0..MaxJobs /\ slot \in 0..MaxJobs
  BY Typed DEF IInv, TypeOK
<1>2. UNCHANGED <<slot, job>>
  BY DEF Read, rust
<1>3. \A pl \in Playlists, kk \in Kinds : cache[pl][kk] \in 0..MaxJobs /\ cache[pl][kk] <= slot
  BY <1>1 DEF IInv, CacheSound, rows
<1>4. CASE ~Readable(obj[o].job, k)
  <2>1. UNCHANGED rows
    BY <1>4 DEF Read, rows
  <2>2. Grows
    BY <1>2, <2>1, SameGrows DEF IInv
  <2>3. CacheSound'
    BY <1>2, <2>1 DEF IInv, CacheSound, rows
  <2> QED
    BY <1>4, <2>2, <2>3
<1>5. CASE Readable(obj[o].job, k)
  <2>1. /\ cache' = [cache EXCEPT ![obj[o].pl][k] = obj[o].job] /\ obj[o].job = slot
        /\ durable' = [durable EXCEPT ![obj[o].pl][k] = @ \cup {obj[o].job}] /\ lost' = lost
    BY <1>5 DEF Read, Readable
  <2>2. /\ cache' \in [Playlists -> [Kinds -> 0..MaxJobs]]
        /\ durable' \in [Playlists -> [Kinds -> SUBSET (0..MaxJobs)]]
    BY <1>1, <2>1 DEF IInv, TypeOK
  <2>3. ASSUME NEW pl \in Playlists, NEW kk \in Kinds
        PROVE  IF pl = obj[o].pl /\ kk = k
               THEN cache'[pl][kk] = slot /\ durable'[pl][kk] = durable[pl][kk] \cup {slot}
               ELSE cache'[pl][kk] = cache[pl][kk] /\ durable'[pl][kk] = durable[pl][kk]
    BY <1>1, <2>1 DEF IInv, TypeOK
  <2>4. \A pl \in Playlists, kk \in Kinds : cache'[pl][kk] >= cache[pl][kk]
    BY <1>1, <1>3, <2>3, WarmupAssumption
  <2>5. Grows
    BY <1>2, <2>1, <2>2, <2>4 DEF Grows
  <2>6. CacheSound'
    BY <1>1, <1>2, <2>3, WarmupAssumption DEF IInv, CacheSound
  <2>7. FoundNow(obj[o].pl, k, obj[o].job)
    BY <1>1, <2>1, <2>3, WarmupAssumption DEF FoundNow
  <2> QED
    BY <2>5, <2>6, <2>7
<1> QED
  BY <1>4, <1>5

LEMMA ReadKeeps ==
  ASSUME IInv, NEW o \in Callers, NEW k \in Kinds, Read(o, k) PROVE IInv'
<1>1. UNCHANGED <<slot, job, call, fails, overtaken, loads>>
  BY DEF Read, rust
<1>2. Grows /\ CacheSound'
  BY ReadGrows
<1>3. obj \in [Callers -> Objects] /\ obj[o].trk \in [Kinds -> Trackers]
  BY Typed DEF IInv
<1>4. obj' \in [Callers -> Objects] /\ active' \in Callers \cup {None} /\ ObjSound'
  <2>1. CASE Readable(obj[o].job, k)
    <3> DEFINE trk == [obj[o].trk EXCEPT ![k] = IF @ = "reading" THEN "stored" ELSE "lateStored"]
    <3>1. obj' = [obj EXCEPT ![o].trk = trk] /\ active' = active
      BY <2>1, <1>3 DEF Read, Objects
    <3>2. trk \in [Kinds -> Trackers]
      BY <1>3 DEF Trackers, Settled
    <3>3. \A kk \in Kinds : trk[kk] \in Filed =>
            obj[o].trk[kk] \in Filed \/ FoundNow(obj[o].pl, kk, obj[o].job)
      BY <2>1, <1>3, ReadGrows
    <3> HIDE DEF trk
    <3>4. obj' \in [Callers -> Objects]
      BY <1>3, <3>1, <3>2 DEF Objects
    <3>5. ASSUME NEW x \in Callers
          PROVE  /\ obj'[x].job = obj[x].job /\ obj'[x].pl = obj[x].pl
                 /\ obj'[x].trk = IF x = o THEN trk ELSE obj[x].trk
      BY <1>3, <3>1 DEF Objects
    <3>6. \A x \in Callers, kk \in Kinds : obj'[x].trk[kk] \in Filed =>
            obj[x].trk[kk] \in Filed \/ FoundNow(obj[x].pl, kk, obj[x].job)
      BY <3>3, <3>5
    <3> QED
      BY <1>2, <3>1, <3>4, <3>5, <3>6, Typed, ObjectsKeep DEF IInv
  <2>2. CASE ~Readable(obj[o].job, k)
    <3> DEFINE trk == [obj[o].trk EXCEPT ![k] = "error"]
    <3>1. Tracked(o, trk)
      BY <2>2 DEF Read
    <3>2. /\ trk \in [Kinds -> Trackers]
          /\ \A kk \in Kinds : trk[kk] \in Filed => obj[o].trk[kk] \in Filed
      BY <1>3 DEF Trackers, Settled, Filed
    <3> HIDE DEF trk
    <3> QED
      BY <1>2, <3>1, <3>2, TrackedKeeps DEF IInv
  <2> QED
    BY <2>1, <2>2
<1>5. call' \in [Callers -> CallRecords] /\ CallSound'
  BY <1>1, <1>2, Typed, CallsKeep DEF IInv
<1> QED
  BY <1>1, <1>2, <1>4, <1>5, Typed, SameSlot DEF IInv

LEMMA AckKeeps ==
  ASSUME IInv, NEW o \in Callers, NEW k \in Kinds, Ack(o, k) PROVE IInv'
<1> DEFINE ok == obj[o].job = slot
           trk == [obj[o].trk EXCEPT ![k] = IF ok /\ @ = "stored" THEN "rows" ELSE "error"]
<1>1. /\ UNCHANGED <<slot, rows, call, fails, overtaken, loads>>
      /\ obj[o].trk[k] \in Filed /\ Tracked(o, trk)
      /\ job' = IF ok THEN [job EXCEPT !.kind[k] = "ingested"] ELSE job
  BY DEF Ack, Acks, Filed
<1>2. obj[o].trk \in [Kinds -> Trackers] /\ job \in Jobs
  BY Typed DEF IInv
<1>3. trk \in [Kinds -> Trackers] /\ \A kk \in Kinds : trk[kk] \in Filed => obj[o].trk[kk] \in Filed
  BY <1>1, <1>2 DEF Trackers, Settled, Filed
<1>4. job' \in Jobs /\ job'.pl = job.pl
  BY <1>1, <1>2 DEF Jobs, KindStates
<1>5. Grows
  BY <1>1, <1>4, CallsStay
<1>6. obj' \in [Callers -> Objects] /\ active' \in Callers \cup {None} /\ ObjSound'
  <2> HIDE DEF trk
  <2> QED
    BY <1>1, <1>3, <1>5, TrackedKeeps DEF IInv
<1>7. ASSUME NEW kk \in Kinds, slot # 0, job'.kind[kk] = "ingested"
      PROVE  job.kind[kk] = "ingested" \/ FoundNow(job.pl, kk, slot)
  <2>1. CASE ok /\ kk = k
    <3>1. Found(obj[o].pl, k, obj[o].job) /\ obj[o].pl = job.pl
      BY <1>1, <1>7, <2>1 DEF IInv, ObjSound, Known
    <3> QED
      BY <1>1, <2>1, <3>1 DEF Found, FoundNow, rows
  <2>2. CASE ~(ok /\ kk = k)
    BY <1>1, <1>2, <1>7, <2>2 DEF Jobs
  <2> QED
    BY <2>1, <2>2
<1> QED
  BY <1>1, <1>4, <1>5, <1>6, <1>7, CallsStay, Typed, SameSlot DEF IInv

(* A call c becomes r. *)
LEMMA CallBecomes ==
  ASSUME TypeOK, CallSound, Grows, NEW c \in Callers, NEW r \in CallRecords,
         call' = [call EXCEPT ![c] = r],
         r.job <= slot /\ (slot # 0 /\ r.job = slot => r.pl = job.pl),
         \A k \in Kinds : r.snap[k] = "ingested" => FoundNow(r.pl, k, r.job)
  PROVE  call' \in [Callers -> CallRecords] /\ CallSound'
<1>1. call \in [Callers -> CallRecords]
  BY Typed
<1>2. call' \in [Callers -> CallRecords]
  BY <1>1
<1>3. ASSUME NEW x \in Callers
      PROVE  \/ call'[x] = call[x]
             \/ /\ Known(call[x].job, call[x].pl)'
                /\ \A k \in Kinds : call'[x].snap[k] = "ingested"
                                     => FoundNow(call'[x].pl, k, call'[x].job)
  <2>1. CASE x = c
    BY <1>1, <2>1 DEF Known, Grows
  <2>2. CASE x # c
    BY <1>1, <2>2
  <2> QED
    BY <2>1, <2>2
<1> QED
  BY <1>2, <1>3, CallsKeep

LEMMA WaitsKeeps ==
  ASSUME TypeOK, CallSound, Grows, NEW c \in Callers, NEW o \in Callers,
         NEW ks \in SUBSET Kinds, Waits(c, o, ks)
  PROVE  call' \in [Callers -> CallRecords] /\ CallSound'
<1> DEFINE r == [NoCall EXCEPT !.pc = "waiting", !.want = ks, !.on = o]
<1>1. r \in CallRecords
  BY Nothing DEF CallRecords
<1>2. r.job = 0 /\ \A k \in Kinds : r.snap[k] # "ingested"
  BY DEF NoCall, NoKinds
<1>3. call' = [call EXCEPT ![c] = r]
  BY DEF Waits
<1>4. slot \in Nat
  BY Typed
<1> HIDE DEF r
<1>5. r.job <= slot /\ (slot # 0 /\ r.job = slot => r.pl = job.pl)
  BY <1>2, <1>4
<1>6. \A k \in Kinds : r.snap[k] = "ingested" => FoundNow(r.pl, k, r.job)
  BY <1>2
<1> QED
  BY <1>1, <1>3, <1>5, <1>6, CallBecomes

(* A call is told of the job in the slot. *)
LEMMA JoinKeeps ==
  ASSUME IInv, NEW c \in Callers, NEW pl \in Playlists, NEW ks \in SUBSET Kinds,
         slot # 0, pl = job.pl, Tracks(c, pl, ks, slot, TRUE, job.kind),
         UNCHANGED <<slot, job, rows, fails, overtaken, loads>>
  PROVE  IInv'
<1> DEFINE want == {k \in ks : job.kind[k] # "none"}
<1>1. job' \in Jobs /\ job'.pl = job.pl
  BY Typed DEF IInv
<1>2. Grows
  BY <1>1, SameGrows DEF IInv
<1>3. CacheSound'
  BY DEF IInv, CacheSound, rows
<1>4. CASE active # None /\ obj[active].job = slot
  <2>1. /\ Tracked(active, Reconciled(WithTrackers(obj[active].trk, want), job.kind))
        /\ Waits(c, active, want)
    BY <1>4 DEF Tracks
  <2>2. active \in Callers /\ want \in SUBSET Kinds
    BY <1>4, Typed DEF IInv
  <2> HIDE DEF want
  <2>3. /\ WithTrackers(obj[active].trk, want) \in [Kinds -> Trackers]
        /\ \A k \in Kinds : WithTrackers(obj[active].trk, want)[k] \in Filed
                             => obj[active].trk[k] \in Filed
    BY <2>2, Typed, MoreTrackers DEF IInv
  <2>4. /\ Reconciled(WithTrackers(obj[active].trk, want), job.kind) \in [Kinds -> Trackers]
        /\ \A k \in Kinds : Reconciled(WithTrackers(obj[active].trk, want), job.kind)[k] \in Filed =>
             obj[active].trk[k] \in Filed \/ FoundNow(obj[active].pl, k, obj[active].job)
    BY <1>4, <2>2, <2>3, Reconciles DEF Found, FoundNow, rows
  <2>5. obj' \in [Callers -> Objects] /\ active' \in Callers \cup {None} /\ ObjSound'
    BY <1>2, <2>1, <2>2, <2>4, TrackedKeeps DEF IInv
  <2>6. call' \in [Callers -> CallRecords] /\ CallSound'
    BY <1>2, <2>1, <2>2, WaitsKeeps DEF IInv
  <2> QED
    BY <1>1, <1>2, <1>3, <2>1, <2>5, <2>6, Typed, SameSlot DEF IInv
<1>5. CASE ~(active # None /\ obj[active].job = slot)
  <2> DEFINE r == [pc |-> "attaching", pl |-> pl, want |-> want, job |-> slot,
                   joined |-> TRUE, snap |-> job.kind, on |-> None]
  <2>1. call' = [call EXCEPT ![c] = r] /\ UNCHANGED <<obj, active>>
    BY <1>5 DEF Tracks
  <2>2. r \in CallRecords
    BY Typed DEF IInv, CallRecords
  <2>3. \A k \in Kinds : r.snap[k] = "ingested" => FoundNow(r.pl, k, r.job)
    BY DEF IInv, JobSound, Found, FoundNow, rows
  <2>4. r.job <= slot /\ r.pl = job.pl
    BY Typed DEF IInv
  <2> HIDE DEF r
  <2>5. call' \in [Callers -> CallRecords] /\ CallSound'
    BY <1>2, <2>1, <2>2, <2>3, <2>4, CallBecomes DEF IInv
  <2>6. overtaken' \subseteq Callers
    BY <2>1, Typed DEF IInv
  <2>7. ObjSound'
    BY <1>2, <2>1, Typed, ObjectsKeep DEF IInv
  <2> QED
    BY <1>1, <1>2, <1>3, <2>1, <2>5, <2>6, <2>7, Typed, SameSlot DEF IInv
<1> QED
  BY <1>4, <1>5

(* A new job is younger than all that is known. *)
LEMMA NewJobKeeps ==
  ASSUME IInv, NEW c \in Callers, NEW pl \in Playlists, NEW ks \in SUBSET Kinds,
         slot < MaxJobs, slot' = slot + 1, job' = NewJob(pl, ks),
         Tracks(c, pl, ks, slot', FALSE, job'.kind),
         UNCHANGED <<rows, fails, overtaken, loads>>
  PROVE  IInv'
<1> DEFINE r == [pc |-> "attaching", pl |-> pl, want |-> {k \in ks : job'.kind[k] # "none"},
                 job |-> slot', joined |-> FALSE, snap |-> job'.kind, on |-> None]
<1>1. slot \in Nat /\ slot' \in 1..MaxJobs
  BY Typed, WarmupAssumption DEF IInv
<1>2. \A o \in Callers : obj[o].job \in Nat /\ obj[o].job <= slot /\ obj[o].job < slot'
  BY <1>1, Typed, WarmupAssumption DEF IInv, ObjSound, Known
<1>3. ~(active # None /\ obj[active].job = slot')
  BY <1>1, <1>2, Typed DEF IInv
<1>4. call' = [call EXCEPT ![c] = r] /\ UNCHANGED <<obj, active>>
  BY <1>3 DEF Tracks
<1>5. job' \in Jobs /\ \A k \in Kinds : job'.kind[k] # "ingested"
  BY DEF NewJob, Jobs, KindStates
<1>6. job'.kind \in [Kinds -> KindStates] /\ job'.pl = pl
  BY <1>5 DEF Jobs, NewJob
<1>7. r \in CallRecords
  BY <1>1, <1>6 DEF CallRecords
<1>8. call \in [Callers -> CallRecords]
  BY Typed DEF IInv
<1>9. TypeOK'
  <2>1. call' \in [Callers -> CallRecords]
    BY <1>4, <1>7, <1>8
  <2>2. overtaken' \subseteq Callers
    BY <1>4, Typed DEF IInv
  <2> QED
    BY <1>1, <1>4, <1>5, <2>1, <2>2 DEF IInv, TypeOK, Jobs, CallRecords, rows
<1>10. CacheSound'
  BY <1>1, CacheKeeps DEF IInv
<1>11. ObjSound'
  <2> SUFFICES ASSUME NEW o \in Callers
               PROVE  /\ Known(obj[o].job, obj[o].pl)'
                      /\ \A k \in Kinds : obj'[o].trk[k] \in Filed
                                           => FoundNow(obj'[o].pl, k, obj'[o].job)
    BY DEF ObjSound, Found, FoundNow
  <2>1. obj' = obj /\ cache' = cache /\ lost' = lost
    BY <1>4 DEF rows
  <2>2. Known(obj[o].job, obj[o].pl)'
    BY <1>1, <1>2, <2>1 DEF Known
  <2>3. \A k \in Kinds : obj'[o].trk[k] \in Filed => FoundNow(obj'[o].pl, k, obj'[o].job)
    BY <2>1 DEF IInv, ObjSound, Found, FoundNow
  <2> QED
    BY <2>2, <2>3
<1>12. JobSound'
  BY <1>5 DEF JobSound
<1>13. CallSound'
  <2> SUFFICES ASSUME NEW x \in Callers
               PROVE  /\ Known(call[x].job, call[x].pl)'
                      /\ \A k \in Kinds : call'[x].snap[k] = "ingested"
                                           => FoundNow(call'[x].pl, k, call'[x].job)
    BY DEF CallSound, Found, FoundNow
  <2>1. CASE x = c
    <3>1. call'[x] = r
      BY <1>4, <1>8, <2>1
    <3> QED
      BY <1>1, <1>5, <1>6, <3>1 DEF Known
  <2>2. CASE x # c
    <3>1. call'[x] = call[x]
      BY <1>4, <1>8, <2>2
    <3>2. call[x].job \in Nat
      BY <1>8, WarmupAssumption DEF CallRecords
    <3>3. call[x].job <= slot
      BY DEF IInv, CallSound, Known
    <3>4. Known(call[x].job, call[x].pl)'
      BY <1>1, <3>1, <3>2, <3>3 DEF Known
    <3> QED
      BY <3>1, <3>4 DEF IInv, CallSound, Found, FoundNow, rows
  <2> QED
    BY <2>1, <2>2
<1> QED
  BY <1>9, <1>10, <1>11, <1>12, <1>13 DEF IInv

LEMMA StartKeeps ==
  ASSUME IInv, NEW c \in Callers, NEW pl \in Playlists, NEW ks \in SUBSET Kinds,
         NEW force \in BOOLEAN, Start(c, pl, ks, force), UNCHANGED <<rows, fails, overtaken, loads>>
  PROVE  IInv'
<1>1. CASE /\ Joins(pl, force) /\ UNCHANGED rust
           /\ Tracks(c, pl, ks, slot, TRUE, job.kind)
  BY <1>1, JoinKeeps DEF Joins, Running, rust
<1>2. CASE /\ slot < MaxJobs /\ slot' = slot + 1 /\ job' = NewJob(pl, ks)
           /\ Tracks(c, pl, ks, slot', FALSE, job'.kind)
  BY <1>2, NewJobKeeps
<1>3. CASE job' = [job EXCEPT !.cancelled = TRUE] /\ UNCHANGED <<slot, call, obj, active>>
  <2>1. job \in Jobs
    BY Typed DEF IInv
  <2>2. /\ job' \in Jobs /\ job'.pl = job.pl
        /\ \A k \in Kinds : job'.kind[k] = "ingested" => job.kind[k] = "ingested"
    BY <1>3, <2>1 DEF Jobs
  <2> QED
    BY <1>3, <2>2, JobMoves
<1> QED
  BY <1>1, <1>2, <1>3 DEF Start

LEMMA BeginsKeeps ==
  ASSUME IInv, NEW c \in Callers, NEW pl \in Playlists, Begins(c, pl) PROVE IInv'
<1>1. CASE Warm(c, pl)
  <2>1. PICK ks \in SUBSET Kinds : Start(c, pl, ks, FALSE)
    BY <1>1 DEF Warm, Missing, Adoptable
  <2> QED
    BY <1>1, <2>1, StartKeeps DEF Warm
<1>2. ASSUME NEW ks \in SUBSET Kinds, Refresh(c, pl, ks) PROVE IInv'
  BY <1>2, StartKeeps DEF Refresh
<1>3. ASSUME NEW k \in Kinds, AwaitTracked(c, pl, k) PROVE IInv'
  <2>1. /\ UNCHANGED <<slot, job, rows, obj, active, fails, overtaken, loads>>
        /\ active \in Callers /\ Waits(c, active, {k})
    BY <1>3, Typed DEF AwaitTracked, HasTracker, rust, IInv
  <2>2. Grows /\ CacheSound'
    BY <2>1, SameGrows DEF IInv, CacheSound, rows
  <2>3. call' \in [Callers -> CallRecords] /\ CallSound'
    BY <2>1, <2>2, WaitsKeeps DEF IInv
  <2>4. ObjSound'
    BY <2>1, <2>2, Typed, ObjectsKeep DEF IInv
  <2> QED
    BY <2>1, <2>2, <2>3, <2>4, Typed, SameSlot DEF IInv
<1>4. ASSUME NEW k \in Kinds, AwaitRunning(c, pl, k) PROVE IInv'
  BY <1>4, JoinKeeps DEF AwaitRunning, Adoptable, Running, rust
<1> QED
  BY <1>1, <1>2, <1>3, <1>4 DEF Begins

LEMMA AttachKeeps ==
  ASSUME IInv, NEW c \in Callers, Attach(c) PROVE IInv'
<1> DEFINE others == IF active = None THEN obj ELSE Ended(active)
           new == WithTrackers(NoKinds, call[c].want)
           trk == IF call[c].joined THEN Reconciled(new, call[c].snap) ELSE new
           o == [job |-> call[c].job, pl |-> call[c].pl, trk |-> trk]
<1>1. /\ UNCHANGED <<slot, job, rows, loads>> /\ fails' = 0
      /\ obj' = [others EXCEPT ![c] = o]
      /\ Waits(c, c, call[c].want)
  BY DEF Attach, AttachBeside, rust
<1>2. active' \in Callers \cup {None}
  BY DEF Attach, AttachBeside
<1>3. overtaken' \subseteq Callers
  BY Typed DEF Attach, AttachBeside, IInv
<1>4. Grows /\ CacheSound' /\ job' \in Jobs
  BY <1>1, SameGrows, Typed DEF IInv, CacheSound, rows
<1>5. call[c] \in CallRecords
  BY Typed DEF IInv
<1>6. /\ others \in [Callers -> Objects]
      /\ \A x \in Callers :
           /\ others[x].job = obj[x].job /\ others[x].pl = obj[x].pl
           /\ \A k \in Kinds : others[x].trk[k] \in Filed => obj[x].trk[k] \in Filed
  <2>1. CASE active = None
    BY <2>1, Typed DEF IInv
  <2>2. CASE active # None
    BY <2>2, Typed, EndedObjects DEF IInv
  <2> QED
    BY <2>1, <2>2
<1>7. trk \in [Kinds -> Trackers] /\ \A k \in Kinds : trk[k] \in Filed => call[c].snap[k] = "ingested"
  <2>1. NoKinds \in [Kinds -> Trackers] /\ \A k \in Kinds : NoKinds[k] \notin Filed
    BY DEF NoKinds, Trackers, Filed
  <2>2. new \in [Kinds -> Trackers] /\ \A k \in Kinds : new[k] \notin Filed
    BY <2>1, MoreTrackers
  <2>3. call[c].snap \in [Kinds -> KindStates]
    BY <1>5 DEF CallRecords
  <2> HIDE DEF new
  <2> QED
    BY <2>2, <2>3, ReconciledAreTrackers
<1> HIDE DEF others, trk
<1>8. o \in Objects
  BY <1>5, <1>7 DEF Objects, CallRecords
<1>9. obj' \in [Callers -> Objects]
  BY <1>1, <1>6, <1>8
<1>10. ObjSound'
  <2> SUFFICES ASSUME NEW x \in Callers
               PROVE  /\ Known(obj[x].job, obj[x].pl)'
                      /\ \A k \in Kinds : obj'[x].trk[k] \in Filed
                                           => FoundNow(obj'[x].pl, k, obj'[x].job)
    BY DEF ObjSound, Found, FoundNow
  <2>1. CASE x = c
    <3>1. obj'[x] = o
      BY <1>1, <1>6, <2>1
    <3>2. Known(call[c].job, call[c].pl)
      BY DEF IInv, CallSound
    <3>3. \A k \in Kinds : trk[k] \in Filed => Found(call[c].pl, k, call[c].job)
      BY <1>7 DEF IInv, CallSound
    <3> QED
      BY <1>1, <3>1, <3>2, <3>3 DEF Known, Found, FoundNow, rows
  <2>2. CASE x # c
    <3>1. obj'[x] = others[x]
      BY <1>1, <1>6, <2>2
    <3> QED
      BY <1>1, <1>6, <3>1 DEF IInv, ObjSound, Known, Found, FoundNow, rows
  <2> QED
    BY <2>1, <2>2
<1>11. call' \in [Callers -> CallRecords] /\ CallSound'
  BY <1>1, <1>4, <1>5, WaitsKeeps DEF IInv, CallRecords
<1>12. fails' \in 0..(MaxFailures - 1)
  BY <1>1, WarmupAssumption
<1> QED
  BY <1>1, <1>2, <1>3, <1>4, <1>9, <1>10, <1>11, <1>12, Typed, SameSlot DEF IInv

LEMMA ResumeKeeps ==
  ASSUME IInv, NEW c \in Callers, Resume(c) PROVE IInv'
<1>1. /\ UNCHANGED <<slot, job, rows, active, fails, overtaken, loads>>
      /\ call' = [call EXCEPT ![c] = NoCall]
      /\ obj' = obj \/ obj' = [obj EXCEPT ![call[c].on] = NoObject]
  BY DEF Resume, rust
<1>2. Grows /\ CacheSound' /\ job' \in Jobs /\ job'.pl = job.pl
  BY <1>1, SameGrows, Typed DEF IInv, CacheSound, rows
<1>3. slot \in Nat /\ obj \in [Callers -> Objects]
  BY Typed DEF IInv
<1>4. call' \in [Callers -> CallRecords] /\ CallSound'
  <2>1. NoCall.job <= slot /\ (slot # 0 /\ NoCall.job = slot => NoCall.pl = job.pl)
    BY <1>3 DEF NoCall
  <2>2. \A k \in Kinds : NoCall.snap[k] # "ingested"
    BY DEF NoCall, NoKinds
  <2> QED
    BY <1>1, <1>2, <2>1, <2>2, Nothing, CallBecomes DEF IInv
<1>5. obj' \in [Callers -> Objects] /\ \A x \in Callers : obj'[x] = obj[x] \/ obj'[x] = NoObject
  BY <1>1, <1>3, Nothing
<1>6. ObjSound'
  <2> SUFFICES ASSUME NEW x \in Callers
               PROVE  /\ Known(obj[x].job, obj[x].pl)'
                      /\ \A k \in Kinds : obj'[x].trk[k] \in Filed
                                           => FoundNow(obj'[x].pl, k, obj'[x].job)
    BY DEF ObjSound, Found, FoundNow
  <2>1. CASE obj'[x] = obj[x]
    BY <1>1, <2>1 DEF IInv, ObjSound, Known, Found, FoundNow, rows
  <2>2. CASE obj'[x] = NoObject
    BY <1>1, <1>3, <2>2 DEF NoObject, NoKinds, Filed, Known
  <2> QED
    BY <1>5, <2>1, <2>2
<1> QED
  BY <1>1, <1>2, <1>4, <1>5, <1>6, Typed, SameSlot DEF IInv

LEMMA LoadKeeps ==
  ASSUME IInv, Load PROVE IInv'
<1>1. /\ UNCHANGED <<slot, job>> /\ loads' \in 0..MaxLoads
      /\ call' = [c \in Callers |-> NoCall] /\ obj' = [c \in Callers |-> NoObject]
      /\ active' = None /\ fails' \in 0..(MaxFailures - 1) /\ overtaken' \subseteq Callers
  BY WarmupAssumption, Typed DEF Load, rust, IInv
<1>2. PICK left \in [Playlists -> [Kinds -> 0..MaxJobs]] :
        /\ \A pl \in Playlists, k \in Kinds : left[pl][k] \in durable[pl][k]
        /\ cache' = left
        /\ durable' = [pl \in Playlists |-> [k \in Kinds |-> {left[pl][k]}]]
        /\ lost' = lost \cup {<<slot, k>> : k \in {i \in Kinds : /\ job.kind[i] = "ingested"
                                                          /\ left[job.pl][i] < slot}}
  BY DEF Load
<1>3. slot \in Nat /\ slot \in 0..MaxJobs /\ job.pl \in Playlists /\ job \in Jobs
  BY Typed DEF IInv
<1>4. call' \in [Callers -> CallRecords] /\ obj' \in [Callers -> Objects]
  BY <1>1, Nothing
<1>5. /\ durable' \in [Playlists -> [Kinds -> SUBSET (0..MaxJobs)]]
      /\ lost' \subseteq (0..MaxJobs) \X Kinds
  BY <1>2, <1>3 DEF IInv, TypeOK
<1>6. TypeOK'
  BY <1>1, <1>2, <1>3, <1>4, <1>5 DEF TypeOK, Jobs, CallRecords, Objects
<1>7. CacheSound'
  <2> SUFFICES ASSUME NEW pl \in Playlists, NEW k \in Kinds
               PROVE  durable'[pl][k] = {cache'[pl][k]} /\ cache'[pl][k] <= slot'
    BY DEF CacheSound
  <2> QED
    BY <1>1, <1>2 DEF IInv, CacheSound
<1>8. CallSound'
  BY <1>1, <1>3 DEF CallSound, Known, NoCall, NoKinds
<1>9. ObjSound'
  BY <1>1, <1>3 DEF ObjSound, Known, NoObject, NoKinds, Filed
<1>10. JobSound'
  <2> SUFFICES ASSUME NEW k \in Kinds, job.kind[k] = "ingested"
               PROVE  FoundNow(job.pl, k, slot)
    BY <1>1 DEF JobSound, Found, FoundNow
  <2>1. CASE left[job.pl][k] < slot
    BY <1>2, <2>1 DEF FoundNow
  <2>2. CASE ~(left[job.pl][k] < slot)
    <3>1. left[job.pl][k] \in Nat
      BY <1>2, <1>3, WarmupAssumption
    <3> QED
      BY <1>2, <1>3, <2>2, <3>1 DEF FoundNow
  <2> QED
    BY <2>1, <2>2
<1> QED
  BY <1>6, <1>7, <1>8, <1>9, <1>10 DEF IInv

LEMMA LandsKeeps ==
  ASSUME IInv, NEW pl \in Playlists, NEW k \in Kinds, Lands(pl, k) PROVE IInv'
<1>1. /\ UNCHANGED <<slot, job, cache, lost, call, obj, active, fails, overtaken, loads>>
      /\ durable' = [durable EXCEPT ![pl][k] = {cache[pl][k]}]
  BY DEF Lands, rust
<1>2. /\ durable \in [Playlists -> [Kinds -> SUBSET (0..MaxJobs)]]
      /\ \A p \in Playlists, i \in Kinds : cache[p][i] \in 0..MaxJobs
  BY DEF IInv, TypeOK
<1>3. /\ durable' \in [Playlists -> [Kinds -> SUBSET (0..MaxJobs)]]
      /\ \A p \in Playlists, i \in Kinds :
           durable'[p][i] = IF p = pl /\ i = k THEN {cache[pl][k]} ELSE durable[p][i]
  BY <1>1, <1>2
<1>4. Grows
  BY <1>1, <1>2, <1>3, WarmupAssumption DEF Grows, IInv, TypeOK
<1>5. CacheSound'
  BY <1>1, <1>3 DEF IInv, CacheSound
<1>6. ObjSound' /\ CallSound'
  BY <1>1, <1>4, Typed, ObjectsKeep, CallsKeep DEF IInv
<1> QED
  BY <1>1, <1>4, <1>5, <1>6, Typed, SameSlot DEF IInv

LEMMA StutterKeeps ==
  ASSUME IInv, UNCHANGED vars PROVE IInv'
<1>1. UNCHANGED <<slot, job, rows, call, obj, active, fails, overtaken, loads>>
  BY DEF vars, rust, rows
<1> QED
  BY <1>1, JobMoves, Typed DEF IInv

LEMMA StepKeeps == IInv /\ [Next]_vars => IInv'
<1> SUFFICES ASSUME IInv, [Next]_vars PROVE IInv'
  OBVIOUS
<1>1. ASSUME NEW k \in Kinds, Downloads(k) PROVE IInv'
  BY <1>1, KindLeavesKeeps, KindEndsKeeps DEF Downloads
<1>2. ASSUME NEW c \in Callers, NEW k \in Kinds, Ingests(c, k) PROVE IInv'
  BY <1>2, ReadKeeps, AckKeeps DEF Ingests
<1> QED
  BY <1>1, <1>2, JobEndsKeeps, PollAnsweredKeeps, PollFailsKeeps, BeginsKeeps, AttachKeeps,
     ResumeKeeps, LoadKeeps, LandsKeeps, StutterKeeps DEF Next

LEMMA Invariance == Spec => []IInv
  BY InitHolds, StepKeeps, PTL DEF Spec

-----------------------------------------------------------------------------

(* The type invariant, for every number of calls, kinds, playlists and jobs. *)
THEOREM TypeCorrect == Spec => []TypeOK
<1>1. IInv => TypeOK
  BY DEF IInv
<1> QED
  BY <1>1, Invariance, PTL

(* Whoever is told that a kind is done finds its rows cached: those of the   *)
(* job it waited for, or newer ones, however jobs, pages and calls overlap,  *)
(* unless they were acknowledged before they were on disk and a navigation   *)
(* took them.                                                                *)
THEOREM DoneIsCached == Spec => []RowsAreCached
<1>1. IInv => RowsAreCached
  BY DEF IInv, ObjSound, RowsAreCached, Filed
<1> QED
  BY <1>1, Invariance, PTL

(* No reader of a superseded job puts an older catalog over a newer one, and   *)
(* on disk nothing does, navigations included.                                 *)
THEOREM NewestCatalogStays == Spec => NewestStays
<1> DEFINE Newer ==
      \A pl \in Playlists, k \in Kinds :
        /\ loads' = loads => cache'[pl][k] >= cache[pl][k]
        /\ \A new \in durable'[pl][k] : \E old \in durable[pl][k] : new >= old
<1>1. IInv /\ [Next]_vars => [Newer]_vars
  <2> SUFFICES ASSUME IInv, Next PROVE Newer
    OBVIOUS
  <2>0. \A pl \in Playlists, k \in Kinds :
          /\ cache[pl][k] \in Nat /\ cache[pl][k] \in durable[pl][k] /\ cache[pl][k] <= slot
          /\ \A j \in durable[pl][k] : j \in Nat
    BY WarmupAssumption DEF IInv, TypeOK, CacheSound
  <2>1. CASE UNCHANGED rows
    BY <2>0, <2>1 DEF rows
  <2>2. ASSUME NEW c \in Callers, NEW k \in Kinds, Read(c, k) PROVE Newer
    <3>1. Grows
      BY <2>2, ReadGrows
    <3>2. ASSUME NEW pl \in Playlists, NEW i \in Kinds, NEW new \in durable'[pl][i]
          PROVE  \E old \in durable[pl][i] : new >= old
      <4>1. CASE UNCHANGED durable
        BY <2>0, <3>2, <4>1
      <4>2. CASE ~UNCHANGED durable
        <5>1. durable' = [durable EXCEPT ![obj[c].pl][k] = @ \cup {slot}]
          BY <2>2, <4>2 DEF Read, Readable
        <5>2. new \in durable[pl][i] \/ new = slot
          BY <3>2, <5>1, Typed DEF IInv, TypeOK
        <5>3. slot \in Nat
          BY Typed DEF IInv
        <5> QED
          BY <2>0, <5>2, <5>3
      <4> QED
        BY <4>1, <4>2
    <3> QED
      BY <3>1, <3>2 DEF Grows
  <2>3. ASSUME NEW k \in Kinds, Downloads(k) PROVE UNCHANGED rows
    BY <2>3 DEF Downloads, KindLeaves, KindEnds
  <2>4. ASSUME NEW c \in Callers, NEW k \in Kinds, Ack(c, k) PROVE UNCHANGED rows
    BY <2>4 DEF Ack
  <2>5. ASSUME NEW c \in Callers, NEW pl \in Playlists, Begins(c, pl) PROVE UNCHANGED rows
    BY <2>5 DEF Begins, Warm, Refresh, AwaitTracked, AwaitRunning
  <2>6. ASSUME NEW c \in Callers, Attach(c) \/ Resume(c) PROVE UNCHANGED rows
    BY <2>6 DEF Attach, AttachBeside, Resume
  <2>7. ASSUME JobEnds \/ PollAnswered \/ PollFails PROVE UNCHANGED rows
    BY <2>7 DEF JobEnds, PollAnswered, PollFails
  <2>8. ASSUME NEW pl \in Playlists, NEW k \in Kinds, Lands(pl, k) PROVE Newer
    <3>1. cache' = cache /\ durable' = [durable EXCEPT ![pl][k] = {cache[pl][k]}]
      BY <2>8 DEF Lands
    <3>2. ASSUME NEW p \in Playlists, NEW i \in Kinds
          PROVE  durable'[p][i] = durable[p][i] \/ durable'[p][i] = {cache[p][i]}
      BY <3>1 DEF IInv, TypeOK
    <3> QED
      BY <2>0, <3>1, <3>2
  <2>9. CASE Load
    <3>1. loads \in Nat /\ loads' = loads + 1
      BY <2>9, WarmupAssumption, Typed DEF Load, IInv
    <3>2. ASSUME NEW pl \in Playlists, NEW k \in Kinds, NEW new \in durable'[pl][k]
          PROVE  new \in durable[pl][k]
      BY <2>9, <3>2 DEF Load
    <3> QED
      BY <2>0, <3>1, <3>2
  <2> QED
    BY <2>1, <2>2, <2>3, <2>4, <2>5, <2>6, <2>7, <2>8, <2>9 DEF Next, Ingests
<1> HIDE DEF Newer
<1>2. Spec => [][Newer]_vars
  BY <1>1, Invariance, PTL DEF Spec
<1> QED
  BY <1>2 DEF NewestStays, Newer
=============================================================================

------------------------------- MODULE Warmup -------------------------------
(***************************************************************************)
(* The native catalog warm-up: the one job slot of src-tauri/src/warmup.rs *)
(* and its consumer, scripts/lib/warmup-native.ts.                         *)
(*                                                                         *)
(* A job downloads the kinds of one playlist's catalog into staged files.  *)
(* A page starts it or finds it running, tracks it with an object          *)
(* (listeners and a poll), reads each staged file into the cache and       *)
(* acknowledges it, which deletes the file.  Starting a job cancels the    *)
(* one in the slot; the object that tracked that one is superseded, which  *)
(* settles its trackers.  A navigation takes the page's objects away, and  *)
(* the rows IndexedDB does not hold yet, and leaves the job.               *)
(*                                                                         *)
(* Jobs are numbered in the order they are started.  A job that has left   *)
(* the slot cannot be seen any more: status, read and acknowledgement are  *)
(* about the job in the slot, and a cancelled job announces nothing.  An   *)
(* answer of a command is handled before the next download ends, so what   *)
(* the command does and what its answer does are one step.                 *)
(***************************************************************************)
EXTENDS Naturals

CONSTANTS
  Callers,       \* calls that can wait on the catalog at one time on a page
  Kinds,         \* live, vod and series
  Playlists,
  MaxJobs,       \* bound: jobs started
  MaxLoads,      \* bound: navigations
  MaxFailures,   \* MAX_POLL_FAILURES
  None

ASSUME WarmupAssumption ==
  /\ Playlists # {} /\ None \notin Callers
  /\ MaxJobs \in Nat /\ MaxLoads \in Nat /\ MaxFailures \in Nat \ {0}

VARIABLES
  slot,      \* the number of the job in WarmupState.job, 0 for None
  job,       \* that job: its playlist, its state, cancelled, its kinds
  cache,     \* per playlist and kind: the job whose rows the page finds, 0 for none
  durable,   \* the jobs whose rows IndexedDB may hold: more than one amid a write
  call,      \* warmupActiveNative, awaitNativeKind and retryKindNative calls
  obj,       \* per call: the tracked job it created, with a tracker per kind
  active,    \* activeJob: the call that created it, or None; it alone listens
  fails,     \* its pollFailureCount
  loads,
  lost,      \* history: acknowledged kinds whose rows a navigation took, with their jobs
  overtaken  \* history: the objects set up when a newer job's had been

rust == <<slot, job>>
rows == <<cache, durable, lost>>
vars == <<slot, job, cache, durable, lost, call, obj, active, fails, overtaken, loads>>

KindStates == {"none", "downloading", "left", "done", "error", "ingested"}

(* A tracker waits, is reading a staged file or has stored its rows; it is *)
(* settled with rows or an error, or while what it began still goes on.    *)
Settled == {"rows", "error", "lateReading", "lateStored"}
Trackers == {"none", "waiting", "reading", "stored"} \cup Settled

NoKinds == [k \in Kinds |-> "none"]
AnyPlaylist == CHOOSE pl \in Playlists : TRUE
NoCall == [pc |-> "idle", pl |-> AnyPlaylist, want |-> {}, job |-> 0, joined |-> FALSE,
           snap |-> NoKinds, on |-> None]
NoObject == [job |-> 0, pl |-> AnyPlaylist, trk |-> NoKinds]

-----------------------------------------------------------------------------
(* The job in the slot (warmup.rs) *)

Running == slot # 0 /\ job.state = "running"

(* run_kind: all the steps of one mirror succeeded, or none of any did; a job *)
(* that was cancelled leaves its kinds as they are.  The event reaches the    *)
(* object that listens or is lost.                                            *)
KindLeaves(k) ==
  /\ job.kind[k] = "downloading" /\ job.cancelled
  /\ job' = [job EXCEPT !.kind[k] = "left"]
  /\ UNCHANGED <<slot, rows, call, obj, active, fails, overtaken, loads>>

(* run_job, when every kind has come to its end. *)
JobEnds ==
  /\ Running
  /\ \A k \in Kinds : job.kind[k] # "downloading"
  /\ job' = [job EXCEPT !.state = IF job.cancelled THEN "cancelled" ELSE "done"]
  /\ UNCHANGED <<slot, rows, call, obj, active, fails, overtaken, loads>>

(* staged_path: a file of the job in the slot, which it has while it is not *)
(* acknowledged and its directory not removed with a cancelled job.         *)
ReadableOfAnyJob(j, k) == j < slot \/ job.kind[k] = "done"
Readable(j, k) == j = slot /\ job.kind[k] = "done" /\ job.state # "cancelled"

-----------------------------------------------------------------------------
(* Tracked jobs (warmup-native.ts) *)

Over(trk) == \A k \in Kinds : trk[k] \in Settled \cup {"none"}

(* maybeFinishJob, after the trackers of o have become trk. *)
Tracked(o, trk) ==
  /\ obj' = [obj EXCEPT ![o].trk = trk]
  /\ active' = IF Over(trk) /\ active = o THEN None ELSE active

(* ensureTrackersForKinds *)
WithTrackers(trk, ks) ==
  [k \in Kinds |-> IF k \in ks /\ trk[k] = "none" THEN "waiting" ELSE trk[k]]

(* reconcileFromStatus, and the two events: what a state makes of a tracker. *)
Told(t, state) ==
  CASE state = "ingested" /\ t = "waiting" -> "rows"
    [] state = "ingested" /\ t = "reading" -> "lateReading"
    [] state = "ingested" /\ t = "stored" -> "lateStored"
    [] state = "done" /\ t = "waiting" -> "reading"
    [] state = "error" /\ t = "waiting" -> "error"
    [] OTHER -> t
Reconciled(trk, kinds) == [k \in Kinds |-> Told(trk[k], kinds[k])]

(* forceSettleJob: what is being ingested goes on, for nobody. *)
Forced(t) ==
  CASE t = "waiting" -> "error"
    [] t = "reading" -> "lateReading"
    [] t = "stored" -> "lateStored"
    [] OTHER -> t
Ended(o) == [obj EXCEPT ![o].trk = [k \in Kinds |-> Forced(@[k])]]

KindEnds(k, state) ==
  /\ job.kind[k] = "downloading" /\ ~job.cancelled
  /\ job' = [job EXCEPT !.kind[k] = state]
  /\ \/ UNCHANGED <<obj, active>>
     \/ /\ active # None /\ obj[active].job = slot
        /\ Tracked(active, [obj[active].trk EXCEPT ![k] = Told(@, state)])
  /\ UNCHANGED <<slot, rows, call, fails, overtaken, loads>>

(* pollJobStatus, every 2.5 s: the status of another job says nothing, the *)
(* third failure in a row gives the job up.                                *)
PollAnswered ==
  /\ active # None
  /\ fails' = 0
  /\ IF obj[active].job = slot
     THEN Tracked(active, Reconciled(obj[active].trk, job.kind))
     ELSE UNCHANGED <<obj, active>>
  /\ UNCHANGED <<rust, rows, call, overtaken, loads>>
PollFailsForever ==
  /\ active # None
  /\ fails' = fails + 1
  /\ UNCHANGED <<rust, rows, call, obj, active, overtaken, loads>>
PollFails ==
  /\ active # None
  /\ IF fails + 1 < MaxFailures
     THEN fails' = fails + 1 /\ UNCHANGED <<obj, active>>
     ELSE fails' = 0 /\ obj' = Ended(active) /\ active' = None
  /\ UNCHANGED <<rust, rows, call, overtaken, loads>>

(* ingestKind: the file is read and its rows go into the cache.  Nobody      *)
(* waits for setCached's write to IndexedDB.                                *)
Read(o, k) ==
  /\ obj[o].trk[k] \in {"reading", "lateReading"}
  /\ IF Readable(obj[o].job, k)
     THEN /\ cache' = [cache EXCEPT ![obj[o].pl][k] = obj[o].job]
          /\ durable' = [durable EXCEPT ![obj[o].pl][k] = @ \cup {obj[o].job}]
          /\ obj' = [obj EXCEPT ![o].trk[k] = IF @ = "reading" THEN "stored" ELSE "lateStored"]
          /\ UNCHANGED active
     ELSE /\ Tracked(o, [obj[o].trk EXCEPT ![k] = "error"])
          /\ UNCHANGED <<cache, durable>>
  /\ UNCHANGED <<rust, lost, call, fails, overtaken, loads>>

(* warmup_ack: of the job in the slot it deletes the file; of another it *)
(* fails, and the kind with it although its rows are stored.             *)
AcksAnyJob(j) == TRUE
Acks(j) == j = slot
Ack(o, k) ==
  /\ obj[o].trk[k] \in {"stored", "lateStored"}
  /\ LET ok == Acks(obj[o].job)
     IN  /\ job' = IF ok THEN [job EXCEPT !.kind[k] = "ingested"] ELSE job
         /\ Tracked(o, [obj[o].trk EXCEPT ![k] = IF ok /\ @ = "stored" THEN "rows" ELSE "error"])
  /\ UNCHANGED <<slot, rows, call, fails, overtaken, loads>>

-----------------------------------------------------------------------------
(* The three exported functions *)

(* A call may begin when nothing of an earlier one is left under its name. *)
Quiet(o) == active # o /\ \A k \in Kinds : obj[o].trk[k] \in {"none", "rows", "error"}
Free(c) ==
  /\ call[c].pc = "idle" /\ Quiet(c)
  /\ \A d \in Callers : call[d].on # c

Waits(c, o, ks) ==
  call' = [call EXCEPT ![c] = [NoCall EXCEPT !.pc = "waiting", !.want = ks, !.on = o]]

(* The call c is told of job j, which has these kinds: it merges its trackers *)
(* into the object of this job, or sets one up, which takes several awaits.   *)
Tracks(c, pl, ks, j, joined, kinds) ==
  LET want == {k \in ks : kinds[k] # "none"}
  IN  IF active # None /\ obj[active].job = j
      THEN /\ Tracked(active, Reconciled(WithTrackers(obj[active].trk, want), kinds))
           /\ Waits(c, active, want)
      ELSE /\ call' = [call EXCEPT ![c] = [pc |-> "attaching", pl |-> pl, want |-> want, job |-> j,
                                           joined |-> joined, snap |-> kinds, on |-> None]]
           /\ UNCHANGED <<obj, active>>

(* decide_start_action *)
Joins(pl, force) == Running /\ job.pl = pl /\ ~force

NewJob(pl, ks) ==
  [pl |-> pl, state |-> "running", cancelled |-> FALSE,
   kind |-> [k \in Kinds |-> IF k \in ks THEN "downloading" ELSE "none"]]

(* warmup_start, under the lock of the slot: it joins, it replaces, or it has *)
(* cancelled the job in the slot when the staging directory cannot be made.   *)
Start(c, pl, ks, force) ==
  \/ /\ Joins(pl, force)
     /\ Tracks(c, pl, ks, slot, TRUE, job.kind)
     /\ UNCHANGED rust
  \/ /\ ~Joins(pl, force) /\ slot < MaxJobs
     /\ slot' = slot + 1
     /\ job' = NewJob(pl, ks)
     /\ Tracks(c, pl, ks, slot', FALSE, job'.kind)
  \/ /\ ~Joins(pl, force) /\ slot # 0
     /\ job' = [job EXCEPT !.cancelled = TRUE]
     /\ UNCHANGED <<slot, call, obj, active>>

(* warmupActiveNative fetches what is not cached; with everything cached it *)
(* joins a running job that has something to give.                          *)
Missing(pl) == {k \in Kinds : cache[pl][k] = 0}
Adoptable(pl) ==
  {k \in Kinds : Running /\ job.pl = pl /\ job.kind[k] \notin {"none", "ingested"}}
Warm(c, pl) ==
  /\ Free(c)
  /\ LET ks == IF Missing(pl) # {} THEN Missing(pl) ELSE Adoptable(pl)
     IN  ks # {} /\ Start(c, pl, ks, FALSE)
  /\ UNCHANGED <<rows, fails, overtaken, loads>>

(* A refresh of everything, or retryKindNative of one kind. *)
Refresh(c, pl, ks) ==
  /\ Free(c)
  /\ Start(c, pl, ks, TRUE)
  /\ UNCHANGED <<rows, fails, overtaken, loads>>

(* awaitNativeKind: waits on the tracker there is, or asks for the status and *)
(* tracks the job it finds; without either it returns.                        *)
HasTracker(pl, k) == active # None /\ obj[active].pl = pl /\ obj[active].trk[k] # "none"
AwaitTracked(c, pl, k) ==
  /\ Free(c)
  /\ HasTracker(pl, k)
  /\ Waits(c, active, {k})
  /\ UNCHANGED <<rust, rows, obj, active, fails, overtaken, loads>>
AwaitRunning(c, pl, k) ==
  /\ Free(c)
  /\ ~HasTracker(pl, k) /\ k \in Adoptable(pl)
  /\ Tracks(c, pl, {k}, slot, TRUE, job.kind)
  /\ UNCHANGED <<rust, rows, fails, overtaken, loads>>

(* Some awaits after its call, the object is there.  The job it is for may   *)
(* have left the slot, and the call that has replaced it been faster.        *)
Overtaken(c) ==
  call[c].job # slot /\ \A d \in Callers : call[d].pc = "attaching" => call[d].job # slot

(* setActiveJob supersedes whatever the page tracks by then. *)
AttachBeside(c, others) ==
  /\ call[c].pc = "attaching"
  /\ LET new == WithTrackers(NoKinds, call[c].want)
         trk == IF call[c].joined THEN Reconciled(new, call[c].snap) ELSE new
     IN  /\ obj' = [others EXCEPT ![c] = [job |-> call[c].job, pl |-> call[c].pl, trk |-> trk]]
         /\ active' = IF call[c].joined /\ Over(trk) THEN None ELSE c
  /\ Waits(c, c, call[c].want)
  /\ fails' = 0
  /\ overtaken' = IF Overtaken(c) THEN overtaken \cup {c} ELSE overtaken \ {c}
  /\ UNCHANGED <<rust, rows, loads>>
AttachQuietly(c) == AttachBeside(c, obj)
Attach(c) == AttachBeside(c, IF active = None THEN obj ELSE Ended(active))

(* The trackers a call waits for have settled.  An object that is over and *)
(* that nobody waits for is gone.                                          *)
Resume(c) ==
  LET o == call[c].on
  IN  /\ call[c].pc = "waiting"
      /\ \A k \in call[c].want : obj[o].trk[k] \in Settled
      /\ call' = [call EXCEPT ![c] = NoCall]
      /\ obj' = IF Quiet(o) /\ \A d \in Callers \ {c} : call[d].on # o
                THEN [obj EXCEPT ![o] = NoObject] ELSE obj
      /\ UNCHANGED <<rust, rows, active, fails, overtaken, loads>>

(* The writes to IndexedDB land, in their order. *)
Lands(pl, k) ==
  /\ durable[pl][k] # {cache[pl][k]}
  /\ durable' = [durable EXCEPT ![pl][k] = {cache[pl][k]}]
  /\ UNCHANGED <<rust, cache, lost, call, obj, active, fails, overtaken, loads>>

(* A navigation: the page's module state is gone, with the writes that have  *)
(* not landed.  The job stays, and the next page hydrates what IndexedDB has. *)
Load ==
  /\ loads < MaxLoads
  /\ loads' = loads + 1
  /\ \E left \in [Playlists -> [Kinds -> 0..MaxJobs]] :
       /\ \A pl \in Playlists, k \in Kinds : left[pl][k] \in durable[pl][k]
       /\ cache' = left
       /\ durable' = [pl \in Playlists |-> [k \in Kinds |-> {left[pl][k]}]]
       /\ lost' = lost \cup {<<slot, k>> : k \in {i \in Kinds : /\ job.kind[i] = "ingested"
                                                         /\ left[job.pl][i] < slot}}
  /\ call' = [c \in Callers |-> NoCall] /\ obj' = [c \in Callers |-> NoObject]
  /\ active' = None /\ fails' = 0 /\ overtaken' = {}
  /\ UNCHANGED rust

-----------------------------------------------------------------------------
Init ==
  /\ slot = 0
  /\ job = [pl |-> AnyPlaylist, state |-> "done", cancelled |-> FALSE, kind |-> NoKinds]
  /\ cache = [pl \in Playlists |-> [k \in Kinds |-> 0]]
  /\ durable = [pl \in Playlists |-> [k \in Kinds |-> {0}]]
  /\ call = [c \in Callers |-> NoCall] /\ obj = [c \in Callers |-> NoObject]
  /\ active = None /\ fails = 0 /\ loads = 0 /\ lost = {} /\ overtaken = {}

Downloads(k) == KindLeaves(k) \/ KindEnds(k, "done") \/ KindEnds(k, "error")
Ingests(o, k) == Read(o, k) \/ Ack(o, k)
Begins(c, pl) == \/ Warm(c, pl) \/ Refresh(c, pl, Kinds)
                 \/ \E k \in Kinds : \/ Refresh(c, pl, {k})
                                     \/ AwaitTracked(c, pl, k) \/ AwaitRunning(c, pl, k)
Next ==
  \/ JobEnds \/ \E k \in Kinds : Downloads(k)
  \/ PollAnswered \/ PollFails
  \/ \E c \in Callers : \/ \E pl \in Playlists : Begins(c, pl)
                        \/ \E k \in Kinds : Ingests(c, k)
                        \/ Attach(c) \/ Resume(c)
  \/ Load \/ \E pl \in Playlists, k \in Kinds : Lands(pl, k)

(* Downloads end or time out, polls and commands are answered, and what they *)
(* resume runs.  No event is owed to anybody, and no write ever need land.   *)
Fairness ==
  /\ WF_vars(PollAnswered)
  /\ \A k \in Kinds : WF_vars(Downloads(k))
  /\ \A c \in Callers : /\ WF_vars(Attach(c)) /\ WF_vars(Resume(c))
                        /\ \A k \in Kinds : WF_vars(Ingests(c, k))

Spec == Init /\ [][Next]_vars /\ Fairness

-----------------------------------------------------------------------------
(* Properties *)

\* Types of the slot, its job, the cache, what is on disk of it and the page's
\* calls and trackers.
TypeOK ==
  /\ slot \in 0..MaxJobs
  /\ job \in [pl : Playlists, state : {"running", "done", "cancelled"},
              cancelled : BOOLEAN, kind : [Kinds -> KindStates]]
  /\ cache \in [Playlists -> [Kinds -> 0..MaxJobs]]
  /\ durable \in [Playlists -> [Kinds -> SUBSET (0..MaxJobs)]]
  /\ lost \subseteq (0..MaxJobs) \X Kinds
  /\ call \in [Callers -> [pc : {"idle", "attaching", "waiting"}, pl : Playlists,
                           want : SUBSET Kinds, job : 0..MaxJobs, joined : BOOLEAN,
                           snap : [Kinds -> KindStates], on : Callers \cup {None}]]
  /\ obj \in [Callers -> [job : 0..MaxJobs, pl : Playlists, trk : [Kinds -> Trackers]]]
  /\ active \in Callers \cup {None}
  /\ fails \in 0..(MaxFailures - 1)
  /\ overtaken \subseteq Callers
  /\ loads \in 0..MaxLoads

\* Who is told that a kind is done finds its rows: those of the job it waited
\* for, or newer ones, are in the cache, whoever read and acknowledged them.  The
\* exception: rows that were acknowledged before IndexedDB had them, and that a
\* navigation took.
Found(pl, k, j) == cache[pl][k] >= j \/ <<j, k>> \in lost
RowsAreCached ==
  \A o \in Callers, k \in Kinds :
    obj[o].trk[k] = "rows" => Found(obj[o].pl, k, obj[o].job)

\* A catalog is never replaced by that of an older job, on the page or on disk,
\* although the readers of a superseded job are not stopped.  What a navigation
\* leaves of the page's rows is what the disk has of them.
NewestStays ==
  [][\A pl \in Playlists, k \in Kinds :
       /\ loads' = loads => cache'[pl][k] >= cache[pl][k]
       /\ \A new \in durable'[pl][k] : \E old \in durable[pl][k] : new >= old]_vars

\* "pages don't hang forever" (warmup-native.ts:488): whatever is lost, replaced,
\* superseded or fails, a call that waits is resumed.  The exceptions: a job that
\* was cancelled for one whose staging directory could not be made, and whoever
\* waits on an object that came after that of a newer job and took its place,
\* since polls of the newer job tell it nothing.
Wrecked == job.cancelled
EveryCallResumes ==
  \A c \in Callers :
    call[c].pc # "idle" ~> call[c].pc = "idle" \/ Wrecked \/ call[c].on \in overtaken

=============================================================================

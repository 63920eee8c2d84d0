------------------------------ MODULE Downloads ------------------------------
(***************************************************************************)
(* The offline download queue of the player (src/src/scripts/lib/          *)
(* downloads.js): a list of items persisted in localStorage, a FIFO of ids *)
(* waiting for a slot, one asynchronous runDownload per active id with its *)
(* AbortController, the file-lock retry timer, the resume of interrupted   *)
(* downloads 1.5 s after a page load, and the two background jobs that     *)
(* rewrite the persisted list (pruneMissingDownloads, scanDownloadsFolder).*)
(*                                                                         *)
(* An action is the code between two awaits, so actions interleave exactly *)
(* where the JavaScript event loop lets other code run.  Byte counts are   *)
(* left out; here a run either completes or fails.                         *)
(***************************************************************************)
EXTENDS Integers, Sequences, FiniteSets

CONSTANTS
  Ids,          \* the pool of download ids (uuids)
  MaxSlots,     \* largest value of maxConcurrent()
  MaxTimers,    \* bound: lock-retry timers pending for one id
  MaxReloads,   \* bound: page loads and crashes in one behaviour
  MaxJobs,      \* bound: background jobs in flight at once (the code has two)
  Android,      \* BOOLEAN: SAF destinations (runDownloadAndroid) or desktop
  StatCanFail,  \* BOOLEAN: fs.stat of the partial file may throw
  CanStall,     \* BOOLEAN: a connection may be silent for 30 s
  Losable,      \* ids whose finished file something outside the app may delete
  Library       \* ids with a sidecar in the download folder before the first start

ASSUME DownloadsAssumption ==
  /\ IsFiniteSet(Ids)
  /\ MaxSlots \in Nat \ {0}
  /\ MaxTimers \in Nat
  /\ MaxReloads \in Nat
  /\ MaxJobs \in 1..2
  /\ Android \in BOOLEAN
  /\ StatCanFail \in BOOLEAN
  /\ CanStall \in BOOLEAN
  /\ Losable \subseteq Ids
  /\ Library \subseteq Ids

VARIABLES
  entry,    \* the persisted list: [Ids -> status and userPaused flag]
  queue,    \* queuedIds, waiting for a slot
  run,      \* where each id's runDownload is suspended
  reason,   \* abort reason of each id's controller
  retries,  \* lockRetryCount
  timers,   \* pending setTimeout(resumeDownload, 2500) per id
  boot,     \* toResume of the page load, until its 1500 ms timer fires
  removing, \* ids whose removeDownload awaits the file system
  slots,    \* maxConcurrent(): the user's setting and the provider's cap
  lost,     \* media files that are no longer on disk
  sidecars, \* ids whose sidecar is in the folder (followed for Library only)
  prune,    \* pruneMissingDownloads in flight: the list it read, checks left
  scan,     \* scanDownloadsFolder in flight: the list it read
  reloads,  \* page loads so far (bounded)
  held,     \* history: ids the user paused that nothing has resumed since
  undone,   \* history: ids whose entry a background job has overwritten since the
            \* page was loaded
  hasty     \* history: ids a scan has called done while they ran or waited

ui   == <<slots, lost, sidecars, reloads>>
jobs == <<prune, scan, undone, hasty>>
vars == <<entry, queue, run, reason, retries, timers, boot, removing,
          jobs, held, ui>>

------------------------------------------------------------------------------
(* The persisted list.  An absent item is a record too, so that the list is *)
(* a function on Ids and a snapshot of it is one value.                     *)

Listed  == {"queued", "downloading", "paused", "stalled", "error", "done"}
Steps   == {"none", "stat", "fetch", "body", "verify", "leaked",
            "cleanPaused", "cleanStalled", "cleanError"}
Absent  == [status |-> "absent", userPaused |-> FALSE]
Entries == [status : Listed \cup {"absent"}, userPaused : BOOLEAN]
Lists   == [Ids -> Entries]
Idle    == [on |-> FALSE, list |-> [i \in Ids |-> Absent],
            todo |-> {}, missing |-> {}]
NoScan  == [on |-> FALSE, list |-> [i \in Ids |-> Absent]]

IsListed(list, id) == list[id].status \in Listed
Active == {id \in Ids : run[id] # "none"}
InQueue == {queue[i] : i \in 1..Len(queue)}

\* updateItem: a patch to an item that is no longer listed is dropped.
SetStatus(list, id, st) ==
  IF IsListed(list, id) THEN [list EXCEPT ![id].status = st] ELSE list
SetPaused(list, id, flag) ==
  IF IsListed(list, id) THEN [list EXCEPT ![id].userPaused = flag] ELSE list

------------------------------------------------------------------------------
(* Starting runs.  runDownload marks the id active and goes on to its first *)
(* await: on desktop the size of the partial file, before the status is     *)
(* touched; on Android the fetch, after the status became "downloading".    *)

FirstStep == IF Android THEN "fetch" ELSE "stat"

Launched(list, go) ==
  IF Android
  THEN [i \in Ids |-> IF i \in go THEN [list[i] EXCEPT !.status = "downloading"]
                      ELSE list[i]]
  ELSE list

\* The loop of tryRunNext takes the first k ids of the queue: it stops when
\* the slots are full or the queue is empty; ids that are no longer "queued"
\* are dropped on the way.
Startable(list, k) == {id \in {queue[i] : i \in 1..k} : list[id].status = "queued"}
FullOneLate(act, list, k) == Cardinality(act \cup Startable(list, k)) > slots
FullAfter(act, list, k) == Cardinality(act \cup Startable(list, k)) >= slots
DrainsTo(act, list, k) ==
  /\ k = Len(queue) \/ FullAfter(act, list, k)
  /\ \A j \in 0..(k - 1) : ~FullAfter(act, list, j)

\* tryRunNext, called with the list and the set of active ids as they are then
\* (stopped: the ids whose run has just ended).
TryRunNext(list, stopped) ==
  \E k \in 0..Len(queue) :
    /\ DrainsTo(Active \ stopped, list, k)
    /\ LET go == Startable(list, k)
       IN  /\ queue' = SubSeq(queue, k + 1, Len(queue))
           /\ entry' = Launched(list, go)
           /\ run' = [i \in Ids |-> IF i \in go THEN FirstStep
                                    ELSE IF i \in stopped THEN "none" ELSE run[i]]
           /\ reason' = [i \in Ids |-> IF i \in go \cup stopped THEN "none"
                                       ELSE reason[i]]

------------------------------------------------------------------------------
Init ==
  /\ entry = [i \in Ids |-> Absent]
  /\ queue = <<>>
  /\ run = [i \in Ids |-> "none"]
  /\ reason = [i \in Ids |-> "none"]
  /\ retries = [i \in Ids |-> 0]
  /\ timers = [i \in Ids |-> 0]
  /\ boot = {} /\ removing = {} /\ held = {} /\ undone = {} /\ hasty = {}
  /\ slots \in 1..MaxSlots
  /\ lost = {} /\ sidecars = Library
  /\ prune = Idle
  /\ scan = NoScan
  /\ reloads = 0

------------------------------------------------------------------------------
(* User commands                                                            *)

\* A new uuid: nothing in memory or in a snapshot refers to it.  An id stands for
\* a title's path as well, so that a title whose file or sidecar was left behind may
\* be downloaded again.
Fresh(id) ==
  /\ id \notin boot \cup removing \cup InQueue
  /\ ~IsListed(entry, id) /\ run[id] = "none" /\ timers[id] = 0
  /\ ~IsListed(prune.list, id) /\ ~IsListed(scan.list, id)

\* startDownload, after its last await: the item is listed and run or queued.
StartDownload(id) ==
  LET free == Cardinality(Active) < slots
      list == [entry EXCEPT ![id] = [status |-> IF free THEN "downloading" ELSE "queued",
                                     userPaused |-> FALSE]]
  IN  /\ Fresh(id)
      /\ entry' = list
      /\ IF free
         THEN /\ run' = [run EXCEPT ![id] = FirstStep]
              /\ queue' = queue
         ELSE /\ queue' = Append(queue, id)
              /\ run' = run
      /\ reason' = [reason EXCEPT ![id] = "none"]
      /\ retries' = [retries EXCEPT ![id] = 0]
      /\ lost' = lost \ {id}
      /\ held' = held \ {id} /\ undone' = undone \ {id} /\ hasty' = hasty \ {id}
      /\ UNCHANGED <<timers, boot, removing, prune, scan, sidecars, slots, reloads>>

\* resumeDownload: ignored for an id that is active, queued, gone or done.
ResumableThoughQueued(id) ==
  id \notin Active /\ IsListed(entry, id) /\ entry[id].status # "done"
ResumableThoughActive(id) == IsListed(entry, id) /\ entry[id].status # "done"
ResumableThoughDone(id) == id \notin Active \cup InQueue /\ IsListed(entry, id)
Resumable(id) ==
  /\ id \notin Active \cup InQueue
  /\ IsListed(entry, id) /\ entry[id].status # "done"

Resume(id) ==
  LET list == SetPaused(entry, id, FALSE)
  IN  IF ~Resumable(id) THEN UNCHANGED <<entry, queue, run, reason>>
      ELSE IF Cardinality(Active) < slots
      THEN /\ entry' = Launched(list, {id})
           /\ run' = [run EXCEPT ![id] = FirstStep]
           /\ reason' = [reason EXCEPT ![id] = "none"]
           /\ queue' = queue
      ELSE /\ entry' = SetStatus(list, id, "queued")
           /\ queue' = Append(queue, id)
           /\ UNCHANGED <<run, reason>>

UserResume(id) ==
  /\ Resumable(id)
  /\ Resume(id)
  /\ held' = held \ {id}
  /\ UNCHANGED <<retries, timers, boot, removing, jobs, ui>>

\* An abort gives its reason to a running controller once; later ones do not
\* change it.
AbortReason(id) == IF id \in Active /\ reason[id] = "none" THEN "paused" ELSE reason[id]

\* queuedIds.splice(queuedIds.indexOf(id), 1)
DropFromQueue(id) ==
  \/ /\ id \notin InQueue
     /\ queue' = queue
  \/ \E i \in 1..Len(queue) :
       /\ queue[i] = id
       /\ \A j \in 1..(i - 1) : queue[j] # id
       /\ queue' = SubSeq(queue, 1, i - 1) \o SubSeq(queue, i + 1, Len(queue))

\* pauseDownload of an active id: the list says paused at once, the run ends
\* when the abort reaches it.
PauseActive(id) ==
  /\ id \in Active
  /\ entry' = SetPaused(SetStatus(entry, id, "paused"), id, TRUE)
  /\ reason' = [reason EXCEPT ![id] = AbortReason(id)]
  /\ held' = IF IsListed(entry, id) THEN held \cup {id} ELSE held
  /\ UNCHANGED <<queue, run, retries, timers, boot, removing, jobs, ui>>

\* pauseDownload of a waiting id.
PauseQueued(id) ==
  /\ id \notin Active /\ id \in InQueue
  /\ DropFromQueue(id)
  /\ entry' = SetPaused(SetStatus(entry, id, "paused"), id, TRUE)
  /\ held' = IF IsListed(entry, id) THEN held \cup {id} ELSE held
  /\ UNCHANGED <<run, reason, retries, timers, boot, removing, jobs, ui>>

\* removeDownload up to its first await on the file system.
RemoveDownloadWithoutAbort(id) ==
  /\ IsListed(entry, id)
  /\ DropFromQueue(id)
  /\ entry' = [entry EXCEPT ![id] = Absent]
  /\ removing' = removing \cup {id}
  /\ held' = held \ {id} /\ undone' = undone \ {id} /\ hasty' = hasty \ {id}
  /\ UNCHANGED <<reason, run, retries, timers, boot, prune, scan, ui>>
RemoveDownload(id) ==
  /\ IsListed(entry, id)
  /\ reason' = [reason EXCEPT ![id] = AbortReason(id)]
  /\ DropFromQueue(id)
  /\ entry' = [entry EXCEPT ![id] = Absent]
  /\ removing' = removing \cup {id}
  /\ held' = held \ {id} /\ undone' = undone \ {id} /\ hasty' = hasty \ {id}
  /\ UNCHANGED <<run, retries, timers, boot, prune, scan, ui>>

\* Its last step: the file and its sidecar are gone, unless deleting them failed;
\* on Android a failing removeFile rejects before tryRunNext.
RemoveFinish(id) ==
  /\ id \in removing
  /\ removing' = removing \ {id}
  /\ \/ /\ TryRunNext(entry, {})
        /\ \/ sidecars' = sidecars \ {id} /\ lost' = lost
           \/ sidecars' = sidecars /\ lost' \in {lost, lost \cup ({id} \cap Library)}
     \/ /\ Android
        /\ UNCHANGED <<entry, queue, run, reason, lost, sidecars>>
  /\ UNCHANGED <<retries, timers, boot, held, jobs, slots, reloads>>

\* The concurrency setting, or the provider's connection cap, changes.
SetSlots(n) ==
  /\ n # slots
  /\ slots' = n
  /\ UNCHANGED <<entry, queue, run, reason, retries, timers, boot, removing,
                 held, jobs, lost, sidecars, reloads>>

------------------------------------------------------------------------------
(* One run, await by await                                                  *)

\* The run of id ends: the status is written, the id leaves activeAborts and
\* the queue is drained, all in one turn of the event loop.
EndRunWithoutNext(id, list) ==
  /\ entry' = list
  /\ run' = [run EXCEPT ![id] = "none"]
  /\ reason' = [reason EXCEPT ![id] = "none"]
  /\ UNCHANGED <<queue, boot, removing, held, jobs, slots, lost, reloads>>
EndRun(id, list) ==
  /\ TryRunNext(list, {id})
  /\ UNCHANGED <<boot, removing, held, jobs, slots, lost, reloads>>

Advance(id, from, to) ==
  /\ run[id] = from
  /\ run' = [run EXCEPT ![id] = to]

\* Desktop: the size of the partial is known; the status becomes downloading,
\* whatever a pause wrote in the meantime.
StatOk(id) ==
  /\ Advance(id, "stat", "fetch")
  /\ entry' = SetStatus(entry, id, "downloading")
  /\ UNCHANGED <<queue, reason, retries, timers, boot, removing, held, jobs, ui>>

\* statSize runs before runDownload's try block: if it throws, nothing removes
\* the id from activeAborts.
StatThrows(id) ==
  /\ StatCanFail
  /\ Advance(id, "stat", "leaked")
  /\ UNCHANGED <<entry, queue, reason, retries, timers, boot, removing, held, jobs, ui>>

ResponseOk(id) ==
  /\ Advance(id, "fetch", "body")
  /\ UNCHANGED <<entry, queue, reason, retries, timers, boot, removing, held, jobs, ui>>

\* 416 on a range request: the file is taken to be complete (desktop).
RangeNotSatisfiable(id) ==
  /\ ~Android /\ run[id] = "fetch"
  /\ EndRun(id, SetStatus(entry, id, "done"))
  /\ UNCHANGED <<retries, timers, sidecars>>

\* End of the body; the size check (desktop) or publishFile (Android) follows.
BodyEnds(id) ==
  /\ Advance(id, "body", "verify")
  /\ UNCHANGED <<entry, queue, reason, retries, timers, boot, removing, held, jobs, ui>>

\* The sidecar of a listed item is written, if that succeeds.
Complete(id) ==
  /\ run[id] = "verify"
  /\ EndRun(id, SetStatus(entry, id, "done"))
  /\ sidecars' \in {sidecars, IF IsListed(entry, id) THEN sidecars \cup ({id} \cap Library)
                              ELSE sidecars}
  /\ retries' = IF Android THEN retries ELSE [retries EXCEPT ![id] = 0]
  /\ UNCHANGED timers

\* The watchdog: 30 s without data.
Stall(id) ==
  /\ CanStall
  /\ run[id] \in {"fetch", "body", "verify"}
  /\ reason[id] = "none"
  /\ reason' = [reason EXCEPT ![id] = "stalled"]
  /\ UNCHANGED <<entry, queue, run, retries, timers, boot, removing, held, jobs, ui>>

\* The catch block on desktop.  The abort reason decides before the error does.
EndStalled(id) ==
  /\ reason[id] = "stalled"
  /\ EndRun(id, SetStatus(entry, id, "stalled"))
  /\ UNCHANGED <<retries, timers>>

EndPaused(id) ==
  /\ reason[id] = "paused"
  /\ EndRun(id, SetPaused(SetStatus(entry, id, "paused"), id, TRUE))
  /\ UNCHANGED <<retries, timers>>

\* A file-lock error within the retry budget: paused, and resumed in 2.5 s.
EndLockedThrice(id) ==
  /\ reason[id] = "none"
  /\ retries[id] <= 2
  /\ timers[id] < MaxTimers
  /\ retries' = [retries EXCEPT ![id] = @ + 1]
  /\ timers' = [timers EXCEPT ![id] = @ + 1]
  /\ EndRun(id, SetStatus(entry, id, "paused"))
EndLocked(id) ==
  /\ reason[id] = "none"
  /\ retries[id] < 2
  /\ timers[id] < MaxTimers
  /\ retries' = [retries EXCEPT ![id] = @ + 1]
  /\ timers' = [timers EXCEPT ![id] = @ + 1]
  /\ EndRun(id, SetStatus(entry, id, "paused"))

EndError(id) ==
  /\ reason[id] = "none"
  /\ retries' = [retries EXCEPT ![id] = 0]
  /\ EndRun(id, SetStatus(entry, id, "error"))
  /\ UNCHANGED timers

\* A rejected await: the abort reached it, or the network or a write failed.
FailDesktop(id) ==
  /\ ~Android
  /\ run[id] \in {"fetch", "body", "verify"}
  /\ EndStalled(id) \/ EndPaused(id) \/ EndLocked(id) \/ EndError(id)
  /\ UNCHANGED sidecars

\* Android: the partial is removed (an await) before the status is written.
FailAndroidUnlessStalled(id) ==
  /\ Android /\ reason[id] # "stalled"
  /\ run[id] \in {"fetch", "body", "verify"}
  /\ run' = [run EXCEPT ![id] = IF reason[id] = "paused" THEN "cleanPaused"
                                ELSE "cleanError"]
  /\ UNCHANGED <<entry, queue, reason, retries, timers, boot, removing, held, jobs, ui>>
FailAndroid(id) ==
  /\ Android
  /\ run[id] \in {"fetch", "body", "verify"}
  /\ run' = [run EXCEPT ![id] = CASE reason[id] = "stalled" -> "cleanStalled"
                                  [] reason[id] = "paused"  -> "cleanPaused"
                                  [] OTHER                  -> "cleanError"]
  /\ UNCHANGED <<entry, queue, reason, retries, timers, boot, removing, held, jobs, ui>>

CleanedUp(id) ==
  /\ \/ /\ run[id] = "cleanStalled"
        /\ EndRun(id, SetStatus(entry, id, "stalled"))
     \/ /\ run[id] = "cleanPaused"
        /\ EndRun(id, SetPaused(SetStatus(entry, id, "paused"), id, TRUE))
     \/ /\ run[id] = "cleanError"
        /\ EndRun(id, SetStatus(entry, id, "error"))
  /\ UNCHANGED <<retries, timers, sidecars>>

RunStep(id) ==
  \/ StatOk(id) \/ StatThrows(id) \/ ResponseOk(id) \/ RangeNotSatisfiable(id)
  \/ BodyEnds(id) \/ Complete(id)
  \/ FailDesktop(id) \/ FailAndroid(id) \/ CleanedUp(id)

------------------------------------------------------------------------------
(* Timers, page loads, background jobs                                      *)

\* The retry timer of a locked file resumes unconditionally.
RetryFires(id) ==
  /\ timers[id] > 0
  /\ timers' = [timers EXCEPT ![id] = @ - 1]
  /\ Resume(id)
  /\ held' = IF Resumable(id) THEN held \ {id} ELSE held
  /\ UNCHANGED <<retries, boot, removing, jobs, ui>>

\* A page load (every navigation is one) or a restart after a crash: memory is
\* gone, the list is read back and the interrupted downloads are noted.
InterruptedNotQueued(list) ==
  {id \in Ids : \/ list[id].status = "downloading"
                \/ list[id].status = "paused" /\ ~list[id].userPaused}
InterruptedEvenPaused(list) ==
  {id \in Ids : list[id].status \in {"downloading", "queued", "paused"}}
Interrupted(list) ==
  {id \in Ids : \/ list[id].status \in {"downloading", "queued"}
                \/ list[id].status = "paused" /\ ~list[id].userPaused}

Reload ==
  /\ reloads < MaxReloads
  /\ reloads' = reloads + 1
  /\ queue' = <<>>
  /\ run' = [i \in Ids |-> "none"]
  /\ reason' = [i \in Ids |-> "none"]
  /\ retries' = [i \in Ids |-> 0]
  /\ timers' = [i \in Ids |-> 0]
  /\ boot' = Interrupted(entry)
  /\ removing' = {}
  /\ prune' = Idle /\ scan' = NoScan /\ undone' = {} /\ hasty' = {}
  /\ UNCHANGED <<entry, slots, lost, sidecars, held>>

\* 1.5 s later resumeDownload is called for each of them, in list order (some
\* order, here): the free slots are taken first, the rest is queued.
Orders(S) == {s \in [1..Cardinality(S) -> S] :
                \A i, j \in 1..Cardinality(S) : s[i] = s[j] => i = j}

BootResume ==
  LET todo == {id \in boot : Resumable(id)}
      room == IF Cardinality(Active) < slots THEN slots - Cardinality(Active) ELSE 0
      n    == Cardinality(todo)
      list == [i \in Ids |-> IF i \in todo THEN [entry[i] EXCEPT !.userPaused = FALSE]
                             ELSE entry[i]]
  IN  /\ boot # {}
      /\ boot' = {}
      /\ \E order \in Orders(todo) :
           LET k  == IF room < n THEN room ELSE n
               go == {order[i] : i \in 1..k}
           IN  /\ run' = [i \in Ids |-> IF i \in go THEN FirstStep ELSE run[i]]
               /\ reason' = [i \in Ids |-> IF i \in go THEN "none" ELSE reason[i]]
               /\ queue' = queue \o [i \in 1..(n - k) |-> order[k + i]]
               /\ entry' = Launched([i \in Ids |-> IF i \in todo \ go
                                                   THEN [list[i] EXCEPT !.status = "queued"]
                                                   ELSE list[i]], go)
      /\ held' = held \ todo
      /\ UNCHANGED <<retries, timers, removing, jobs, ui>>

\* A job writes the list it read before its awaits: it is meant to take some items
\* away, to add some or to call them done, and whatever else it changes is undone.
WriteBack(list, meant) ==
  /\ entry' = list
  /\ undone' = undone \cup {i \in Ids \ meant : list[i] # entry[i]}

\* pruneMissingDownloads reads the list once, checks the file of every done
\* item (an await each) and writes the list it read, minus the missing items, whose
\* sidecars it then deletes (if that succeeds).
\* (It finds every file that is not losable, so these checks are left out.)  A file
\* that something else deletes is gone by the time of its check.
PruneBegin ==
  /\ ~prune.on /\ (scan.on => MaxJobs > 1)
  /\ \E id \in Losable : entry[id].status = "done"
  /\ prune' = [on |-> TRUE, list |-> entry, missing |-> {},
               todo |-> {id \in Losable : entry[id].status = "done"}]
  /\ UNCHANGED <<entry, queue, run, reason, retries, timers, boot, removing,
                 scan, undone, hasty, held, ui>>

PruneCheck(id) ==
  /\ id \in prune.todo
  /\ lost' \in {lost, lost \cup {id}}
  /\ prune' = [prune EXCEPT !.todo = @ \ {id},
                            !.missing = IF id \in lost' THEN @ \cup {id} ELSE @]
  /\ UNCHANGED <<entry, queue, run, reason, retries, timers, boot, removing,
                 scan, undone, hasty, held, slots, sidecars, reloads>>

Pruned == [i \in Ids |-> IF i \in prune.missing THEN Absent ELSE prune.list[i]]

PruneCommit ==
  /\ prune.on /\ prune.todo = {}
  /\ IF prune.missing = {} THEN UNCHANGED <<entry, undone>>
     ELSE WriteBack(Pruned, {i \in prune.missing \ Active : entry[i].status = "done"})
  /\ prune' = Idle
  /\ sidecars' \in {sidecars, sidecars \ prune.missing}
  /\ UNCHANGED <<queue, run, reason, retries, timers, boot, removing, scan, hasty, held,
                 slots, lost, reloads>>

\* scanDownloadsFolder (desktop) reads the list, then the sidecar files, and
\* writes the list it read in which every item with a sidecar and a file is done: one
\* of that list, whatever it has done since, or an unlisted one, added under a new
\* uuid.  (Where sidecars are not followed it writes nothing and is left out.)
ScanBegin ==
  /\ sidecars # {} /\ ~Android /\ ~scan.on /\ (prune.on => MaxJobs > 1)
  /\ scan' = [on |-> TRUE, list |-> entry]
  /\ UNCHANGED <<entry, queue, run, reason, retries, timers, boot, removing,
                 prune, undone, hasty, held, ui>>

Recognised == sidecars \ lost
Found   == {id \in Recognised : ~IsListed(scan.list, id)}
Matched == {id \in Recognised : IsListed(scan.list, id) /\ scan.list[id].status # "done"}

\* An id taken meanwhile by a new download of the title is not the imported item's,
\* which is not followed then.
Imported == {id \in Found : Fresh(id)}
Merged == [i \in Ids |-> CASE i \in Imported -> [status |-> "done", userPaused |-> FALSE]
                           [] i \in Matched  -> [scan.list[i] EXCEPT !.status = "done"]
                           [] OTHER          -> scan.list[i]]

ScanCommit ==
  /\ scan.on
  /\ IF Found \cup Matched = {} THEN UNCHANGED <<entry, undone, hasty>>
     ELSE /\ WriteBack(Merged, Imported \cup {i \in Matched : IsListed(entry, i)})
          /\ hasty' = hasty \cup (Matched \cap (Active \cup InQueue))
  /\ scan' = NoScan
  /\ UNCHANGED <<queue, run, reason, retries, timers, boot, removing, prune, held, ui>>

------------------------------------------------------------------------------
Next ==
  \/ \E id \in Ids :
       \/ StartDownload(id) \/ UserResume(id) \/ PauseActive(id) \/ PauseQueued(id)
       \/ RemoveDownload(id) \/ RemoveFinish(id)
       \/ RunStep(id) \/ Stall(id) \/ RetryFires(id)
       \/ PruneCheck(id)
  \/ \E n \in 1..MaxSlots : SetSlots(n)
  \/ Reload \/ BootResume
  \/ PruneBegin \/ PruneCommit \/ ScanBegin \/ ScanCommit

Spec == Init /\ [][Next]_vars

------------------------------------------------------------------------------
(* Fairness.  Local awaits settle and an abort reaches the await it rejects; *)
(* a silent connection is aborted by the 30 s watchdog, a live one ends;    *)
(* the page-load timer fires.  Users, reloads and the outside world owe     *)
(* nothing.                                                                 *)
Settles(id) ==
  \/ StatOk(id) \/ StatThrows(id) \/ CleanedUp(id)
  \/ run[id] = "verify" /\ Complete(id)
  \/ reason[id] # "none" /\ (FailDesktop(id) \/ FailAndroid(id))

Transfers(id) ==
  /\ reason[id] = "none"
  /\ Stall(id) \/ ResponseOk(id) \/ RangeNotSatisfiable(id) \/ BodyEnds(id)

FairSpec ==
  /\ Spec
  /\ \A id \in Ids : WF_vars(Settles(id)) /\ WF_vars(Transfers(id))
  /\ WF_vars(BootResume)

------------------------------------------------------------------------------
(* Properties                                                               *)

\* Types of the queue's state (downloads.js module state and stored list).
TypeOK ==
  /\ entry \in Lists
  /\ queue \in Seq(Ids)
  /\ run \in [Ids -> Steps]
  /\ reason \in [Ids -> {"none", "paused", "stalled"}]
  /\ retries \in [Ids -> 0..2]
  /\ timers \in [Ids -> 0..MaxTimers]
  /\ boot \subseteq Ids /\ removing \subseteq Ids
  /\ slots \in 1..MaxSlots
  /\ lost \subseteq Ids /\ sidecars \subseteq Library
  /\ held \subseteq Ids /\ undone \subseteq Ids /\ hasty \subseteq Ids
  /\ prune \in [on : BOOLEAN, list : Lists, todo : SUBSET Ids, missing : SUBSET Ids]
  /\ scan \in [on : BOOLEAN, list : Lists]
  /\ reloads \in 0..MaxReloads

\* An id waits at most once and never while it runs: otherwise two runs would
\* append to one file.  (queuedIds and activeAborts, resumeDownload's guards.)
QueueSound ==
  /\ \A i, j \in 1..Len(queue) : queue[i] = queue[j] => i = j
  /\ InQueue \cap Active = {}

\* Whatever path starts a run (a command, a finished run draining the queue, a
\* timer, a page load), it starts within the slots in force at that moment.
SlotsRespected ==
  [][~(Active' \subseteq Active) => Cardinality(Active') <= slots']_vars

\* The queue keeps what a pool of slots promises to those who wait: runs start within
\* the slots in force, whoever starts them; an id is queued only when they are full;
\* the queue is served in order and passes over no id, unless a background job wrote
\* an old entry over it or called it done; and a run that ends leaves no slot free
\* while an id waits.
\* (runDownload, tryRunNext, resumeDownload.)
Pool == INSTANCE SlotPool WITH
          Clients <- Ids, MaxLimit <- MaxSlots,
          busy <- Active, line <- queue, limit <- slots,
          excused <- undone \cup hasty

ServedInTurn == Pool!Spec

\* What the list says of a download is true of its run, unless a background job
\* wrote an old entry over it.  Queued: it is in the queue, about to be resumed
\* after a page load, or its run has not reached its first status write.
\* Downloading (for which the page offers only Pause): it has a run or is about to
\* be resumed.  And a run that nobody aborted belongs to a listed item: what it
\* downloads can be seen, paused and removed.
QueuedIsWaiting(id) ==
  entry[id].status = "queued" => id \in InQueue \cup boot \/ run[id] \in {"stat", "leaked"}
DownloadingIsLive(id) ==
  entry[id].status = "downloading" => id \in Active \cup boot
RunIsListed(id) ==
  id \in Active /\ reason[id] = "none" => IsListed(entry, id)
ListTellsRuns ==
  \A id \in Ids \ undone : QueuedIsWaiting(id) /\ DownloadingIsLive(id) /\ RunIsListed(id)

\* A pause that nothing has overridden, not even a job with an old entry: a run
\* still alive is being aborted, the id does not wait for a slot, and once the abort
\* has landed no page load would resume it.
UserPauseHolds ==
  \A id \in held \ undone :
    /\ id \in Active => reason[id] # "none"
    /\ id \notin InQueue
    /\ run[id] = "none" /\ id \notin boot => id \notin Interrupted(entry)

\* A finished download stays finished until it is removed, whichever retry timer,
\* page load or late command arrives afterwards: only a job that writes an old
\* entry over it can change that, and the run of a download that a scan called done
\* before it had ended (or a pause, while it still waited).
DoneStaysDone ==
  [][\A id \in Ids \ (undone' \cup hasty') : entry[id].status = "done" =>
       entry'[id].status \in {"done", "absent"}]_vars

\* Every queued download gets its turn, is cancelled or is removed.
QueuedGetsTurn ==
  \A id \in Ids : entry[id].status = "queued" ~> entry[id].status # "queued"

\* An abort (pause, removal, stall) always ends the run and frees its slot.
AbortEndsRun ==
  \A id \in Ids : reason[id] # "none" ~> run[id] = "none"

\* pruneMissingDownloads is there to "Verify on-disk presence of every "done"
\* entry" (downloads.js:823) and scanDownloadsFolder to "merge the matching items
\* back" (882), those with a sidecar next to their file: any other unfinished download
\* in the list is not their business.
JobsSpareUnfinished ==
  [][PruneCommit \/ ScanCommit => \A id \in Ids :
       /\ entry[id].status \notin {"absent", "done"}
       /\ PruneCommit \/ id \notin Recognised
       => entry'[id] = entry[id]]_vars

==============================================================================

# Extreme InfiniTV: specifications and proofs

TLA+ models of the stateful core of Extreme InfiniTV, an IPTV player that runs
on desktops, phones and televisions (TypeScript and JavaScript in a web view,
Rust in a Tauri shell, Kotlin on Android). The code is under `src/` (the
application's own sources are in `src/src` and `src/src-tauri`). Paths below are
relative to those two.

* [1. The system](#1-the-system): its components, their state, what makes them hard
* [2. Modules](#2-modules): which module models which part, and how
* [3. What is checked](#3-what-is-checked): the runs, their bounds, what they show
* [4. Fairness](#4-fairness)
* [5. What is proved](#5-what-is-proved): theorems and their arguments
* [6. Where code and words disagree](#6-where-code-and-words-disagree)
* [7. Abstractions](#7-abstractions)
* [8. Observations without a run](#8-observations-without-a-run)
* [9. Plan](#9-plan)

`PROJECT.json` is the index: components, runs, the line ranges each definition
stands for, one mutation of the code's model per property (which must break
it), the hazards and the theorems.

To check a run: `tlc -config MCDownloads_desktop.cfg MCDownloads.tla`. To check
the proofs of a module: `tlapm DownloadsProofs.tla`.

## 1. The system

A user adds playlists (Xtream accounts, M3U files), browses the catalog and
plays. A title can also be downloaded, or sent to a television that runs the
same application in *receiver mode*. State lives in four places: module
variables of a page (gone with every navigation: the application is a set of
pages, not a single one), `localStorage` and IndexedDB (shared by all pages),
Rust state behind mutexes (as long as the process), and files.

| Component | Where | State | Operations | Modelled |
| --- | --- | --- | --- | --- |
| Offline downloads | `scripts/lib/downloads.js` | stored list of items; `queuedIds`, one run and `AbortController` per active id, retry timers | start, pause, resume, remove, slot changes, page load, prune, scan | `Downloads` |
| Pair code | `receiver.rs`, `receiver/receiver.ts` | code, expiry, failures, lockout, last attempt; the code a screen shows and its timer | attempts, expiry, regeneration, status events | `PairingCode` |
| Device store | `receiver_store.rs` | `receiver.json` and its temporary file | save, load, first id | `ReceiverStore`, `AtomicStore` |
| Receiver server | `receiver.rs` | listener, open connections, paired devices in memory and on disk | start, stop, pair, remove | `ReceiverServer` |
| Receiver page and engines | `receiver/receiver.ts`, `receiver/engines.ts`, `Layout.astro`, `handle_play`/`handle_transport` | playback record, pending play, play chain, active engine, two sessions | play, stop, retry, back, errors, page changes, state reports | `ReceiverPage` |
| Cast sender session | `lib/tv-cast*.ts` | session, its generation and its backup; requests in flight; pill and remote | play, stop, dismiss, idle and lost receivers, page load, relaunch | `CastSender`, in part |
| Cast state feed | `lib/tv-cast-state-feed.ts` | binding, websocket, polling loop or watchdog, retry timer, misses | bind, frames, polls, give up | `CastFeed` |
| TV-shell playback | `tv/playback.ts`, `receiver/engine-select.ts` | play generation, start chain, starting and active engine, targets | play, look-up, start, fallback, end, back | `TvPlayback`, `OnePlayer`, in part |
| Catalog warm-up | `warmup.rs`, `lib/warmup-native.ts` | the one native job with its kinds and staged files; per page the tracked job and its trackers | start, join, replace, poll, read, acknowledge, navigate | `Warmup`, in part |
| Catalog cache | `lib/cache.js`, `lib/img-cache.ts` | memory over IndexedDB, fetches in flight | read, fetch, revalidate, invalidate, prune | no (section 7) |
| Native media proxies | `audio_proxy.rs`, `vod_proxy.rs`, `vod_audio_proxy.rs` | sessions, the one active transcoder | register, serve, evict, tear down | planned |
| Page player | `lib/player-runtime.ts`, `vod-audio-switch.ts`, `vod-mount.ts`, ... | media element, remux session, switch generation | mount, switch, recover | planned in part |
| Playlists, preferences, programme guide, metadata | `lib/creds.js`, `preferences.js`, `epg-data.js`, ... | stored JSON | read-modify-write | no |
| Parsers, matchers, retry | `lib/m3u-parser.ts`, `retry.ts`, ... | none | functions | no |
| Views, focus, dialogs, editor | `pages`, `components`, `tv/` | DOM | | no |
| Desktop and Android shells | other Rust, Kotlin | OS handles | | no |
| TVDB worker | `proxy/src` | none | HTTP | no |

How they interact. The sender of one device calls the receiver server of
another over HTTP (`/pair`, `/play`, `/stop`, ...) and listens to its record of
the playback through `/events` or by polling `/state`. The server hands plays
and controls to the page as Tauri events and is told by the page what plays
(`receiver_report_state`). The page drives one of two engines. Pairing changes
the device list, which is what authenticates every later request, and each
change is saved through the device store. Downloads use the catalog's provider
limit for their slots and otherwise stand alone.

Which behaviours are hard, and what correctness means there:

* *Downloads.* Every `await` lets a pause, a removal, a timer or another
  download run; every page load throws all runs and the queue away and keeps
  the list. An item must not wait and run at once (two runs would append to one
  file), must not be listed as busy with nobody working on it, must respect the
  slot limit on every path, and a pause or a finished file must survive
  whatever arrives late.
* *Pair code.* Six digits guard a television. Each code must pair at most one
  device, take a bounded number of guesses, and a lockout must be served, while
  the clock, attempts, status calls and regenerations all replace codes. The
  screen that shows the code knows of a replacement only from status events
  that can overtake one another.
* *Device store and server.* Starts, stops, pairings and removals await each
  other's disk writes in any order. A crash must not lose the pairings, a
  removed device must stay out, and two starts must not leave two listeners.
* *Receiver page.* Several phones send; their handlers overtake one another
  between the record and the event. A play takes awaits to begin, an engine
  reports errors late, and the page may be left or not be there at all. One
  engine may sound; the newest play wins; stop stops; phones come to be told
  the truth.

* *Cast sender.* A play, a stop, the polls, the socket's frames and the relaunch
  probe answer in any order, and each event of the feed calls back into pill,
  remote and session, which rebind the feed that raised it. A session that was
  torn down must stay down, one that lives must have its backup and be watched,
  and the idle a start brings about must not be taken for the end.
* *TV-shell playback.* Every choice is looked up for as long as it takes, starts
  queue up behind a mount of seconds, and sessions end or are left meanwhile. What
  sounds must be the active engine, what is chosen last must win, progress must be
  written under the title that plays, and the player must never be a screen one
  cannot leave.
* *Warm-up.* One job for all pages; pages come, go, join, replace each other's
  jobs, lose events and see only the job in the slot. What is reported done must
  be cached, an old catalog must not replace a newer one, nobody may wait for ever.

The hazards, each at the line where it bites, are listed in `PROJECT.json`.
Further ones, of code that is not modelled: a 416 is taken for completion
(`downloads.js:551`); the ninth proxy session evicts the oldest, which may play
(`vod_proxy.rs:224`); a switch of the audio track fails half-way
(`vod-audio-switch.ts:349`); the delayed delete of a fetch in flight removes the
entry of a newer forced one (`catalog.js:441`).

## 2. Modules

Each component has a module, an `MC...` module with the model values, symmetry
sets and named operators its configurations use, and, where something is proved, a `...Proofs`
module. Operators whose names say what they get wrong (`ResumableThoughQueued`,
`EvictNever`, ...) are variants used for mutation and are not part of `Next`.

### Downloads

One action is the code between two awaits of `downloads.js`.

| State | Code |
| --- | --- |
| `entry` | the stored list: status and `userPaused`; an item not listed is `Absent` |
| `queue` | `queuedIds` |
| `run[id]` | the await its `runDownload` is suspended at: `stat` (size of the partial), `fetch`, `body`, `verify`, `clean...` (Android deletes the partial first), `leaked` (its `statSize` threw outside the `try`) |
| `reason` | the abort reason of its controller |
| `retries`, `timers` | `lockRetryCount`, pending `setTimeout(resumeDownload, 2500)` |
| `boot` | what the page load found interrupted, until its 1.5 s timer |
| `removing` | removals that await the file system |
| `slots` | `maxConcurrent()`, which the user or the provider may change at any time |
| `prune`, `scan` | the two background jobs with the list each has read |
| `lost`, `sidecars` | media files gone from disk; ids whose sidecar file is in the folder (followed for `Library`) |
| `held`, `reloads` | history of pauses; bound |
| `undone` | history: the ids whose entry a job changed although it meant only to take out a missing file, to add a finished one or to call one with a sidecar done |
| `hasty` | history: the ids the folder scan called done while they ran or waited |

`TryRunNext` is part of every action whose code ends in `tryRunNext()`, and
drains the queue as the loop does: ids no longer queued are dropped on the way,
until the slots are full. An id stands for the path of its title as well: what was
removed, or is on disk from an earlier installation, may be downloaded again while
its sidecar is still there, and a scan then finds its file and calls the running
item done (`Matched`). `Reload` is a page load or a crash at any point: runs,
queue, counters and timers go, the list stays.

`SlotPool` is what the queue promises to those who wait in it, without items,
awaits or pauses: people ask, give up, leave and are called. `Downloads` implements
it (`ServedInTurn`): `busy` is the ids with a run, `line` is `queuedIds`, `limit` is
`maxConcurrent()`, and only ids in `undone` or `hasty` are excused from being served
in turn.

### PairingCode

`evaluate_pair_attempt` runs under the mutex and is one step, split by outcome
(`LateAttempt`, `WrongAttempt`, `LastWrongAttempt`, `RightAttempt`). A handler
that replaced the code owes the screen a status: it *builds* it under the mutex
later and *delivers* it later still, so statuses overtake one another. Building
refreshes an expired code. The screen shows the last status delivered and arms
one timer from the seconds that status says are left.

### ReceiverStore and AtomicStore

`save` as its system calls: open and truncate the one temporary name, write,
rename. Files are inodes, since a rename moves the inode under a writer that
still holds it. Nothing makes a save wait for the one before it, and saves may be
at any of their calls together; `overlapped` remembers that one has begun amid
another, until the last of them has ended. Writes and renames may fail. `AtomicStore`
is the promise: the list on disk changes at one moment and as a whole, or the save
fails and nothing has happened; while saves overlap (`Muddle`), it owes no more than
that a start would find a whole list or none, and once they have ended it holds again.
`ReceiverStore!SavesAreAtomic` is its specification under the mapping
`stored <- Stored`, `pending <- {list[s] : s \in InSave}`. `StoreStaysWhole` says the
same of the file itself: no call, failure or crash tears a whole store except while
saves overlap.

### ReceiverServer

`receiver_start` is a call that passes several awaits (`start[s]`): check the
handle, load the list, assign it, look for the receiver's id and, where the file has
none, save the list read with a new one (`MissId`, `BeginId`, `IdSaved`), open the
pairing slot, bind, install the handle with a second look. `handle_pair` and
`receiver_revoke_device` change the list and copy it, then save the copy. Each mutex
is held for a moment only, so all of these interleave. An open connection outlives
its listener (`conns`). `Restart` ends the process at any point.

The server is composed with `AtomicStore`: `receiver.json` is its `stored`, the
saves that have begun (`BeingSaved`) are its `pending`, and each step that
touches the file is a step of the store (`BeginSave` at `BeginWrite` and `BeginId`,
`Commit` or `Abort` at their ends, `Die` at `Restart`; while saves overlap `Muddle`,
at `Tangle` for what their calls do to the file and at their ends, which leave it as
it is). What is shown of the server therefore holds over any file that keeps
the promise, and `ReceiverStore` shows that the system calls do.

Two history variables tell what no lock prevents: `order` lists the copies on their
way in the order they were made, and `raced` becomes true when two saves overlap,
when a copy is dealt with before an older one, or when a start assigns or saves a list
that is no longer the one on disk or will not be for long. A read may also fail
(`ReadFile`): the start then takes the list for empty, assigns it, or saves it over
the file when it looks for the id. `unsaved` tells that a write or such a read has
failed since memory and disk last met.

### ReceiverPage

The server's two steps per request (`handle_play` writes the record, then emits;
`stop` emits, then resets the record), the events' FIFO, the page and its engines,
and the FIFO of reports back. `next` is the newest play enqueued: `playChain`
runs plays one at a time and each, when its turn comes, is skipped unless it is the
newest. A turn is a microtask (`AtRest`). The awaits of a play that let others in
are the wake of a desktop window and the first mount of the embedded player.
`emb` and `nat` are the sessions, `active` is `activeEngine`, and `android`, which
never changes, picks the build (only Android has the native engine). `page` is `here`, `away`
(any other page, whose layout stores the play as pending and navigates) or
`moving`. The answer of a native error's probe may come when its session is over;
`clobbered` remembers, for as long as the page lives, that such an answer has taken
`activeEngine` from another session.

### CastFeed and CastSender

`CastFeed` has no variables: it is the feed's module state as a record and its
functions as operators on it (`Follow` is `syncToSession`, `ByPolling`
`enterPollMode`, `Heard` the first message of a socket, ...). `CastSender` holds
that record in `app`, beside the session, the backup, the pill and the remote,
because between two awaits these change by nested calls: `SetSession` dispatches
`xt:cast-session-changed`, which reaches the pill (`PillHears`: mount or unmount,
hence subscribe or leave), then the feed, then the remote. An action is one turn of
the event loop, composed of such operators in the order of the calls, and
`Becomes` adds what the history remembers.

| State | Code |
| --- | --- |
| `app.session`, `app.backup`, `app.gen` | `sessionStorage`, `localStorage`, `castGeneration` |
| `app.feed`, `app.polls` | module state of the feed; polls that await an answer, with the key they were sent for |
| `app.guard` | the idle-teardown guard of the pill: the session it looks at, whether it saw it play |
| `plays[p]` | the request of a `castPlay`, with the generation it read before its await |
| `settle`, `aged` | the 5 s after a request, the grace of a session |
| `probe`, `tries` | the relaunch's `tryReattachCastSession` and its tries |
| `torn`, `robbed` | history |

### TvPlayback and OnePlayer

`playback.ts` as choices (`Play`, numbered), their look-ups (`Resolved`,
`ResolveFails`, stale or not), the start chain (`Turn`: engine selection, the
teardown of what is active, native start, fallback), the mount of the embedded
player (`MountDone`, `MountClaimed`, `MountFails`, `MountThrows`), the ends of
sessions and the back key. The native engine answers within one turn; `route` is
what the descriptor and the preference select. `NativeErrs` and `ProbeAnswers` are
the two halves of `reportNativeError`, between which sessions may come and go. An
end gives up the active engine whoever's it is (`SessionEnded`); what plays on is in
`strays`. `OnePlayer` is what the viewer is
promised: one thing plays, never an older choice than one that began or was backed
out of, and it is lost only to an end that came late or to that of another lost
title. `TvPlayback!Promise` is that specification under
`asked <- Newest, playing <- Sounding, lost <- Lost, late <- probe`; `floor` is shared.

### Warmup

Jobs are numbered as they are started; only the one in the slot can be asked
about, read or acknowledged, which is `warmup.rs`'s `WarmupState.job`. On the page
a call (`warmupActiveNative`, `awaitNativeKind`, `retryKindNative`) asks for a job
and then, some awaits later, attaches an object to it (`Attach`, which supersedes
the one there is). A tracker per kind waits, reads (`Read`), stores, acknowledges
(`Ack`) and is settled; the `late...` states are ingestion that goes on for a
superseded object. Every event is heard by the listening object or lost; polls
are answered or fail. `cache` is what the page finds of each kind, `durable` what
IndexedDB may hold of it: nobody waits for the write (`setCached`), which lands in
its own time (`Lands`), while the acknowledgement deletes the staged file. `lost`
remembers what a navigation took because of that. `overtaken` remembers the objects
that took the place of a newer job's, since calls attach in any order.

The modules named `...Proofs` hold what section 5 says is proved.

## 3. What is checked

Every run below finishes with TLC in under three minutes with two workers. A
`pass` run exhausts its state space. Between them the passing runs take every action.

| Run | Distinct states | Instance | Shows |
| --- | --- | --- | --- |
| `dl_desktop` | 427,826 | 2 ids, up to 2 slots, 1 retry timer, failing stat, 1 page load or crash | `QueueSound`, `ListTellsRuns`, refinement of `SlotPool` |
| `dl_jobs` | 803,285 | 2 ids, 1 slot, prune or scan at any time, one of the ids with a sidecar | `ListTellsRuns`, `UserPauseHolds`, `DoneStaysDone` for every item no job wrote an old entry over, the last unless `hasty` |
| `dl_android` | 20,770 | 2 ids, 2 slots, Android | every queued download gets its turn, every abort ends its run |
| `pair` | 173,664 | 2 codes, 2 handlers, 1 screen command, 7 attempts, 3 guesses, times of 4, 3 and 1 ticks | `GuessesBounded`, `LockoutHeld`; the screen comes to show a code in force |
| `store` | 34,750 | 2 savers, overlapping at will, crashes and failures anywhere, good, damaged or no file; symmetric savers and inodes | refinement of `AtomicStore` |
| `server` | 1,448,180 | 2 senders for 1 place, one connected at a time, 2 starts, saves that begin, end, fail, overlap or die, restarts | `OneListener`, and unless `raced`: `ListsAgree` (of files that could be read), `RevokedStaysOut`; refinement of `AtomicStore` |
| `page` | 769,484 | 2 descriptors, 2 senders, 3 requests, 1 exit, both builds, late probe answers | unless `clobbered`: `NoOrphan` (which implies `OneEngineSounds`), `LastWordWins`; always `RecordCatchesUp`, of both ticking and quiet sessions |
| `cast` | 1,048,876 | 2 televisions, one with two addresses, 2 plays, 1 poll in flight, 2 misses, 1 probe, 1 load | `TornStaysDown`, `BackupIsSession`, `FeedFollows`, `Watched`, `StartSurvivesIdle` |
| `tv` | 323,749 | 4 plays of any route, late probe answers | `ActiveSounds` unless `strays`, `TargetIsPlaying`, `ScreenCanBeLeft` unless `stranded`, refinement of `OnePlayer`, every play settles |
| `warmup` | 359,230 | 2 calls, 1 kind, 2 playlists, 2 jobs, 1 navigation, 2 poll failures | `RowsAreCached` unless `lost`, `NewestStays`, every call resumes unless `overtaken` |
| `dl_work`, `page_orphan` | | the code as it is | a violation each, see section 6 |

Each component's `TypeOK` is checked by its first run, except that of `ReceiverStore`,
which is proved alone.

Why the bounds are enough.

* *Downloads.* Two ids make every interference of one download with another (one
  runs, one waits) and, with one or two slots, both a full and a free queue; the
  slot limit may change at any step. One timer and one page load put a retry and a
  crash at every point of a run. A third id adds a longer queue, which the theorems
  cover: all five properties are proved for any number. The retry
  timer, the page load, the stalls and the jobs are split over the runs because
  together they exceed what is worth waiting for: `dl_jobs` runs one job at a time
  (`MaxJobs`), `dl_work` both at once, and the theorems any mixture.
* *Pair code.* The real times (120 s, 60 s, 750 ms) matter only by their order; 4,
  3 and 1 ticks keep it. Seven attempts exhaust three guesses twice over. Two
  codes suffice because a code is compared with its predecessor alone. Proved for
  all values.
* *Store.* Two savers are enough for an overlap at every pair of calls; the lists
  differ in length, so that a write over a longer list leaves a tail. Inodes are
  recycled when nobody names them.
* *Server.* Two senders for one place make eviction happen, and two copies that
  overtake one another; two starts race. A second sender connects once the first
  has disconnected, whose save may still be on its way (`MaxConns`). Proved for all numbers of each.
* *Page.* Two descriptors: an old and a new play, which may ask for different
  engines; the sessions of one owe no report once they play (`Quiet`). Three requests give a play, a second one under way, and a stop or a retry
  in any order and from either sender; one exit is one page gone and one return.
  Every queue is bounded by the requests, and reports by a tick waiting until none
  is on its way.
* *Cast.* Two plays give a session and one that replaces it or is stopped before
  its answer; the second television and the second address make the feed rebind
  without and with a new session. One poll in flight is what one interval leaves
  behind; it can outlive its binding. A load may be a page load or a relaunch. The
  safety properties are proved for all bounds.
* *TV shell.* Four plays: one that sounds, one that mounts, one in the chain and
  one in its look-up. Proved for any number, liveness excepted.
* *Warm-up.* Two jobs give one that is superseded and one that supersedes it, of
  the same playlist or of another; two calls let them attach out of order; a
  navigation leaves either job to the next page, with or without its rows on disk.
  Kinds interact only through the end of their job. The safety properties are
  proved for all bounds.

`CHECK_DEADLOCK FALSE` is set where the bounds let the model stop: after the last
request the television, or the sender, may rest.

## 4. Fairness

Only what the program or its platform owes is fair; users, phones, reloads and
crashes owe nothing.

* `Downloads!FairSpec`: local awaits settle; an abort rejects the await it
  reaches; a connection that stays silent is ended by the 30 s stall watchdog
  and a live one ends by itself, so one of `Stall`, `ResponseOk`, ... happens; the
  page load's timer fires. Weak fairness suffices: nothing but the run itself
  disables these steps for good. A retry timer owes nothing.
* `PairingCode!FairSpec`: time passes, handlers and commands run to their end,
  the screen's timer goes off. Attempts, address changes and visits are not fair.
* `ReceiverPage!FairSpec`: handlers end, events and reports arrive, navigations
  end, a play's awaits resolve, a loading stream starts, ends or fails
  (`EmbStarts`, `NatStarts`), timers fire, and what plays ticks, ends or fails
  (`EmbRuns`, `NatRuns`), except what is `Quiet`: a live channel of the native
  player reports once (`engines.ts:690`, `780`) and a paused title not at all.
* `TvPlayback!Spec`: a look-up ends or times out, a mount succeeds, fails or
  throws, and the chain goes on to its next start.
* `Warmup!Spec`: downloads end or time out, a poll is answered again and again
  (fairness of `PollAnswered`: a job is given up only after failures in a row),
  commands are answered and what they resume runs. No event is owed to anybody,
  and no write to IndexedDB need ever land.

## 5. What is proved

All proofs are checked by TLAPS to the last leaf, for every value of the constants
that satisfies the named assumptions of the modules.

* **Downloads** (`DownloadsProofs`).
  `TypeCorrect`: `Spec => []TypeOK`.
  `QueueSoundness`: `Spec => []QueueSound`, for any number of ids, on both platforms
  and with both jobs. `QueueSound` is inductive relative to `TypeOK`: the argument
  is about `TryRunNext`, whose effect `DrainSound` states (the queue loses a
  prefix, what starts comes from that prefix, and what started was not running), and
  about the two guards that keep an id from being queued twice.
  `SlotsSafety`: `Spec => SlotsRespected`. `DrainWithin` shows that a drain ends
  at the first moment the slots are full, `BootWithin` the same for a page load,
  and every other step starts nothing.
  `QueueIsAPool`: `Spec => ServedInTurn`, the refinement of `SlotPool`. It says
  what `SlotsRespected` does not: that nobody waits while there is room, and that the
  line is served from its head. `DrainServes` shows that a drain calls a prefix of
  the queue and stops only at the limit or at the end, `BootAsks` and `AskOne` that
  whoever is newly queued found no room, and every other step leaves the pool alone.
  The drain skips whom the list does not show as queued; that nobody loses a turn
  so is `ItemInv` (below), except for ids a job wrote an old entry over or a scan
  called done.
  `ListIsTrue`, `PausesHold`, `DoneIsFinal`: `ListTellsRuns`, `UserPauseHolds` and
  `DoneStaysDone`, with both jobs at work. A job that writes the list it read may
  revert any item (run `dl_work`), so the three say what is left: only the items it
  did revert, `undone`, are exempt, and only until the next page load;
  `DoneStaysDone` also exempts those the scan called done before their run had
  ended, `hasty`, since that run then writes another status. None is
  inductive: the invariant `ItemInv` relates all that is known of one
  id, its status and flag, whether it waits, the page load's note, its run, its
  abort reason and the user's pause (`Fits`). It says what runs may still call
  queued (a run whose partial is being sized, or which leaked), and that a run the
  user paused has its reason before it can write anything else; of an undone id
  it says nothing, which is enough because no step of one id reads the entry of
  another, the drain and the page load excepted, and these keep `Fits` id by id.
* **PairingCode** (`PairingCodeProofs`). `TypeCorrect`, `GuessesAreBounded`,
  `LockoutsAreServed`. The last needs a strengthening:
  expiry clears `locked_until` too, so the lockout is safe only because it never
  outlives its code (`LockWithinCode`: `lockedFor <= expiresIn`), which holds as a
  lockout comes with a fresh code and `Lockout <= Ttl`.
* **ReceiverStore** (`ReceiverStoreProofs`). `TypeCorrect`; `WholeStoreStaysWhole`
  (the action property `StoreStaysWhole`, which is proved only); and
  `StoreIsAtomic`, the refinement of `AtomicStore` by every behaviour, overlapping
  saves included. The inductive invariant (`IInv`) says that the temporary name and
  the store never name one inode (`NamesApart`), always, and that unless saves
  overlap there is one writer and what its inode holds at each call (`InTurn`). That
  overlapping saves disturb nothing after the last of them has ended needs no more:
  the next save truncates the temporary file they left.
  Each step then maps to `Commit`, `Abort`, `Muddle`, `Die`, `BeginSave` or a stutter.
* **ReceiverServer** (`ReceiverServerProofs`). `ListenersAreOwned`:
  `Spec => []OneListener`, whoever waits for whom. The
  strengthening: a call whose listener is the handle has returned, so it cannot
  shut the server in charge down as a spare.
  `TypeCorrect` needs that no list names a device twice (`Distinct`), or one could
  grow without bound. `MemoryAgreesWithDisk` (`ListsAgree`) and
  `RemovedStaysRemoved` (`RevokedStaysOut`), for any number of calls in flight: until
  `raced`, the newest copy on its way is the list in memory (`NewestIsMemory`),
  memory is on disk when none is on its way (`MemoryIsDisk`), and a removed device
  is neither in memory nor in the copies made since its removal (`Removed`); what
  `ensure_id` saves is what the file holds, or nothing after a read that failed
  (`unsaved`). That overlap, overtaking and a start amid
  a save are the only other ways to break the promises is what the theorems say.
  `FileIsAtomicStore` (`Spec => FileIsStore`): the file goes through the states of an
  `AtomicStore`, whatever the server does meanwhile; with `StoreIsAtomic` the two
  promises above rest on the system calls of `save`. The store lets a save end only
  if it is the only one or amid overlapping ones; `NoSaveIsStuck` (`SavesCanEnd`)
  shows that this never holds a save up, from the invariant `OneSave`: unless saves
  overlap one has begun at most, be it a copy's or an id's.
* **ReceiverPage** (`ReceiverPageProofs`). `TypeCorrect`; `SessionsStayOwned`:
  `Spec => []SessionsOwned` and one engine at a time, for any number of
  senders, descriptors and requests and with probe answers as late as they like.
  The invariant ties the engines to the play
  chain: at most one play is under way, and while one is, no engine is active,
  so the engine it mounts meets no other. It holds until a late answer clears
  `activeEngine` under another session (`clobbered`), and again on the next page.
  `LastWordDecides`: `Spec => []LastWordWins`. The play that waits for its turn is
  the latest, and so is the one at an await when none waits (`LatestInv`); a stop
  that is the last word is last in the inbox, and once the inbox is empty
  everything is settled and silent, unless the stop came amid a play (`StopInv`).
* **CastSender** (`CastSenderProofs`). All six properties of the run `cast`, for any
  devices, addresses, plays, polls and loads. The work is in the nested calls:
  one group of lemmas says of each operator on `app` that it keeps `Sane` (types,
  `Watched`, and that whoever shows also listens) and `Follows` (`FeedFollows` of
  a record), so that an action needs only to name the operators it composes. The
  generation argument of `TornStaysDown` is `HistorySound`: a play still in flight
  whose generation is the current one was not torn.
* **TvPlayback** (`TvPlaybackProofs`). `TypeCorrect`, `WhatPlaysIsActive`,
  `TargetFollows`, `BackFindsThePlayer` and `Implements`, the refinement of
  `OnePlayer`. The invariant: plays are asked in order and take increasing
  generations; the chain holds queued plays in that order; a start that may
  still begin is newer than `floor`; the mounting engine belongs to the head of
  the chain, and if a late end has given it up, to a start that is outdated. An
  engine that sounds is the active one or a stray, never both; `EndMaps` shows that
  a title is lost only while a probe is out or another is lost.
* **Warmup** (`WarmupProofs`). `TypeCorrect`, `DoneIsCached` and `NewestCatalogStays`.
  The invariant says that no object knows a
  job newer than the slot's, that the disk may hold what the page has and nothing of
  a job to come, that a tracker which stored its rows finds them or
  newer ones, and that a kind the job calls ingested is in the cache or was taken by
  a navigation before it was on disk (`lost`).

Only model-checked: everything else in section 3, in particular the liveness properties
(`QueuedGetsTurn`, `AbortEndsRun`, `ScreenCatchesUp`, `RecordCatchesUp`,
`EveryPlaySettles`, `EveryCallResumes`), which are
beyond what TLAPS does with fairness and `ENABLED`. Every safety property the passing
runs check is proved, of the whole specification of its module: within the model
no theorem assumes that calls wait for each other, that jobs do not run or that
answers come in time. Where the code lets such a thing break a promise, the property
names what must have happened, and a history variable records exactly that:
`undone`, `hasty`, `overlapped`, `raced`, `unsaved`, `clobbered`, `missed`, `robbed`,
`strays`, `stranded`, `lost`; of the liveness properties also `strayed` and
`overtaken`. What section 7 leaves out of a module is outside its theorems too.
No module declares a `RECURSIVE` operator.

## 6. Where code and words disagree

Each of these is a run that must find a violation.

* `dl_work`: the prune and the folder scan write back the list they read before
  their awaits, which undoes what happened to unfinished downloads meanwhile
  (`downloads.js:864`, `1025`).
* `page_orphan`: a native error waits for its probe while a play begins on the other
  engine; the late answer clears `activeEngine`, and neither stop nor the back
  key reaches what plays (`engines.ts:665`; the generation of line 741 moves with
  `play` alone).

`page` shows that the rest of the design holds until such an answer comes, and again
on the next page.

## 7. Abstractions

* *Downloads.* Bytes, throughput samples and the taskbar are left
  out; a transfer completes or fails. No two listed downloads share a path. Of a
  sidecar only its presence is followed; an imported item whose path a new download
  has taken since the list was read is not followed. The background
  jobs are left out of an instance in which they would write nothing.
* *Pair code.* A drawn code differs from the one it replaces (a repeat has
  probability one in a million). Instants are countdowns; time does not skip past
  a deadline unnoticed.
* *Store.* The bytes of a list are its length and its identity; a write is one
  system call.
* *Server.* The pairing slot is there or not. An id is in the file or not. Of what
  overlapping saves leave in the file only that it is a list of devices that have
  paired, or none.
  Keys are not reused: a device that pairs again is another key. The address
  watcher and mDNS are left out.
* *Page.* `playing` stands for playing, paused and buffering; pause, seek and
  volume are left out, and so are the ambient screen and the resume position.
  Whether a session ticks is a constant of its descriptor (`Quiet`).
  Authentication is the server's.
* *Cast.* A frame is busy or idle. Left out: sessions that are only connected,
  the deferred teardown of an auto-advance, the loading-stall guard,
  `castRetryLast`, the ambient push, the hidden document, the streamed log, and
  a `WebSocket` constructor that throws.
* *TV shell.* The on-screen display, digits before a zap is committed, the
  throttled progress writer, pause and seek are left out, and so are the
  channel changes a stray native session goes on telling. `receiverSessionStart`
  always answers yes, as `MainActivity.kt` does.
* *Warm-up.* Mirrors and redirects of one kind, the sweep of staging directories
  at start-up, `warmup_cancel` (no page calls it) and kinds fetched in JavaScript
  are left out. An answer is handled before the next download ends.
* *Not modelled: the catalog cache.* Its promises ("always the freshest write",
  `cache.js:318`; "drop every cache entry for one playlist", 467) are broken by the
  races listed in section 8; what remains true of it is shallow.
* *Not modelled: the rest.* The parsers, matchers and number formats are pure
  functions with unit tests of their own and no state; `stream.ts`, the detail pages
  and the components are DOM code over the state modelled here; the shells
  and the worker are calls to an operating system or a service.
* *Everywhere.* Wording, toasts and logs are left out.

## 8. Observations without a run

Met while modelling, each behaving as described in the models (or left out):

* `downloads.js`: the lock-retry timer (657) and the page load's resume clear a
  pause the user made meanwhile; a `statSize` that throws (519) leaks its slot for as
  long as the page lives (the step `leaked`); a 416 marks the item done without
  a size check and without clearing its retry count (551); the folder scan calls a
  running or waiting item done when a sidecar of its path was left behind (991,
  `hasty`): a waiting one is then passed over for good, and a running one may be
  taken out by the prune before its file exists; raising the slot
  limit starts nothing until the next event drains the queue; a download on Android
  begins at byte 0 after an interruption.
* `receiver.ts:192`: an idle screen opened again over an expired code arms no timer.
* `receiver_store.rs:94`: nothing makes two saves wait for each other (`handle_pair`,
  `receiver_revoke_device` and `ensure_id` run on threads of their own) and all use
  `receiver.json.tmp`: one can rename the file another has just truncated, and
  killed there the next load quarantines the store, although line 87 promises that
  "a crash mid-write can't truncate the store". In the model:
  `overlapped`, amid which `AtomicStore` promises no more than `Muddle`.
* `receiver.rs:666`: `receiver_start` assigns the list it loaded before its await and
  copies are saved in any order, so a start that overlaps a removal, or the late
  save of a pairing, brings the removed device back ("It will need to pair again",
  `i18n/en.json:1678`). `ensure_id` saves the list it read in the same way
  (`receiver_store.rs:110`). In the model: `raced`.
* `receiver_store.rs:72`: any error of a read, not only a missing file, makes an
  empty list. `load` leaves the file as it is, but `ensure_id` (100) then finds no
  id and saves an empty list over the paired devices. In the model: `ReadFile`,
  `unsaved`.
* `receiver.rs:717`: a stop between opening the pairing slot and installing the
  handle leaves a server without a code on its screen, until the next attempt
  fills the slot. `receiver.rs:1645`: connections kept alive are
  served after `receiver_stop`.
* `receiver.ts:448`: a stop that finds a play under way has no engine to stop and
  is dropped (`missed`). A play sent while the page is being left is lost and
  its record stays at loading (`strayed`, `Layout.astro:1085`). `LastWordWins` and
  `RecordCatchesUp` except these. `engines.ts:780`: a native live session reports
  once; a record that a late stop handler resets (`receiver.rs:2013`) stays wrong
  until the next event, and so does that of a paused title (`Unrepaired`).
* `tv-cast.ts:907`: the relaunch probe removes the backup it read seconds before,
  whoever the backup is for by then (`robbed`). It looks at no generation either and
  may restore a session that was stopped during the probe (exempt in `torn`). A
  stop whose answer is late clears the session begun since; a receiver given up
  voids a play that is under way to another one.
* `tv-cast-state-feed.ts`: a poll's answer counts for whatever the feed is bound to
  by then (232); a first websocket that fails is never tried again (283);
  dismissing the pill rebinds the feed with no subscriber, which leaves a
  connection nobody hears.
* `playback.ts:411`: "A mid-resolve attempt has already claimed the next generation;
  don't bump past it", but the code asks whether an engine is starting or active,
  which holds whenever a session ends: a play in its look-up is dropped silently.
* `playback.ts:424`: `handleSessionEnded` gives up the active engine whoever's session
  has ended. The probe of a native error is outdated only by a new native play
  (`engines.ts:665`); if it answers amid an embedded session that session plays on
  where no key reaches it, and a native title chosen then sounds beside it
  (`strays`, `Lost`).
* `playback.ts:579`: an outdated embedded start whose mount returns without a
  player, followed by a native play, leaves the player's view shown with nothing the
  back key can reach (`stranded`).
* `warmup-native.ts`: two calls of `awaitNativeKind` for one job each build an
  object after the `activeJob` check and supersede each other, so that both return
  early and fetch beside the native job, which
  `tests/warmup-native-await-merge.test.ts:4` rules out. A call that
  attaches out of order (935-940 await before they attach) supersedes the newer job's
  object, and who waits on its own waits for ever (`overtaken`), since polls of
  another job say nothing, although pages should not "hang forever" (488).
* `warmup.rs`: a staging directory that cannot be made leaves the previous job
  cancelled and its waiters hanging (`Wrecked`). A kind is acknowledged before the
  IndexedDB write is durable (`cache.js:277`), so that a navigation in between loses
  its rows and the next page, told that the kind is ingested, shows none (`lost`).
* `cache.js`: a hydration overwrites a newer write in memory (233); invalidation lists
  keys and deletes them in a later transaction, so that a hydration in
  between, as after an edit of a playlist, reads the old catalog back, and leaving
  the page there keeps it on disk (467); a fetch in flight across an edit stores
  the catalog of the old credentials (468); of a forced and an older fetch the last
  to end wins (365); the prune deletes a value stored since its list (214).

## 9. Plan

Done: the modules of section 2 and the theorems of section 5.

Next, in this order:

1. `CatalogCache` (`lib/cache.js`): once invalidation and hydration are one transaction,
   memory never goes back to an older value and an invalidated entry does not
   come back.
2. `DownloadTransfer`: ranges, sidecars and sizes; it refines a run of `Downloads`
   (completes only with all bytes).
3. `AudioSwitch` and the proxies' session maps.
4. What section 7 leaves out of `CastSender`: connected-only sessions and the
   auto-advance.

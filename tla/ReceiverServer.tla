---------------------------- MODULE ReceiverServer ----------------------------
(***************************************************************************)
(* The receiver's server and its paired devices: receiver_start,           *)
(* receiver_stop, receiver_revoke_device and handle_pair of                *)
(* src-tauri/src/receiver.rs.                                              *)
(*                                                                         *)
(* Commands and requests run on a thread pool.  The device list and the    *)
(* server handle are behind mutexes, each taken for a moment only, so      *)
(* every await is a point where all the others may run:                    *)
(*   receiver_start  check | load_devices | assign | ensure_id: read the   *)
(*                   file | save the list read, if it has no id |          *)
(*                   pairing, ips | bind | install the handle              *)
(*   handle_pair, receiver_revoke_device                                   *)
(*                   change the list and copy it | save the copy           *)
(* The pair code is PairingCode's business: here a pairing slot is there   *)
(* or not.  A save begins and ends as AtomicStore says, which the system   *)
(* calls of ReceiverStore implement.                                       *)
(***************************************************************************)
EXTENDS Naturals, Sequences, FiniteSets

CONSTANTS
  Keys,         \* device keys; a sender is named by the key it will be given
  Starts,       \* receiver_start calls that can be in flight together
  MaxPaired,    \* MAX_PAIRED_DEVICES
  MaxConns,     \* bound: connections open at one time
  SavesFail,    \* may a write fail?
  None,         \* no server handle
  NoFile        \* no receiver.json, or one that does not parse

ASSUME ServerAssumption ==
  /\ MaxPaired \in Nat \ {0} /\ MaxConns \in Nat
  /\ SavesFail \in BOOLEAN
  /\ None \notin Starts

(* The lists a file can hold.  A device is on a list at most once. *)
Storable ==
  {list \in UNION {[1..n -> Keys] : n \in 0..MaxPaired} :
     \A i, j \in DOMAIN list : list[i] = list[j] => i = j}

ASSUME FileAssumption == NoFile \notin Storable

VARIABLES
  handle,      \* the listener in ReceiverState.server, or None
  accepting,   \* listeners whose accept loop runs, named by their start call
  conns,       \* senders with an open connection: it outlives its listener
  slot,        \* is shared.pairing a Some?
  devices,     \* shared.devices
  disk,        \* the devices in receiver.json, or NoFile
  writing,     \* the keys whose copy is being written
  overlapped,  \* has one of them begun amid another, and some gone on since?
  start,       \* per receiver_start call: the await it is at
  read,        \* per receiver_start call: the list load_devices returned, then
               \* the one ensure_id read
  saving,      \* per key: the copy a pairing or a revocation of it writes
  fate,        \* per key: what the sender or the user has been told
  unsaved,     \* has a write failed, or a read of devices, since memory and disk last met?
  order,       \* history: whose copies are on their way, in the order they were made
  raced        \* history: have two saves overlapped, has a copy overtaken an older
               \* one, or a start assigned or saved a list that was out of date?

history == <<order, raced>>
file == <<disk, writing, overlapped>>
vars == <<handle, accepting, conns, slot, devices, file, start, read, saving,
          fate, unsaved, history>>
server == <<handle, accepting>>

(* "pairing" and "revoking" until the answer is sent. *)
Fates == {"new", "pairing", "paired", "revoking", "revoked", "failed"}

Awaits == {"idle", "loading", "loaded", "naming", "unnamed", "saving", "named",
           "binding", "bound"}

Listed(list) == {list[i] : i \in 1..Len(list)}

\* What load and ensure_id make of the file.
Loaded(found) == IF found = NoFile THEN <<>> ELSE found

(* A file that cannot be read counts as one without devices, and stays.  Only *)
(* load_devices tells the log of it.                                          *)
ReadFile(s) ==
  \/ read' = [read EXCEPT ![s] = Loaded(disk)] /\ UNCHANGED unsaved
  \/ read' = [read EXCEPT ![s] = <<>>] /\ unsaved' = (unsaved \/ Loaded(disk) # <<>>)

\* What the call has read is not what the file says now, and not for a failed read.
OutOfDate(s) == read[s] # Loaded(disk) /\ ~(unsaved /\ read[s] = <<>>)

(* The saves that have begun: of copies, and of what ensure_id has read. *)
BeingSaved ==
  (UNION {saving[k] : k \in writing})
    \cup {read[s] : s \in {t \in Starts : start[t] = "saving"}}

Store == INSTANCE AtomicStore WITH
           Lists <- Storable, stored <- disk, pending <- BeingSaved

\* The end of an overlapping save: what its calls did to the file they have done.
Done == UNCHANGED disk /\ Store!Muddle

NothingInFlight ==
  /\ \A k \in Keys : saving[k] = {}
  /\ \A s \in Starts : start[s] = "idle"

-----------------------------------------------------------------------------
(* receiver_start *)

At(s, await) == start[s] = await
Go(s, await) == start' = [start EXCEPT ![s] = await]

(* With a server up the call only answers, so that case is no step. *)
StartCheck(s) ==
  /\ At(s, "idle") /\ handle = None
  /\ Go(s, "loading")
  /\ UNCHANGED <<server, conns, slot, devices, file, read, saving, fate, unsaved, history>>

LoadDevices(s) ==
  /\ At(s, "loading")
  /\ ReadFile(s)
  /\ Go(s, "loaded")
  /\ UNCHANGED <<server, conns, slot, devices, file, saving, fate, history>>

AssignDevices(s) ==
  /\ At(s, "loaded")
  /\ devices' = read[s]
  /\ read' = [read EXCEPT ![s] = <<>>]
  /\ Go(s, "naming")
  /\ unsaved' = (unsaved /\ read[s] # Loaded(disk))
  /\ raced' = (raced \/ OutOfDate(s) \/ order # <<>>)
  /\ UNCHANGED <<server, conns, slot, file, saving, fate, order>>

(* ensure_id: without a file, or with one that has no id or cannot be read,  *)
(* it makes an id and saves the list it read; whether that succeeds it does  *)
(* not ask.                                                                  *)
FindId(s) ==
  /\ At(s, "naming") /\ disk # NoFile
  /\ Go(s, "named")
  /\ UNCHANGED <<server, conns, slot, devices, file, read, saving, fate, unsaved, history>>

MissIdRemovesFile(s) ==
  /\ At(s, "naming")
  /\ ReadFile(s)
  /\ disk' = NoFile
  /\ Go(s, "unnamed")
  /\ UNCHANGED <<server, conns, slot, devices, writing, overlapped, saving, fate, history>>
MissId(s) ==
  /\ At(s, "naming")
  /\ ReadFile(s)
  /\ Go(s, "unnamed")
  /\ UNCHANGED <<server, conns, slot, devices, file, saving, fate, history>>

BeginId(s) ==
  /\ At(s, "unnamed")
  /\ Go(s, "saving")
  /\ raced' = (raced \/ BeingSaved # {})
  /\ UNCHANGED <<server, conns, slot, devices, writing, read, saving, fate, unsaved, order>>
  /\ Store!BeginSave(read[s])

IdSaved(s) ==
  /\ At(s, "saving")
  /\ Go(s, "named")
  /\ read' = [read EXCEPT ![s] = <<>>]
  /\ raced' = (raced \/ OutOfDate(s))
  /\ UNCHANGED <<server, conns, slot, devices, writing, saving, fate, unsaved, order>>
  /\ Store!Commit(read[s]) \/ Done

(* A rename also fails if another save has renamed the file away. *)
IdFails(s) ==
  /\ At(s, "saving") /\ (SavesFail \/ overlapped)
  /\ Go(s, "named")
  /\ read' = [read EXCEPT ![s] = <<>>]
  /\ UNCHANGED <<server, conns, slot, devices, writing, saving, fate, unsaved, history>>
  /\ Store!Abort(read[s]) \/ Done

(* A new PairingState, then ensure_server_started looks at the handle. *)
OpenPairing(s) ==
  /\ At(s, "named")
  /\ slot' = TRUE
  /\ Go(s, IF handle = None THEN "binding" ELSE "idle")
  /\ UNCHANGED <<server, conns, devices, file, read, saving, fate, unsaved, history>>

(* start_server: from here on the accept loop runs. *)
Bind(s) ==
  /\ At(s, "binding")
  /\ accepting' = accepting \cup {s}
  /\ Go(s, "bound")
  /\ UNCHANGED <<handle, conns, slot, devices, file, read, saving, fate, unsaved, history>>

BindFails(s) ==
  /\ At(s, "binding")
  /\ Go(s, "idle")
  /\ UNCHANGED <<server, conns, slot, devices, file, read, saving, fate, unsaved, history>>

(* The second look at the handle: a call that lost the race shuts its spare *)
(* listener down.                                                           *)
InstallAnyway(s) ==
  /\ At(s, "bound")
  /\ handle' = s /\ UNCHANGED accepting
  /\ Go(s, "idle")
  /\ UNCHANGED <<conns, slot, devices, file, read, saving, fate, unsaved, history>>
Install(s) ==
  /\ At(s, "bound")
  /\ IF handle = None THEN handle' = s /\ UNCHANGED accepting
     ELSE accepting' = accepting \ {s} /\ UNCHANGED handle
  /\ Go(s, "idle")
  /\ UNCHANGED <<conns, slot, devices, file, read, saving, fate, unsaved, history>>

-----------------------------------------------------------------------------
(* receiver_stop: the accept loop ends, open connections do not. *)
StopKeepsListener ==
  /\ handle # None \/ slot
  /\ handle' = None
  /\ slot' = FALSE
  /\ UNCHANGED <<accepting, conns, devices, file, start, read, saving, fate, unsaved, history>>
Stop ==
  /\ handle # None \/ slot
  /\ accepting' = accepting \ {handle}
  /\ handle' = None
  /\ slot' = FALSE
  /\ UNCHANGED <<conns, devices, file, start, read, saving, fate, unsaved, history>>

-----------------------------------------------------------------------------
(* Senders *)

Connect(k) ==
  /\ accepting # {} /\ k \notin conns /\ Cardinality(conns) < MaxConns
  /\ conns' = conns \cup {k}
  /\ UNCHANGED <<server, slot, devices, file, start, read, saving, fate, unsaved, history>>

Disconnect(k) ==
  /\ k \in conns
  /\ conns' = conns \ {k}
  /\ UNCHANGED <<server, slot, devices, file, start, read, saving, fate, unsaved, history>>

(* evict_oldest_if_over_capacity: the list is in order of created_at. *)
EvictNever(list) == list
Evict(list) == IF Len(list) > MaxPaired THEN Tail(list) ELSE list

(* The right code, on an open connection: see PairingCode.RightAttempt. *)
PairCopiedEarly(k) ==
  /\ k \in conns /\ slot /\ fate[k] = "new"
  /\ devices' = Evict(Append(devices, k))
  /\ saving' = [saving EXCEPT ![k] = {devices}]
  /\ fate' = [fate EXCEPT ![k] = "pairing"]
  /\ order' = Append(order, k)
  /\ UNCHANGED <<server, conns, slot, file, start, read, unsaved, raced>>
Pair(k) ==
  /\ k \in conns /\ slot /\ fate[k] = "new"
  /\ devices' = Evict(Append(devices, k))
  /\ saving' = [saving EXCEPT ![k] = {devices'}]
  /\ fate' = [fate EXCEPT ![k] = "pairing"]
  /\ order' = Append(order, k)
  /\ UNCHANGED <<server, conns, slot, file, start, read, unsaved, raced>>

(* Any code against an empty slot: get_or_insert_with fills it. *)
PairNoSlot(k) ==
  /\ k \in conns /\ ~slot
  /\ slot' = TRUE
  /\ UNCHANGED <<server, conns, devices, file, start, read, saving, fate, unsaved, history>>

-----------------------------------------------------------------------------
(* receiver_revoke_device.  A key is on the list at most once. *)
Without(list, i) == SubSeq(list, 1, i - 1) \o SubSeq(list, i + 1, Len(list))

RevokeUnsaved(k) ==
  /\ saving[k] = {}
  /\ \E i \in 1..Len(devices) : devices[i] = k /\ devices' = Without(devices, i)
  /\ saving' = [saving EXCEPT ![k] = {devices}]
  /\ fate' = [fate EXCEPT ![k] = "revoking"]
  /\ order' = Append(order, k)
  /\ UNCHANGED <<server, conns, slot, file, start, read, unsaved, raced>>
Revoke(k) ==
  /\ saving[k] = {}
  /\ \E i \in 1..Len(devices) : devices[i] = k /\ devices' = Without(devices, i)
  /\ saving' = [saving EXCEPT ![k] = {devices'}]
  /\ fate' = [fate EXCEPT ![k] = "revoking"]
  /\ order' = Append(order, k)
  /\ UNCHANGED <<server, conns, slot, file, start, read, unsaved, raced>>

(* persist_devices runs on a thread of its own, which may begin any time. *)
BeginWrite(k) ==
  /\ saving[k] # {} /\ k \notin writing
  /\ writing' = writing \cup {k}
  /\ raced' = (raced \/ BeingSaved # {})
  /\ UNCHANGED <<server, conns, slot, devices, start, read, saving, fate, unsaved, order>>
  /\ \E list \in saving[k] : Store!BeginSave(list)

(* persist_devices is done: the answer says so.  A pairing answers 200 even *)
(* when the write failed, a revocation does not.                            *)
Told(k, ok) ==
  CASE fate[k] = "pairing" -> "paired"
    [] fate[k] = "revoking" -> IF ok THEN "revoked" ELSE "failed"
    [] OTHER -> fate[k]

\* The copy of k is dealt with; in turn, if it was the oldest on its way.
Leave(k) ==
  \E i \in 1..Len(order) :
    /\ order[i] = k
    /\ order' = Without(order, i)
    /\ raced' = (raced \/ i > 1)

EndWrite(k, ok) ==
  /\ k \in writing
  /\ writing' = writing \ {k}
  /\ saving' = [saving EXCEPT ![k] = {}]
  /\ fate' = [fate EXCEPT ![k] = Told(k, ok)]
  /\ unsaved' = ~ok
  /\ Leave(k)
  /\ UNCHANGED <<server, conns, slot, devices, start, read>>

Saved(k) ==
  /\ EndWrite(k, TRUE)
  /\ Done \/ \E list \in saving[k] : Store!Commit(list)

SaveFails(k) ==
  /\ SavesFail \/ overlapped
  /\ EndWrite(k, FALSE)
  /\ Done \/ \E list \in saving[k] : Store!Abort(list)

(* A call of an overlapping save: a load would then find a list that was once *)
(* saved, of devices that have paired, or none.                               *)
Tangle ==
  /\ overlapped
  /\ UNCHANGED <<server, conns, slot, devices, writing, start, read, saving, fate, unsaved, history>>
  /\ Store!Muddle
  /\ \A k \in Listed(Loaded(disk')) : fate[k] # "new"

-----------------------------------------------------------------------------
(* The app ends or is killed, at any point: only the file is left. *)
Restart ==
  /\ handle' = None /\ accepting' = {} /\ conns' = {}
  /\ slot' = FALSE
  /\ devices' = <<>>
  /\ start' = [s \in Starts |-> "idle"]
  /\ read' = [s \in Starts |-> <<>>]
  /\ saving' = [k \in Keys |-> {}]
  /\ unsaved' = FALSE
  /\ order' = <<>>
  /\ writing' = {}
  /\ UNCHANGED <<fate, raced>>
  /\ Store!Die

Init ==
  /\ handle = None /\ accepting = {} /\ conns = {}
  /\ slot = FALSE
  /\ devices = <<>> /\ disk = NoFile
  /\ writing = {} /\ overlapped = FALSE
  /\ start = [s \in Starts |-> "idle"]
  /\ read = [s \in Starts |-> <<>>]
  /\ saving = [k \in Keys |-> {}]
  /\ fate = [k \in Keys |-> "new"]
  /\ unsaved = FALSE
  /\ order = <<>> /\ raced = FALSE

Next ==
  \/ \E s \in Starts :
       \/ StartCheck(s) \/ LoadDevices(s) \/ AssignDevices(s)
       \/ FindId(s) \/ MissId(s) \/ BeginId(s) \/ IdSaved(s) \/ IdFails(s)
       \/ OpenPairing(s) \/ Bind(s) \/ BindFails(s) \/ Install(s)
  \/ Stop
  \/ \E k \in Keys :
       \/ Connect(k) \/ Disconnect(k) \/ Pair(k) \/ PairNoSlot(k)
       \/ Revoke(k) \/ BeginWrite(k) \/ Saved(k) \/ SaveFails(k)
  \/ Tangle
  \/ Restart

Spec == Init /\ [][Next]_vars

-----------------------------------------------------------------------------
(* Properties *)

DeviceLists == {list \in Seq(Keys) : Len(list) <= MaxPaired}

\* Types of ReceiverState, ReceiverShared and of the calls in flight; no list in
\* memory, on disk or on its way there is longer than MAX_PAIRED_DEVICES.
TypeOK ==
  /\ handle \in Starts \cup {None}
  /\ accepting \subseteq Starts
  /\ conns \subseteq Keys
  /\ slot \in BOOLEAN /\ unsaved \in BOOLEAN
  /\ devices \in DeviceLists
  /\ disk \in DeviceLists \cup {NoFile}
  /\ writing \subseteq Keys /\ overlapped \in BOOLEAN
  /\ start \in [Starts -> Awaits]
  /\ read \in [Starts -> DeviceLists]
  /\ saving \in [Keys -> SUBSET DeviceLists]
  /\ fate \in [Keys -> Fates]
  /\ order \in Seq(Keys) /\ raced \in BOOLEAN

\* "Lost a startup race against a concurrent receiver_start call; drop the spare
\* listener" (receiver.rs:1563): a port is only held by the server in charge or
\* by a call that is about to hand it over or let it go.
OneListener ==
  accepting = (IF handle = None THEN {} ELSE {handle})
              \cup {s \in Starts : start[s] = "bound"}

\* What the device list says is what a restart would say: with the server up and
\* nothing in flight, memory and disk agree, wherever an earlier run was killed,
\* unless the last write failed, or a start could not read the file and took the
\* list for empty (receiver_store.rs:72, 100), and nothing was written since.
\* Saves that overlap, copies that overtake one another, and a start that meets a
\* save are all that can come in between otherwise.
ListsAgree ==
  ~raced /\ ~unsaved /\ NothingInFlight /\ handle # None => devices = Loaded(disk)

\* "Remove {deviceName}? It will need to pair again" (i18n/en.json:1678): once
\* the removal has been confirmed the device is not on the list any more, unless
\* saves or starts have overlapped or overtaken one another.  A file that could not
\* be read brings no device back.
RevokedStaysOut ==
  ~raced => \A k \in Keys : fate[k] = "revoked" => k \notin Listed(devices)

\* receiver.json changes as a store of whole lists does (receiver_store.rs:87), and
\* the server relies on nothing else: whatever stands between changing the list and
\* saving it, a save that has begun ends, fails or dies, and only an overlap may tangle.
FileIsStore == Store!Spec

\* A save that has begun and overlapped none is the only one, so that it can end.
SavesCanEnd ==
  ~overlapped => /\ \A k \in writing : saving[k] = BeingSaved /\ saving[k] # {}
                 /\ \A s \in Starts : start[s] = "saving" => BeingSaved = {read[s]}
=============================================================================

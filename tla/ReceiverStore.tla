---------------------------- MODULE ReceiverStore ----------------------------
(***************************************************************************)
(* The file {app_config_dir}/receiver.json: save, load and ensure_id of    *)
(* src-tauri/src/receiver_store.rs, run by spawn_blocking on threads of    *)
(* their own (persist_devices, load_devices, ensure_receiver_id).          *)
(*                                                                         *)
(* save is three system calls: open the temporary file and truncate it,    *)
(* write it, rename it over the store.  Every save uses the same temporary *)
(* name.  A file is an inode here, because a rename moves the inode and a  *)
(* writer that still holds it goes on writing into the store.              *)
(***************************************************************************)
EXTENDS Naturals

CONSTANTS
  Savers,      \* threads that can be inside save at one time
  Files,       \* inodes
  Lists,       \* device lists worth saving
  Size,        \* the bytes each list takes as JSON
  NoFile       \* no file of that name

ASSUME StoreAssumption ==
  /\ Lists # {} /\ Files # {}
  /\ Size \in [Lists -> Nat \ {0}]
  /\ NoFile \notin Files \cup Lists

Empty == "empty"      \* just truncated
Mixed == "mixed"      \* a piece of a list, or one written over the start of a longer one
Contents == Lists \cup {Empty, Mixed}

ASSUME ContentsAssumption == {Empty, Mixed} \cap (Lists \cup {NoFile}) = {}

VARIABLES
  pc,        \* per saver: "idle", "write" (open and truncated) or "rename"
  list,      \* per saver: the list it saves
  handle,    \* per saver: the inode it has open
  content,   \* per inode: what is in it
  temp,      \* the inode receiver.json.tmp names, or NoFile
  store,     \* the inode receiver.json names, or NoFile
  loaded,    \* has the app read the store since it was started?
  overlapped \* history: has a save begun amid another, and some have been at work since?

vars == <<pc, list, handle, content, temp, store, loaded, overlapped>>

InSave == {s \in Savers : pc[s] # "idle"}

(* An inode that no name and no writer holds any more. *)
Free == Files \ ({temp, store} \cup {handle[s] : s \in InSave})

(* fs::write opens the temporary file: the one that is there, or a new one. *)
BeginSaveInPlace(s, l) ==
  /\ loaded
  /\ pc[s] = "idle"
  /\ \E f \in IF store = NoFile THEN Free ELSE {store} :
       /\ temp' = f
       /\ handle' = [handle EXCEPT ![s] = f]
       /\ content' = [content EXCEPT ![f] = Empty]
  /\ list' = [list EXCEPT ![s] = l]
  /\ pc' = [pc EXCEPT ![s] = "write"]
  /\ overlapped' = (overlapped \/ InSave # {})
  /\ UNCHANGED <<store, loaded>>
BeginSave(s, l) ==
  /\ loaded
  /\ pc[s] = "idle"
  /\ \E f \in IF temp = NoFile THEN Free ELSE {temp} :
       /\ temp' = f
       /\ handle' = [handle EXCEPT ![s] = f]
       /\ content' = [content EXCEPT ![f] = Empty]
  /\ list' = [list EXCEPT ![s] = l]
  /\ pc' = [pc EXCEPT ![s] = "write"]
  /\ overlapped' = (overlapped \/ InSave # {})
  /\ UNCHANGED <<store, loaded>>

(* Writing l over what the inode holds: whatever is longer shows its tail. *)
Overwritten(old, l) ==
  IF old = Empty THEN l
  ELSE IF old \in Lists /\ Size[old] <= Size[l] THEN l
  ELSE Mixed

(* ... and writes it, from the start of the file. *)
Write(s) ==
  /\ pc[s] = "write"
  /\ content' = [content EXCEPT ![handle[s]] = Overwritten(@, list[s])]
  /\ pc' = [pc EXCEPT ![s] = "rename"]
  /\ UNCHANGED <<list, handle, temp, store, loaded, overlapped>>

End(s) ==
  /\ pc' = [pc EXCEPT ![s] = "idle"]
  /\ overlapped' = (overlapped /\ InSave # {s})

(* fs::rename: without a temporary file it fails, and the save with it. *)
Rename(s) ==
  /\ pc[s] = "rename"
  /\ IF temp = NoFile THEN UNCHANGED <<store, temp>>
     ELSE store' = temp /\ temp' = NoFile
  /\ End(s)
  /\ UNCHANGED <<list, handle, content, loaded>>

(* A call fails, the disk being full or gone: a write leaves what was there or *)
(* a piece of the list, a rename leaves the temporary file.  The open that     *)
(* fails has done nothing and is no step.                                      *)
Fail(s) ==
  /\ pc[s] # "idle"
  /\ \/ UNCHANGED content
     \/ pc[s] = "write" /\ content' = [content EXCEPT ![handle[s]] = Mixed]
  /\ End(s)
  /\ UNCHANGED <<list, handle, temp, store, loaded>>

(* The app is killed: its threads are gone, the files are as they were. *)
Crash ==
  /\ loaded
  /\ pc' = [s \in Savers |-> "idle"]
  /\ loaded' = FALSE /\ overlapped' = FALSE
  /\ UNCHANGED <<list, handle, content, temp, store>>

Readable(f) == f # NoFile /\ content[f] \in Lists

(* load: a store that does not parse is renamed away and read as no device. *)
Load ==
  /\ store' = IF Readable(store) THEN store ELSE NoFile
  /\ loaded' = TRUE
  /\ UNCHANGED <<pc, list, handle, content, temp, overlapped>>

(* A store an earlier session left, a damaged one or none. *)
Init ==
  /\ pc = [s \in Savers |-> "idle"]
  /\ list \in [Savers -> Lists] /\ handle \in [Savers -> Files]  \* not yet in use
  /\ \E c \in Lists \cup {Mixed} : content = [f \in Files |-> c]
  /\ temp = NoFile
  /\ store \in Files \cup {NoFile}
  /\ loaded = FALSE /\ overlapped = FALSE

Next ==
  \/ \E s \in Savers :
       \/ \E l \in Lists : BeginSave(s, l)
       \/ Write(s) \/ Rename(s) \/ Fail(s)
  \/ Crash
  \/ Load

Spec == Init /\ [][Next]_vars

-----------------------------------------------------------------------------
(* Properties *)

\* Types of the file names, the inodes and the writers (receiver_store.rs:88-96).
TypeOK ==
  /\ pc \in [Savers -> {"idle", "write", "rename"}]
  /\ list \in [Savers -> Lists]
  /\ handle \in [Savers -> Files]
  /\ content \in [Files -> Contents]
  /\ temp \in Files \cup {NoFile}
  /\ store \in Files \cup {NoFile}
  /\ loaded \in BOOLEAN /\ overlapped \in BOOLEAN

Whole == store # NoFile => Readable(store)

\* "Temp file + rename: a crash mid-write can't truncate the store"
\* (receiver_store.rs:87): no call of a save, no failure and no crash makes a torn
\* file of the store for the next session to find, except while saves overlap.
StoreStaysWhole == [][Whole /\ ~overlapped => Whole']_vars

(* The list a load would read. *)
Stored == IF Readable(store) THEN content[store] ELSE NoFile

Atomic == INSTANCE AtomicStore WITH
            stored <- Stored, pending <- {list[s] : s \in InSave}

\* A save is atomic, unless it overlaps another: whatever order its system calls and
\* a crash or a failure come in, the list on disk changes at one moment and as a
\* whole; what overlapping saves have muddled is whole or not there, and the save
\* after the last of them is atomic again (receiver_store.rs:87).
SavesAreAtomic == Atomic!Spec
=============================================================================

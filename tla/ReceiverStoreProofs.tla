-------------------------- MODULE ReceiverStoreProofs --------------------------
(***************************************************************************)
(* Proofs about the store of paired devices, for any lists, sizes, inodes  *)
(* and threads.  Two saves that overlap share the temporary file and can   *)
(* tear the store; the theorems say that nothing else can, that even then  *)
(* the next session reads a whole list or none, and that a save is atomic  *)
(* again as soon as they have ended.                                       *)
(*                                                                         *)
(* The temporary file is never the store.  Unless saves overlap there is   *)
(* one writer, and the invariant says where it is: its handle is the       *)
(* temporary file, which is empty until it is written and holds the list   *)
(* afterwards.                                                             *)
(***************************************************************************)
EXTENDS ReceiverStore, TLAPS

OneWriter == \A s, t \in InSave : s = t

WriterAtWork ==
  \A s \in Savers :
    /\ pc[s] \in {"write", "rename"} => loaded /\ temp = handle[s]
    /\ pc[s] = "write" => content[handle[s]] = Empty
    /\ pc[s] = "rename" => content[handle[s]] = list[s]

NamesApart == temp # NoFile => temp # store

InTurn == ~overlapped => OneWriter /\ WriterAtWork

IInv == TypeOK /\ NamesApart /\ InTurn

LEMMA Distinct == Empty \notin Lists /\ Mixed \notin Lists /\ NoFile \notin Lists /\ NoFile \notin Files
  BY StoreAssumption, ContentsAssumption

LEMMA InitHolds == Init => IInv
<1> SUFFICES ASSUME Init PROVE IInv
  OBVIOUS
<1>1. TypeOK
  BY DEF Init, TypeOK, Contents
<1>2. OneWriter /\ WriterAtWork /\ NamesApart
  BY DEF Init, OneWriter, InSave, WriterAtWork, NamesApart
<1> QED
  BY <1>1, <1>2 DEF IInv, InTurn

-----------------------------------------------------------------------------
(* Types and names, whatever overlaps. *)

LEMMA TypesKeep == TypeOK /\ NamesApart /\ [Next]_vars => TypeOK' /\ NamesApart'
<1> SUFFICES ASSUME TypeOK, NamesApart, [Next]_vars PROVE TypeOK' /\ NamesApart'
  OBVIOUS
<1> USE Distinct DEF TypeOK, Contents, NamesApart
<1>1. ASSUME NEW s \in Savers, NEW l \in Lists, BeginSave(s, l)
      PROVE  TypeOK' /\ NamesApart'
  <2>1. PICK f \in IF temp = NoFile THEN Free ELSE {temp} :
          /\ temp' = f
          /\ handle' = [handle EXCEPT ![s] = f]
          /\ content' = [content EXCEPT ![f] = Empty]
    BY <1>1 DEF BeginSave
  <2>2. f \in Files /\ f # store
    BY <2>1 DEF Free
  <2>3. /\ list' = [list EXCEPT ![s] = l] /\ pc' = [pc EXCEPT ![s] = "write"]
        /\ overlapped' \in BOOLEAN /\ UNCHANGED <<store, loaded>>
    BY <1>1 DEF BeginSave
  <2> QED
    BY <2>1, <2>2, <2>3
<1>2. ASSUME NEW s \in Savers, Write(s) PROVE TypeOK' /\ NamesApart'
  <2>1. Overwritten(content[handle[s]], list[s]) \in Contents
    BY DEF Overwritten
  <2> QED
    BY <1>2, <2>1 DEF Write
<1>3. ASSUME NEW s \in Savers, Rename(s) PROVE TypeOK' /\ NamesApart'
  BY <1>3 DEF Rename, End
<1>4. ASSUME NEW s \in Savers, Fail(s) PROVE TypeOK' /\ NamesApart'
  BY <1>4 DEF Fail, End
<1>5. ASSUME Crash \/ Load \/ UNCHANGED vars PROVE TypeOK' /\ NamesApart'
  BY <1>5 DEF Crash, Load, vars
<1> QED
  BY <1>1, <1>2, <1>3, <1>4, <1>5 DEF Next

-----------------------------------------------------------------------------
(* The one writer, unless saves overlap. *)

LEMMA TurnsKeep == IInv /\ [Next]_vars => InTurn'
<1> SUFFICES ASSUME IInv, [Next]_vars, ~overlapped'
             PROVE  OneWriter' /\ WriterAtWork'
  BY DEF InTurn
<1> USE Distinct DEF IInv, TypeOK, Contents
<1>b. ASSUME ~overlapped PROVE OneWriter /\ WriterAtWork
  BY <1>b DEF InTurn
<1>1. ASSUME NEW s \in Savers, NEW l \in Lists, BeginSave(s, l)
      PROVE  OneWriter' /\ WriterAtWork'
  <2>1. InSave = {} /\ loaded /\ UNCHANGED <<store, loaded>>
    BY <1>1 DEF BeginSave
  <2>2. \A t \in Savers : pc[t] = "idle"
    BY <2>1 DEF InSave
  <2>3. PICK f \in IF temp = NoFile THEN Free ELSE {temp} :
          /\ temp' = f
          /\ handle' = [handle EXCEPT ![s] = f]
          /\ content' = [content EXCEPT ![f] = Empty]
    BY <1>1 DEF BeginSave
  <2>4. f \in Files
    BY <2>3 DEF Free
  <2>5. list' = [list EXCEPT ![s] = l] /\ pc' = [pc EXCEPT ![s] = "write"]
    BY <1>1 DEF BeginSave
  <2>6. OneWriter'
    BY <2>2, <2>5 DEF OneWriter, InSave
  <2>7. WriterAtWork'
    BY <2>1, <2>2, <2>3, <2>4, <2>5 DEF WriterAtWork
  <2> QED
    BY <2>6, <2>7
<1>2. ASSUME NEW s \in Savers, Write(s) PROVE OneWriter' /\ WriterAtWork'
  <2>1. /\ pc[s] = "write" /\ pc' = [pc EXCEPT ![s] = "rename"] /\ ~overlapped
        /\ content' = [content EXCEPT ![handle[s]] = Overwritten(@, list[s])]
        /\ UNCHANGED <<list, handle, temp, loaded>>
    BY <1>2 DEF Write
  <2>2. \A t \in Savers : t # s => pc[t] = "idle"
    BY <1>b, <2>1 DEF OneWriter, InSave
  <2>3. content[handle[s]] = Empty /\ temp = handle[s] /\ loaded
    BY <1>b, <2>1 DEF WriterAtWork
  <2>4. content' = [content EXCEPT ![handle[s]] = list[s]]
    BY <2>1, <2>3 DEF Overwritten
  <2>5. OneWriter'
    BY <2>1, <2>2 DEF OneWriter, InSave
  <2>6. WriterAtWork'
    BY <2>1, <2>2, <2>3, <2>4 DEF WriterAtWork
  <2> QED
    BY <2>5, <2>6
<1>3. ASSUME NEW s \in Savers, Rename(s) \/ Fail(s) PROVE OneWriter' /\ WriterAtWork'
  <2>1. pc' = [pc EXCEPT ![s] = "idle"] /\ s \in InSave /\ (~overlapped \/ InSave = {s})
    BY <1>3 DEF Rename, Fail, End, InSave
  <2>2. InSave = {s}
    BY <1>b, <2>1 DEF OneWriter
  <2>3. \A t \in Savers : pc'[t] = "idle"
    BY <2>1, <2>2 DEF InSave
  <2> QED
    BY <2>3 DEF OneWriter, InSave, WriterAtWork
<1>4. ASSUME Crash PROVE OneWriter' /\ WriterAtWork'
  BY <1>4 DEF Crash, OneWriter, InSave, WriterAtWork
<1>5. ASSUME Load PROVE OneWriter' /\ WriterAtWork'
  BY <1>5, <1>b DEF Load, OneWriter, InSave, WriterAtWork
<1>6. ASSUME UNCHANGED vars PROVE OneWriter' /\ WriterAtWork'
  BY <1>6, <1>b DEF vars, OneWriter, InSave, WriterAtWork
<1> QED
  BY <1>1, <1>2, <1>3, <1>4, <1>5, <1>6 DEF Next

LEMMA Always == Spec => []IInv
<1>1. IInv /\ [Next]_vars => IInv'
  BY TypesKeep, TurnsKeep DEF IInv
<1> QED
  BY <1>1, InitHolds, PTL DEF Spec

\* The names, inodes and writers keep their types, whatever overlaps
\* (receiver_store.rs:88-96).
THEOREM TypeCorrect == Spec => []TypeOK
<1>1. IInv => TypeOK
  BY DEF IInv
<1> QED
  BY <1>1, Always, PTL

LEMMA StaysWhole == IInv /\ Whole /\ ~overlapped /\ [Next]_vars => Whole'
<1> SUFFICES ASSUME IInv, Whole, ~overlapped, [Next]_vars PROVE Whole'
  OBVIOUS
<1> USE Distinct DEF IInv, TypeOK, Contents, Whole
<1>b. OneWriter /\ WriterAtWork
  BY DEF InTurn
<1>1. ASSUME NEW s \in Savers, NEW l \in Lists, BeginSave(s, l) PROVE Whole'
  <2>1. PICK f \in IF temp = NoFile THEN Free ELSE {temp} :
          content' = [content EXCEPT ![f] = Empty]
    BY <1>1 DEF BeginSave
  <2>2. f # store /\ store' = store
    BY <1>1, <2>1 DEF Free, NamesApart, BeginSave
  <2> QED
    BY <2>1, <2>2 DEF Readable
<1>2. ASSUME NEW s \in Savers, Write(s) \/ Fail(s) PROVE Whole'
  <2>1. handle[s] # store /\ store' = store
    BY <1>2, <1>b DEF Write, Fail, WriterAtWork, NamesApart
  <2>2. store # NoFile => content'[store] = content[store]
    BY <1>2, <2>1 DEF Write, Fail
  <2> QED
    BY <2>1, <2>2 DEF Readable
<1>3. ASSUME NEW s \in Savers, Rename(s) PROVE Whole'
  <2>1. content[handle[s]] = list[s] /\ temp = handle[s] /\ content' = content
    BY <1>3, <1>b DEF Rename, WriterAtWork
  <2>2. store' = handle[s]
    BY <1>3, <2>1 DEF Rename
  <2> QED
    BY <2>1, <2>2 DEF Readable
<1>4. ASSUME Crash \/ Load \/ UNCHANGED vars PROVE Whole'
  BY <1>4 DEF Crash, Load, vars, Readable
<1> QED
  BY <1>1, <1>2, <1>3, <1>4 DEF Next

\* No call of a save, no failure and no crash makes a torn file of a whole store:
\* only the calls of saves that overlap can (receiver_store.rs:87).
THEOREM WholeStoreStaysWhole == Spec => StoreStaysWhole
<1>1. IInv /\ [Next]_vars => [Whole /\ ~overlapped => Whole']_vars
  BY StaysWhole
<1> QED
  BY <1>1, Always, PTL DEF Spec, StoreStaysWhole

-----------------------------------------------------------------------------
(* The three system calls implement one atomic save. *)

Pending == {list[s] : s \in InSave}

LEMMA InitMaps == Init => Atomic!Init
<1> SUFFICES ASSUME Init PROVE Atomic!Init
  OBVIOUS
<1>1. InSave = {}
  BY DEF Init, InSave
<1>2. Stored \in Lists \cup {NoFile}
  BY DEF Stored, Readable
<1> QED
  BY <1>1, <1>2 DEF Init, Atomic!Init

\* Whatever saves overlapping make of the store, a load reads a list or none.
LEMMA Muddled ==
  ASSUME overlapped, UNCHANGED list, InSave' \subseteq InSave,
         overlapped' = (InSave' # {})
  PROVE  Atomic!Muddle
<1>1. Stored' \in Lists \cup {NoFile}
  BY DEF Stored, Readable
<1>2. Pending' \subseteq Pending
  BY DEF Pending
<1>3. InSave' # {} <=> Pending' # {}
  <2>1. \A s \in InSave' : list'[s] \in Pending'
    BY DEF Pending
  <2> QED
    BY <2>1 DEF Pending
<1> QED
  BY <1>1, <1>2, <1>3 DEF Atomic!Muddle, Pending

LEMMA StepMaps ==
  IInv /\ [Next]_vars => [Atomic!Next]_<<Stored, Pending, overlapped>>
<1> SUFFICES ASSUME IInv, [Next]_vars
             PROVE  Atomic!Next \/ UNCHANGED <<Stored, Pending, overlapped>>
  BY DEF Pending
<1> USE Distinct DEF IInv, TypeOK, Contents
<1>b. ASSUME ~overlapped PROVE OneWriter /\ WriterAtWork
  BY <1>b DEF InTurn
<1>1. ASSUME NEW s \in Savers, NEW l \in Lists, BeginSave(s, l) PROVE Atomic!Next
  <2>1. /\ pc[s] = "idle" /\ pc' = [pc EXCEPT ![s] = "write"]
        /\ list' = [list EXCEPT ![s] = l]
        /\ overlapped' = (overlapped \/ InSave # {})
        /\ UNCHANGED store
    BY <1>1 DEF BeginSave
  <2>2. InSave' = InSave \cup {s} /\ s \notin InSave
    BY <2>1 DEF InSave
  <2>3. Pending' = Pending \cup {l}
    <3>1. list'[s] = l /\ \A t \in InSave : list'[t] = list[t]
      BY <2>1, <2>2 DEF InSave
    <3>2. Pending' = {list'[t] : t \in InSave \cup {s}}
      BY <2>2 DEF Pending
    <3>3. \A x : x \in Pending' => x \in Pending \cup {l}
      BY <3>1, <3>2 DEF Pending
    <3>4. \A x : x \in Pending => x \in Pending'
      BY <3>1, <3>2 DEF Pending
    <3>5. l \in Pending'
      BY <3>1, <3>2
    <3> QED
      BY <3>3, <3>4, <3>5
  <2>4. InSave = {} <=> Pending = {}
    <3>1. \A t \in InSave : list[t] \in Pending
      BY DEF Pending
    <3> QED
      BY <3>1 DEF Pending
  <2>5. PICK f \in IF temp = NoFile THEN Free ELSE {temp} :
          content' = [content EXCEPT ![f] = Empty]
    BY <1>1 DEF BeginSave
  <2>6. f # store
    BY <2>5 DEF Free, NamesApart
  <2>7. UNCHANGED Stored
    BY <2>1, <2>5, <2>6 DEF Stored, Readable
  <2>8. Atomic!BeginSave(l)
    BY <2>1, <2>3, <2>4, <2>7 DEF Atomic!BeginSave, Pending
  <2> QED
    BY <2>8 DEF Atomic!Next
<1>2. ASSUME NEW s \in Savers, Write(s)
      PROVE  Atomic!Next \/ UNCHANGED <<Stored, Pending, overlapped>>
  <2>1. /\ pc[s] = "write" /\ pc' = [pc EXCEPT ![s] = "rename"]
        /\ content' = [content EXCEPT ![handle[s]] = Overwritten(@, list[s])]
        /\ UNCHANGED <<list, store, overlapped>>
    BY <1>2 DEF Write
  <2>2. InSave' = InSave /\ s \in InSave
    BY <2>1 DEF InSave
  <2>3. CASE overlapped
    <3>1. overlapped' = (InSave' # {})
      BY <2>1, <2>2, <2>3
    <3> QED
      BY <2>1, <2>2, <2>3, <3>1, Muddled DEF Atomic!Next
  <2>4. CASE ~overlapped
    <3>1. handle[s] # store
      BY <1>b, <2>1, <2>4 DEF WriterAtWork, NamesApart
    <3>2. UNCHANGED Pending
      BY <2>1, <2>2 DEF Pending
    <3>3. UNCHANGED Stored
      BY <2>1, <3>1 DEF Stored, Readable
    <3> QED
      BY <2>1, <3>2, <3>3
  <2> QED
    BY <2>3, <2>4
<1>3. ASSUME NEW s \in Savers, Rename(s) PROVE Atomic!Next
  <2>1. /\ pc[s] = "rename" /\ pc' = [pc EXCEPT ![s] = "idle"]
        /\ overlapped' = (overlapped /\ InSave # {s})
        /\ UNCHANGED <<list, content>>
    BY <1>3 DEF Rename, End
  <2>2. s \in InSave /\ InSave' = InSave \ {s}
    BY <2>1 DEF InSave
  <2>3. CASE overlapped
    <3>1. overlapped' = (InSave' # {})
      BY <2>1, <2>2, <2>3
    <3> QED
      BY <2>1, <2>2, <2>3, <3>1, Muddled DEF Atomic!Next
  <2>4. CASE ~overlapped
    <3>1. content[handle[s]] = list[s] /\ temp = handle[s]
      BY <1>b, <2>1, <2>4 DEF WriterAtWork
    <3>2. store' = handle[s]
      BY <1>3, <3>1 DEF Rename
    <3>3. Stored' = list[s]
      BY <2>1, <3>1, <3>2 DEF Stored, Readable
    <3>4. InSave = {s} /\ InSave' = {}
      BY <1>b, <2>2, <2>4 DEF OneWriter
    <3>5. Pending = {list[s]} /\ Pending' = {}
      BY <3>4 DEF Pending
    <3>6. PICK l \in Lists : l = list[s]
      OBVIOUS
    <3>7. Atomic!Commit(l)
      BY <2>1, <2>4, <3>3, <3>5, <3>6 DEF Atomic!Commit, Pending
    <3> QED
      BY <3>7 DEF Atomic!Next
  <2> QED
    BY <2>3, <2>4
<1>4. ASSUME Crash PROVE Atomic!Next
  <2>1. /\ UNCHANGED <<list, content, store>> /\ ~overlapped'
        /\ \A s \in Savers : pc'[s] = "idle"
    BY <1>4 DEF Crash
  <2>2. InSave' = {}
    BY <2>1 DEF InSave
  <2>3. Pending' = {} /\ UNCHANGED Stored
    BY <2>1, <2>2 DEF Pending, Stored, Readable
  <2>4. overlapped' = FALSE
    BY <1>4 DEF Crash
  <2>5. Atomic!Die
    BY <2>3, <2>4 DEF Atomic!Die, Pending
  <2> QED
    BY <2>5 DEF Atomic!Next
<1>5. ASSUME Load PROVE UNCHANGED <<Stored, Pending, overlapped>>
  BY <1>5 DEF Load, Stored, Readable, Pending, InSave
<1>6. ASSUME UNCHANGED vars PROVE UNCHANGED <<Stored, Pending, overlapped>>
  BY <1>6 DEF vars, Stored, Readable, Pending, InSave
<1>7. ASSUME NEW s \in Savers, Fail(s) PROVE Atomic!Next
  <2>1. /\ pc[s] # "idle" /\ pc' = [pc EXCEPT ![s] = "idle"]
        /\ overlapped' = (overlapped /\ InSave # {s})
        /\ UNCHANGED <<list, store>>
    BY <1>7 DEF Fail, End
  <2>2. s \in InSave /\ InSave' = InSave \ {s}
    BY <2>1 DEF InSave
  <2>3. CASE overlapped
    <3>1. overlapped' = (InSave' # {})
      BY <2>1, <2>2, <2>3
    <3> QED
      BY <2>1, <2>2, <2>3, <3>1, Muddled DEF Atomic!Next
  <2>4. CASE ~overlapped
    <3>1. handle[s] # store
      BY <1>b, <2>1, <2>4 DEF WriterAtWork, NamesApart
    <3>2. store # NoFile => content'[store] = content[store]
      BY <1>7, <3>1 DEF Fail
    <3>3. UNCHANGED Stored
      BY <2>1, <3>2 DEF Stored, Readable
    <3>4. InSave = {s} /\ InSave' = {}
      BY <1>b, <2>2, <2>4 DEF OneWriter
    <3>5. Pending = {list[s]} /\ Pending' = {}
      BY <3>4 DEF Pending
    <3>6. PICK l \in Lists : l = list[s]
      OBVIOUS
    <3>7. Atomic!Abort(l)
      BY <2>1, <2>4, <3>3, <3>5, <3>6 DEF Atomic!Abort, Pending
    <3> QED
      BY <3>7 DEF Atomic!Next
  <2> QED
    BY <2>3, <2>4
<1> QED
  BY <1>1, <1>2, <1>3, <1>4, <1>5, <1>6, <1>7 DEF Next

\* Opening, writing and renaming the temporary file is one atomic save, crashes
\* and failures included; a save that begins amid another ends the promise until
\* the last of them has ended, and no longer (receiver_store.rs:88-96).
THEOREM StoreIsAtomic == Spec => SavesAreAtomic
  BY Always, InitMaps, StepMaps, PTL DEF Spec, SavesAreAtomic, Atomic!Spec, Pending
=============================================================================

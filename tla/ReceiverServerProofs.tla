------------------------- MODULE ReceiverServerProofs -------------------------
(***************************************************************************)
(* Only the server in charge holds a port, for any number of overlapping   *)
(* receiver_start calls; memory and disk agree, and removed devices stay   *)
(* out, as long as no copy of the list overtakes an older one or is saved  *)
(* while another is, and no start assigns or saves a list amid them; and   *)
(* the file under all this is an AtomicStore.                              *)
(*                                                                         *)
(* OneListener is not inductive: a call that installs its listener while   *)
(* it is itself the handle would shut the server in charge down.  The call *)
(* that became the handle has returned, which is HandleReturned.           *)
(***************************************************************************)
EXTENDS ReceiverServer, SequenceTheorems, TLAPS

HandleReturned ==
  /\ handle \in Starts \cup {None}
  /\ handle # None => start[handle] = "idle"

IInv == start \in [Starts -> Awaits] /\ HandleReturned /\ OneListener

LEMMA InitHolds == Init => IInv
BY ServerAssumption DEF Init, IInv, HandleReturned, OneListener, Awaits

\* A step of a call that neither takes nor gives up a listener.
LEMMA CallKeeps ==
  ASSUME IInv, NEW s \in Starts, NEW await \in Awaits \ {"bound"},
         start[s] # "bound", start[s] # "idle" \/ handle = None,
         start' = [start EXCEPT ![s] = await], UNCHANGED server
  PROVE  IInv'
BY ServerAssumption DEF IInv, HandleReturned, OneListener, Awaits, server

LEMMA StartKeeps ==
  ASSUME IInv, NEW s \in Starts,
         \/ StartCheck(s) \/ LoadDevices(s) \/ AssignDevices(s)
         \/ FindId(s) \/ MissId(s) \/ BeginId(s) \/ IdSaved(s) \/ IdFails(s)
         \/ OpenPairing(s) \/ Bind(s) \/ BindFails(s) \/ Install(s)
  PROVE  IInv'
<1>1. CASE StartCheck(s)
  BY <1>1, CallKeeps DEF StartCheck, At, Go, Awaits
<1>2. CASE LoadDevices(s)
  BY <1>2, CallKeeps DEF LoadDevices, At, Go, Awaits
<1>3. CASE AssignDevices(s)
  BY <1>3, CallKeeps DEF AssignDevices, At, Go, Awaits
<1>4. CASE OpenPairing(s)
  BY <1>4, CallKeeps DEF OpenPairing, At, Go, Awaits
<1>5. CASE Bind(s)
  BY <1>5, ServerAssumption DEF Bind, At, Go, IInv, HandleReturned, OneListener, Awaits
<1>6. CASE BindFails(s)
  BY <1>6, CallKeeps DEF BindFails, At, Go, Awaits
<1>7. CASE Install(s)
  BY <1>7, ServerAssumption DEF Install, At, Go, IInv, HandleReturned, OneListener, Awaits
<1>8. CASE FindId(s)
  BY <1>8, CallKeeps DEF FindId, At, Go, Awaits
<1>9. CASE MissId(s)
  BY <1>9, CallKeeps DEF MissId, At, Go, Awaits
<1>10. CASE BeginId(s)
  BY <1>10, CallKeeps DEF BeginId, At, Go, Awaits
<1>11. CASE IdSaved(s)
  BY <1>11, CallKeeps DEF IdSaved, At, Go, Awaits
<1>12. CASE IdFails(s)
  BY <1>12, CallKeeps DEF IdFails, At, Go, Awaits
<1>13. QED BY <1>1, <1>2, <1>3, <1>4, <1>5, <1>6, <1>7, <1>8, <1>9, <1>10, <1>11, <1>12

LEMMA StepKeeps == IInv /\ [Next]_vars => IInv'
<1> SUFFICES ASSUME IInv, [Next]_vars PROVE IInv'
  OBVIOUS
<1>1. ASSUME NEW s \in Starts,
             \/ StartCheck(s) \/ LoadDevices(s) \/ AssignDevices(s)
             \/ FindId(s) \/ MissId(s) \/ BeginId(s) \/ IdSaved(s) \/ IdFails(s)
             \/ OpenPairing(s) \/ Bind(s) \/ BindFails(s) \/ Install(s)
      PROVE  IInv'
  BY <1>1, StartKeeps
<1>2. CASE Stop
  BY <1>2, ServerAssumption DEF Stop, IInv, HandleReturned, OneListener, Awaits
<1>3. ASSUME NEW k \in Keys,
             \/ Connect(k) \/ Disconnect(k) \/ Pair(k) \/ PairNoSlot(k)
             \/ Revoke(k) \/ BeginWrite(k) \/ Saved(k) \/ SaveFails(k)
      PROVE  IInv'
  <2>1. UNCHANGED <<server, start>>
    BY <1>3 DEF Connect, Disconnect, Pair, PairNoSlot, Revoke, BeginWrite, Saved, SaveFails, EndWrite
  <2>2. QED BY <2>1 DEF IInv, HandleReturned, OneListener, server
<1>4. CASE Restart
  BY <1>4, ServerAssumption DEF Restart, IInv, HandleReturned, OneListener, Awaits
<1>5. CASE UNCHANGED vars
  BY <1>5 DEF vars, server, IInv, HandleReturned, OneListener
<1>6. CASE Tangle
  BY <1>6 DEF Tangle, server, IInv, HandleReturned, OneListener
<1>7. QED BY <1>1, <1>2, <1>3, <1>4, <1>5, <1>6 DEF Next

\* However many receiver_start calls race, no spare listener keeps a port once
\* its call has returned (receiver.rs:1563).
THEOREM ListenersAreOwned == Spec => []OneListener
<1>1. IInv => OneListener
  BY DEF IInv
<1>2. QED BY <1>1, InitHolds, StepKeeps, PTL DEF Spec

-----------------------------------------------------------------------------
(* The device lists: bounded, without repetition, of devices that paired. *)

Distinct(list) == \A i, j \in 1..Len(list) : list[i] = list[j] => i = j
Known(list) == list \in DeviceLists /\ Distinct(list)

LEMMA EmptyIsKnown == Known(<<>>) /\ Listed(<<>>) = {}
<1>1. <<>> \in Seq(Keys) /\ Len(<<>>) = 0
  OBVIOUS
<1> QED BY <1>1, ServerAssumption DEF Known, DeviceLists, Distinct, Listed

LEMMA PairedList ==
  ASSUME NEW list \in DeviceLists, Distinct(list), NEW k \in Keys, k \notin Listed(list)
  PROVE  /\ Known(Evict(Append(list, k)))
         /\ Listed(Evict(Append(list, k))) \subseteq Listed(list) \cup {k}
<1> DEFINE longer == Append(list, k)
<1>1. list \in Seq(Keys) /\ Len(list) \in Nat /\ Len(list) <= MaxPaired
  BY LenProperties DEF DeviceLists
<1>2. /\ longer \in Seq(Keys) /\ Len(longer) = Len(list) + 1
      /\ \A i \in 1..Len(list) : longer[i] = list[i]
      /\ longer[Len(list) + 1] = k
  BY <1>1, AppendProperties
<1>3. Distinct(longer) /\ Listed(longer) \subseteq Listed(list) \cup {k}
  BY <1>1, <1>2 DEF Distinct, Listed
<1> HIDE DEF longer
<1>4. CASE Len(longer) > MaxPaired
  <2>1. longer # <<>>
    BY <1>1, <1>2, EmptySeq
  <2>2. /\ Tail(longer) \in Seq(Keys) /\ Len(Tail(longer)) = Len(longer) - 1
        /\ \A i \in 1..(Len(longer) - 1) : Tail(longer)[i] = longer[i + 1]
    BY <1>2, <2>1, HeadTailProperties
  <2>3. Distinct(Tail(longer)) /\ Listed(Tail(longer)) \subseteq Listed(longer)
    BY <1>1, <1>2, <1>3, <2>2 DEF Distinct, Listed
  <2>4. Tail(longer) \in DeviceLists
    BY <1>1, <1>2, <2>2, ServerAssumption DEF DeviceLists
  <2> QED BY <1>3, <1>4, <2>3, <2>4 DEF Known, Evict, longer
<1>5. CASE ~(Len(longer) > MaxPaired)
  <2>1. longer \in DeviceLists
    BY <1>1, <1>2, <1>5, ServerAssumption DEF DeviceLists
  <2> QED BY <1>3, <1>5, <2>1 DEF Known, Evict, longer
<1> QED BY <1>4, <1>5

\* A list without its i-th element.
LEMMA WithoutProperties ==
  ASSUME NEW list \in Seq(Keys), NEW i \in 1..Len(list)
  PROVE  /\ Without(list, i) \in Seq(Keys)
         /\ Len(Without(list, i)) = Len(list) - 1
         /\ \A j \in 1..(Len(list) - 1) :
              Without(list, i)[j] = IF j < i THEN list[j] ELSE list[j + 1]
<1> DEFINE before == SubSeq(list, 1, i - 1)
           after  == SubSeq(list, i + 1, Len(list))
           rest   == Without(list, i)
<1>1. list \in Seq(Keys) /\ Len(list) \in Nat
  BY LenProperties
<1>2. /\ before \in Seq(Keys) /\ Len(before) = i - 1
      /\ \A j \in 1..(i - 1) : before[j] = list[j]
  BY <1>1, SubSeqProperties, ElementOfSeq
<1>3. /\ after \in Seq(Keys) /\ Len(after) = Len(list) - i
      /\ \A j \in 1..(Len(list) - i) : after[j] = list[i + j]
  BY <1>1, SubSeqProperties, ElementOfSeq
<1>4. rest = before \o after
  BY DEF Without
<1> HIDE DEF before, after, rest
<1>5. /\ rest \in Seq(Keys) /\ Len(rest) = Len(before) + Len(after)
      /\ \A j \in 1..(Len(before) + Len(after)) :
           rest[j] = IF j <= Len(before) THEN before[j] ELSE after[j - Len(before)]
  BY <1>2, <1>3, <1>4, ConcatProperties
<1>6. Len(rest) = Len(list) - 1 /\ Len(before) + Len(after) = Len(list) - 1
  BY <1>1, <1>2, <1>3, <1>5
<1>7. ASSUME NEW j \in 1..(Len(list) - 1)
      PROVE  rest[j] = IF j < i THEN list[j] ELSE list[j + 1]
  <2>0. rest[j] = IF j <= i - 1 THEN before[j] ELSE after[j - (i - 1)]
    BY <1>2, <1>5, <1>6
  <2>1. CASE j < i
    BY <1>1, <1>2, <2>0, <2>1
  <2>2. CASE ~(j < i)
    <3>1. rest[j] = after[j - (i - 1)] /\ j - (i - 1) \in 1..(Len(list) - i)
      BY <1>1, <2>0, <2>2
    <3>2. i + (j - (i - 1)) = j + 1
      OBVIOUS
    <3> QED BY <1>3, <2>2, <3>1, <3>2
  <2> QED BY <2>1, <2>2
<1> QED BY <1>5, <1>6, <1>7 DEF rest

LEMMA WithoutDistinct ==
  ASSUME NEW list \in Seq(Keys), Distinct(list), NEW i \in 1..Len(list)
  PROVE  /\ Distinct(Without(list, i))
         /\ Listed(Without(list, i)) = Listed(list) \ {list[i]}
<1> DEFINE rest == Without(list, i)
           n == Len(list)
<1>1. n \in Nat /\ Len(rest) = n - 1
      /\ \A j \in 1..(n - 1) : rest[j] = IF j < i THEN list[j] ELSE list[j + 1]
  BY WithoutProperties, LenProperties
<1> HIDE DEF rest, n
<1>2. i \in 1..n /\ \A j, m \in 1..n : list[j] = list[m] => j = m
  BY DEF Distinct, n
<1>3. ASSUME NEW j \in 1..(n - 1), NEW m \in 1..(n - 1), rest[j] = rest[m]
      PROVE  j = m
  BY <1>1, <1>2, <1>3
<1>4. ASSUME NEW j \in 1..(n - 1)
      PROVE  rest[j] # list[i] /\ \E m \in 1..n : rest[j] = list[m]
  BY <1>1, <1>2
<1>5. ASSUME NEW m \in 1..n, m # i
      PROVE  \E j \in 1..(n - 1) : rest[j] = list[m]
  <2>1. CASE m < i
    BY <1>1, <1>2, <2>1
  <2>2. CASE m > i
    <3>1. m - 1 \in 1..(n - 1) /\ ~(m - 1 < i) /\ (m - 1) + 1 = m
      BY <1>1, <1>2, <2>2
    <3> QED BY <1>1, <3>1
  <2> QED BY <1>2, <1>5, <2>1, <2>2
<1>6. Distinct(rest)
  BY <1>1, <1>3 DEF Distinct
<1>7. Listed(rest) = Listed(list) \ {list[i]}
  <2>1. Listed(rest) = {rest[j] : j \in 1..(n - 1)} /\ Listed(list) = {list[m] : m \in 1..n}
    BY <1>1 DEF Listed, n
  <2>2. Listed(rest) \subseteq Listed(list) \ {list[i]}
    BY <1>4, <2>1
  <2>3. ASSUME NEW m \in 1..n, list[m] # list[i] PROVE list[m] \in Listed(rest)
    BY <1>5, <2>1, <2>3
  <2> QED BY <2>1, <2>2, <2>3
<1> QED BY <1>6, <1>7 DEF rest

LEMMA ShortenedList ==
  ASSUME NEW list \in DeviceLists, Distinct(list), NEW i \in 1..Len(list)
  PROVE  /\ Known(Without(list, i))
         /\ Listed(Without(list, i)) \subseteq Listed(list) \ {list[i]}
<1>1. list \in Seq(Keys) /\ Len(list) \in Nat /\ Len(list) <= MaxPaired
  BY LenProperties DEF DeviceLists
<1>2. Without(list, i) \in DeviceLists
  BY <1>1, WithoutProperties, ServerAssumption DEF DeviceLists
<1> QED BY <1>1, <1>2, WithoutDistinct DEF Known

\* The lists that are bounded and without repetition are those a file can hold.
LEMMA StorableIsKnown ==
  /\ \A list \in Storable : Known(list)
  /\ \A list : Known(list) => list \in Storable /\ Loaded(list) = list
<1>1. ASSUME NEW list \in Storable PROVE Known(list)
  <2>1. PICK n \in 0..MaxPaired : list \in [1..n -> Keys]
    BY <1>1 DEF Storable
  <2>2. list \in Seq(Keys) /\ Len(list) = n
    BY <2>1, ServerAssumption
  <2>3. Distinct(list)
    BY <1>1, <2>1, <2>2 DEF Storable, Distinct
  <2> QED BY <2>2, <2>3, ServerAssumption DEF Known, DeviceLists
<1>2. ASSUME NEW list, Known(list) PROVE list \in Storable
  <2>1. list \in Seq(Keys) /\ Len(list) \in 0..MaxPaired
    BY <1>2, ServerAssumption, LenProperties DEF Known, DeviceLists
  <2>2. list \in [1..Len(list) -> Keys] /\ DOMAIN list = 1..Len(list)
    BY <2>1, LenProperties
  <2> QED BY <1>2, <2>1, <2>2 DEF Known, Distinct, Storable
<1> QED BY <1>1, <1>2, FileAssumption DEF Loaded

(* What is on any list has paired, so that no device is listed twice. *)
Paired(list) == \A k \in Listed(list) : fate[k] # "new"
ListsKnown ==
  /\ Known(devices) /\ Paired(devices)
  /\ Known(Loaded(disk)) /\ Paired(Loaded(disk))
  /\ \A s \in Starts : Known(read[s]) /\ Paired(read[s])
  /\ \A k \in Keys : \A list \in saving[k] : Known(list) /\ Paired(list)

Lists == <<devices, disk, read, saving, fate>>

TInv == TypeOK /\ ListsKnown

LEMMA InitLists == Init => TInv
<1> SUFFICES ASSUME Init PROVE TInv
  OBVIOUS
<1>1. <<>> \in DeviceLists /\ <<>> \in Seq(Keys)
  BY EmptyIsKnown DEF Known, DeviceLists
<1>2. TypeOK
  BY <1>1 DEF Init, TypeOK, Awaits, Fates, history
<1>3. ListsKnown
  BY EmptyIsKnown DEF Init, ListsKnown, Paired, Loaded
<1> QED BY <1>2, <1>3 DEF TInv

LEMMA SameListsKnown == ListsKnown /\ UNCHANGED Lists => ListsKnown'
BY DEF ListsKnown, Paired, Lists, Loaded

\* Whatever the end of a save does to the file, a load finds a list it may find.
LEMMA FileKnown ==
  ASSUME TInv,
         \/ Tangle
         \/ disk' = disk
         \/ Known(disk') /\ \A k \in Listed(disk') : fate[k] # "new"
  PROVE  /\ disk' \in DeviceLists \cup {NoFile}
         /\ Known(Loaded(disk')) /\ \A k \in Listed(Loaded(disk')) : fate[k] # "new"
<1>1. CASE Tangle
  <2>1. disk' \in Storable \cup {NoFile} /\ \A k \in Listed(Loaded(disk')) : fate[k] # "new"
    BY <1>1 DEF Tangle, Store!Muddle
  <2> QED BY <2>1, StorableIsKnown, EmptyIsKnown DEF Known, Loaded
<1>2. CASE disk' = disk
  BY <1>2 DEF TInv, TypeOK, ListsKnown, Paired
<1>3. CASE Known(disk') /\ \A k \in Listed(disk') : fate[k] # "new"
  BY <1>3, StorableIsKnown DEF Known
<1> QED BY <1>1, <1>2, <1>3

\* The end of a save begins no overlap.
LEMMA SaveEnds ==
  ASSUME NEW list, Done \/ Store!Commit(list) \/ Store!Abort(list), overlapped \in BOOLEAN
  PROVE  overlapped' \in BOOLEAN /\ (overlapped' => overlapped)
<1>1. CASE Done
  BY <1>1 DEF Done, Store!Muddle
<1>2. CASE Store!Commit(list) \/ Store!Abort(list)
  BY <1>2 DEF Store!Commit, Store!Abort
<1> QED BY <1>1, <1>2

LEMMA StartLists ==
  ASSUME TInv, NEW s \in Starts,
         \/ StartCheck(s) \/ LoadDevices(s) \/ AssignDevices(s)
         \/ FindId(s) \/ MissId(s) \/ BeginId(s) \/ IdSaved(s) \/ IdFails(s)
         \/ OpenPairing(s) \/ Bind(s) \/ BindFails(s) \/ Install(s)
  PROVE  TInv'
<1> USE DEF TInv, At, Go, server, history, file
<1>0. <<>> \in DeviceLists
  BY EmptyIsKnown DEF Known
<1>1. CASE StartCheck(s)
  BY <1>1, SameListsKnown DEF StartCheck, TypeOK, Awaits, Lists
<1>2. CASE LoadDevices(s)
  <2>1. TypeOK'
    BY <1>0, <1>2 DEF LoadDevices, ReadFile, TypeOK, Awaits, ListsKnown, Known
  <2>2. PICK list \in {Loaded(disk), <<>>} :
          \A t \in Starts : read'[t] = IF t = s THEN list ELSE read[t]
    BY <1>2 DEF LoadDevices, ReadFile, TypeOK
  <2>3. Known(list) /\ Paired(list)
    BY EmptyIsKnown DEF ListsKnown, Paired
  <2>4. ListsKnown'
    BY <1>2, <2>2, <2>3 DEF LoadDevices, ListsKnown, Paired
  <2> QED BY <2>1, <2>4
<1>3. CASE AssignDevices(s)
  <2>1. TypeOK'
    BY <1>0, <1>3 DEF AssignDevices, TypeOK, Awaits
  <2>2. \A t \in Starts : read'[t] = IF t = s THEN <<>> ELSE read[t]
    BY <1>3 DEF AssignDevices, TypeOK
  <2>3. ListsKnown'
    BY <1>3, <2>2, EmptyIsKnown DEF AssignDevices, ListsKnown, Paired
  <2> QED BY <2>1, <2>3
<1>4. CASE OpenPairing(s)
  BY <1>4, SameListsKnown DEF OpenPairing, TypeOK, Awaits, Lists
<1>5. CASE Bind(s)
  BY <1>5, SameListsKnown DEF Bind, TypeOK, Awaits, Lists
<1>6. CASE BindFails(s)
  BY <1>6, SameListsKnown DEF BindFails, TypeOK, Awaits, Lists
<1>7. CASE Install(s)
  BY <1>7, SameListsKnown DEF Install, TypeOK, Awaits, Lists
<1>8. CASE FindId(s)
  BY <1>8, SameListsKnown DEF FindId, TypeOK, Awaits, Lists
<1>9. CASE MissId(s)
  <2>1. TypeOK'
    BY <1>0, <1>9 DEF MissId, ReadFile, TypeOK, Awaits, ListsKnown, Known
  <2>2. PICK list \in {Loaded(disk), <<>>} :
          \A t \in Starts : read'[t] = IF t = s THEN list ELSE read[t]
    BY <1>9 DEF MissId, ReadFile, TypeOK
  <2>3. Known(list) /\ Paired(list)
    BY EmptyIsKnown DEF ListsKnown, Paired
  <2>4. ListsKnown'
    BY <1>9, <2>2, <2>3 DEF MissId, ListsKnown, Paired
  <2> QED BY <2>1, <2>4
<1>10. CASE BeginId(s)
  BY <1>10, SameListsKnown DEF BeginId, Store!BeginSave, TypeOK, Awaits, Lists
<1>11. CASE IdSaved(s) \/ IdFails(s)
  <2>1. /\ read' = [read EXCEPT ![s] = <<>>] /\ start' = [start EXCEPT ![s] = "named"]
        /\ UNCHANGED <<server, conns, slot, devices, writing, saving, fate, unsaved, order>>
        /\ raced' \in BOOLEAN
        /\ Done \/ Store!Commit(read[s]) \/ Store!Abort(read[s])
    BY <1>11 DEF IdSaved, IdFails, TypeOK
  <2>2. disk' = read[s] \/ disk' = disk
    BY <2>1 DEF Done, Store!Commit, Store!Abort
  <2>3. overlapped' \in BOOLEAN
    BY <2>1, SaveEnds DEF TypeOK
  <2>4. Known(read[s]) /\ \A k \in Listed(read[s]) : fate[k] # "new"
    BY DEF ListsKnown, Paired
  <2>5. /\ disk' \in DeviceLists \cup {NoFile}
        /\ Known(Loaded(disk')) /\ \A k \in Listed(Loaded(disk')) : fate[k] # "new"
    BY <2>2, <2>4, FileKnown
  <2>6. TypeOK'
    BY <1>0, <2>1, <2>3, <2>5 DEF TypeOK, Awaits
  <2>7. \A t \in Starts : read'[t] = IF t = s THEN <<>> ELSE read[t]
    BY <2>1 DEF TypeOK
  <2>8. ListsKnown'
    BY <2>1, <2>5, <2>7, EmptyIsKnown DEF ListsKnown, Paired
  <2> QED BY <2>6, <2>8
<1> QED BY <1>1, <1>2, <1>3, <1>4, <1>5, <1>6, <1>7, <1>8, <1>9, <1>10, <1>11

\* What a pairing or a removal of k makes of the lists.
LEMMA ChangeLists ==
  ASSUME TInv, NEW k \in Keys, NEW new, NEW told \in Fates \ {"new"},
         Known(new), Listed(new) \subseteq Listed(devices) \cup {k},
         devices' = new, saving' = [saving EXCEPT ![k] = {new}],
         fate' = [fate EXCEPT ![k] = told], order' = Append(order, k),
         UNCHANGED <<server, conns, slot, file, start, read, unsaved, raced>>
  PROVE  TInv'
<1> USE DEF TInv, server, file
<1>1. new \in DeviceLists
  BY DEF Known
<1>2. TypeOK'
  BY <1>1 DEF TypeOK
<1>3. \A j \in Keys : fate'[j] = "new" => fate[j] = "new" /\ j # k
  BY DEF TypeOK
<1>4. \A j \in Keys : saving'[j] = IF j = k THEN {new} ELSE saving[j]
  BY DEF TypeOK
<1>5. \A list : Known(list) => Listed(list) \subseteq Keys
  <2> SUFFICES ASSUME NEW list, Known(list), NEW i \in 1..Len(list) PROVE list[i] \in Keys
    BY DEF Listed
  <2> QED BY ElementOfSeq DEF Known, DeviceLists
<1>6. \A list : Known(list) /\ Paired(list) => Paired(list)'
  BY <1>3, <1>5 DEF Paired
<1>7. Paired(devices)'
  BY <1>3, <1>5 DEF Paired, ListsKnown
<1>8. ListsKnown'
  BY <1>4, <1>6, <1>7 DEF ListsKnown, Paired, Loaded
<1> QED BY <1>2, <1>8

LEMMA PairChanges ==
  ASSUME TInv, NEW k \in Keys, Pair(k)
  PROVE  /\ Known(devices') /\ Listed(devices') \subseteq Listed(devices) \cup {k}
         /\ saving' = [saving EXCEPT ![k] = {devices'}]
         /\ fate' = [fate EXCEPT ![k] = "pairing"]
         /\ order' = Append(order, k)
         /\ UNCHANGED <<server, conns, slot, file, start, read, unsaved, raced>>
<1>1. k \notin Listed(devices)
  BY DEF Pair, TInv, ListsKnown, Paired
<1>2. devices' = Evict(Append(devices, k))
  BY DEF Pair
<1>3. Known(devices') /\ Listed(devices') \subseteq Listed(devices) \cup {k}
  BY <1>1, <1>2, PairedList DEF TInv, ListsKnown, Known
<1> QED BY <1>3 DEF Pair

LEMMA RevokeChanges ==
  ASSUME TInv, NEW k \in Keys, Revoke(k)
  PROVE  /\ Known(devices') /\ Listed(devices') \subseteq Listed(devices) \ {k}
         /\ saving' = [saving EXCEPT ![k] = {devices'}]
         /\ fate' = [fate EXCEPT ![k] = "revoking"]
         /\ order' = Append(order, k)
         /\ UNCHANGED <<server, conns, slot, file, start, read, unsaved, raced>>
<1>1. PICK i \in 1..Len(devices) : devices[i] = k /\ devices' = Without(devices, i)
  BY DEF Revoke
<1>2. Known(devices') /\ Listed(devices') \subseteq Listed(devices) \ {k}
  BY <1>1, ShortenedList DEF TInv, ListsKnown, Known
<1> QED BY <1>2 DEF Revoke

LEMMA ToldIsFate ==
  ASSUME TypeOK, NEW k \in Keys, NEW ok \in BOOLEAN
  PROVE  /\ Told(k, ok) \in Fates
         /\ Told(k, ok) = "new" => fate[k] = "new"
BY DEF Told, TypeOK, Fates

LEMMA SavedLists ==
  ASSUME TInv, NEW k \in Keys, Saved(k) \/ SaveFails(k)
  PROVE  TInv'
<1> USE DEF TInv, server
<1>1. PICK ok \in BOOLEAN : fate' = [fate EXCEPT ![k] = Told(k, ok)]
  BY DEF Saved, SaveFails, EndWrite
<1>2. saving' = [saving EXCEPT ![k] = {}] /\ writing' = writing \ {k}
  BY DEF Saved, SaveFails, EndWrite
<1>3. (disk' = disk \/ disk' \in saving[k]) /\ overlapped' \in BOOLEAN
  BY DEF Saved, SaveFails, TypeOK, Done, Store!Muddle, Store!Commit, Store!Abort
<1>4. /\ UNCHANGED <<handle, accepting, conns, slot, devices, start, read>>
      /\ unsaved' \in BOOLEAN /\ Leave(k)
  BY DEF Saved, SaveFails, EndWrite
<1>10. /\ disk' \in DeviceLists \cup {NoFile}
       /\ Known(Loaded(disk')) /\ \A j \in Listed(Loaded(disk')) : fate[j] # "new"
  BY <1>3, FileKnown DEF ListsKnown, Paired
<1>5. TypeOK'
  <2>1. disk' \in DeviceLists \cup {NoFile} /\ writing' \subseteq Keys /\ overlapped' \in BOOLEAN
    BY <1>2, <1>3, <1>10 DEF TypeOK
  <2>2. fate' \in [Keys -> Fates]
    BY <1>1, ToldIsFate DEF TypeOK
  <2>3. saving' \in [Keys -> SUBSET DeviceLists]
    BY <1>2 DEF TypeOK
  <2>4. order' \in Seq(Keys) /\ raced' \in BOOLEAN
    BY <1>4, WithoutProperties DEF Leave, TypeOK
  <2> QED BY <1>4, <2>1, <2>2, <2>3, <2>4 DEF TypeOK
<1>6. \A j \in Keys : fate'[j] = "new" => fate[j] = "new"
  BY <1>1, ToldIsFate DEF TypeOK
<1>7. \A list : Known(list) => Listed(list) \subseteq Keys
  <2> SUFFICES ASSUME NEW list, Known(list), NEW i \in 1..Len(list) PROVE list[i] \in Keys
    BY DEF Listed
  <2> QED BY ElementOfSeq DEF Known, DeviceLists
<1>8. \A list : Known(list) /\ Paired(list) => \A j \in Listed(list) : fate'[j] # "new"
  BY <1>6, <1>7 DEF Paired
<1>9. \A j \in Keys : saving'[j] \subseteq saving[j]
  BY <1>2 DEF TypeOK
<1>11. \A j \in Listed(Loaded(disk')) : fate'[j] # "new"
  BY <1>6, <1>7, <1>10
<1>12. ListsKnown'
  BY <1>4, <1>8, <1>9, <1>10, <1>11 DEF ListsKnown, Paired
<1> QED BY <1>5, <1>12

LEMMA StepLists == TInv /\ [Next]_vars => TInv'
<1> SUFFICES ASSUME TInv, [Next]_vars PROVE TInv'
  OBVIOUS
<1> USE DEF history, file
<1>1. ASSUME NEW s \in Starts,
             \/ StartCheck(s) \/ LoadDevices(s) \/ AssignDevices(s)
             \/ FindId(s) \/ MissId(s) \/ BeginId(s) \/ IdSaved(s) \/ IdFails(s)
             \/ OpenPairing(s) \/ Bind(s) \/ BindFails(s) \/ Install(s)
      PROVE  TInv'
  BY <1>1, StartLists
<1>2. CASE Stop
  BY <1>2, SameListsKnown DEF Stop, TInv, TypeOK, Lists
<1>3. ASSUME NEW k \in Keys, Connect(k) \/ Disconnect(k) \/ PairNoSlot(k)
      PROVE  TInv'
  BY <1>3, SameListsKnown DEF Connect, Disconnect, PairNoSlot, TInv, TypeOK, Lists, server
<1>4. ASSUME NEW k \in Keys, Pair(k) PROVE TInv'
  BY <1>4, PairChanges, ChangeLists DEF Fates
<1>5. ASSUME NEW k \in Keys, Revoke(k) PROVE TInv'
  BY <1>5, RevokeChanges, ChangeLists DEF Fates
<1>6. ASSUME NEW k \in Keys, Saved(k) \/ SaveFails(k) PROVE TInv'
  BY <1>6, SavedLists
<1>7. CASE Restart
  <2>1. <<>> \in DeviceLists /\ <<>> \in Seq(Keys)
    BY EmptyIsKnown DEF Known, DeviceLists
  <2>2. TypeOK'
    BY <1>7, <2>1 DEF Restart, Store!Die, TInv, TypeOK, Awaits
  <2>3. ListsKnown'
    BY <1>7, EmptyIsKnown DEF Restart, Store!Die, TInv, ListsKnown, Paired, Loaded
  <2> QED BY <2>2, <2>3 DEF TInv
<1>8. CASE UNCHANGED vars
  BY <1>8, SameListsKnown DEF vars, server, TInv, TypeOK, Lists
<1>9. ASSUME NEW k \in Keys, BeginWrite(k) PROVE TInv'
  BY <1>9, SameListsKnown DEF BeginWrite, Store!BeginSave, TInv, TypeOK, Lists, server
<1>10. CASE Tangle
  <2>1. /\ disk' \in DeviceLists \cup {NoFile}
        /\ Known(Loaded(disk')) /\ \A j \in Listed(Loaded(disk')) : fate[j] # "new"
    BY <1>10, FileKnown
  <2>2. TypeOK'
    BY <1>10, <2>1 DEF Tangle, Store!Muddle, TInv, TypeOK, server
  <2>3. ListsKnown'
    BY <1>10, <2>1 DEF Tangle, TInv, ListsKnown, Paired
  <2> QED BY <2>2, <2>3 DEF TInv
<1> QED BY <1>1, <1>2, <1>3, <1>4, <1>5, <1>6, <1>7, <1>8, <1>9, <1>10 DEF Next

\* No list in memory, on disk or on its way is longer than MAX_PAIRED_DEVICES,
\* and everything else keeps its type, in whatever order starts and saves come.
THEOREM TypeCorrect == Spec => []TypeOK
<1>1. TInv => TypeOK
  BY DEF TInv
<1> QED BY <1>1, InitLists, StepLists, PTL DEF Spec

-----------------------------------------------------------------------------
(* Memory and disk.  The copies on their way are those that order names, and *)
(* as long as nothing has overtaken anything (~raced) the newest carries the *)
(* list in memory, and no copy made after a removal holds the removed device. *)
(* What ensure_id saves is then what the file holds, or nothing if it could   *)
(* not read it.                                                               *)

InOrder ==
  /\ Distinct(order)
  /\ \A k \in Keys : /\ saving[k] # {} <=> k \in Listed(order)
                     /\ fate[k] = "new" => saving[k] = {}
NewestIsMemory == order # <<>> => saving[order[Len(order)]] = {devices}
Assigned ==
  \/ handle # None
  \/ \E s \in Starts : start[s] \in {"naming", "unnamed", "saving", "named", "binding", "bound"}
MemoryIsDisk == Assigned /\ ~unsaved /\ order = <<>> => devices = Loaded(disk)
Gone(k) ==
  /\ k \notin Listed(devices) /\ k \notin Listed(Loaded(disk))
  /\ \A j \in Keys : \A list \in saving[j] : k \notin Listed(list)
Going(k) ==
  /\ k \notin Listed(devices)
  /\ \A i, j \in 1..Len(order) : order[i] = k /\ i <= j =>
       \A list \in saving[order[j]] : k \notin Listed(list)
Removed ==
  \A k \in Keys : /\ fate[k] = "revoked" => Gone(k)
                  /\ fate[k] = "revoking" /\ saving[k] # {} => Going(k)

Unraced == NewestIsMemory /\ MemoryIsDisk /\ Removed
CopyInv == InOrder /\ (overlapped => raced) /\ (raced \/ Unraced)
CInv == TInv /\ CopyInv

LEMMA InitCopies == Init => CInv
<1> SUFFICES ASSUME Init PROVE CInv
  OBVIOUS
<1>1. TInv
  BY InitLists
<1>2. order = <<>> /\ Distinct(order) /\ Listed(order) = {} /\ ~overlapped
  BY EmptyIsKnown DEF Init, Known
<1>3. InOrder
  BY <1>2 DEF Init, InOrder
<1>4. Unraced
  BY <1>2 DEF Init, Unraced, NewestIsMemory, Assigned, MemoryIsDisk, Removed
<1> QED BY <1>1, <1>2, <1>3, <1>4 DEF CInv, CopyInv

Copies == <<devices, saving, fate, order>>

\* A step that touches no copy, nor the file unless something has been overtaken or
\* the list of a failed read is saved, and after which no list is taken to be
\* assigned that was not before.
LEMMA SameCopies ==
  ASSUME CInv, UNCHANGED Copies, Assigned' => Assigned, unsaved => unsaved',
         raced => raced', overlapped' => raced',
         \/ raced'
         \/ Loaded(disk') = Loaded(disk)
         \/ unsaved' /\ Listed(Loaded(disk')) = {}
  PROVE  CopyInv'
BY DEF CInv, CopyInv, InOrder, Unraced, NewestIsMemory, MemoryIsDisk, Removed, Gone, Going,
       Copies, Distinct

LEMMA StartCopies ==
  ASSUME CInv, NEW s \in Starts,
         \/ StartCheck(s) \/ LoadDevices(s) \/ AssignDevices(s)
         \/ FindId(s) \/ MissId(s) \/ BeginId(s) \/ IdSaved(s) \/ IdFails(s)
         \/ OpenPairing(s) \/ Bind(s) \/ BindFails(s) \/ Install(s)
  PROVE  CopyInv'
<1> USE DEF At, Go, server, history, file
<1>1. start \in [Starts -> Awaits] /\ s # None
  BY ServerAssumption DEF CInv, CopyInv, TInv, TypeOK
<1>2. CASE StartCheck(s)
  BY <1>1, <1>2, SameCopies DEF StartCheck, Assigned, Copies, CInv, CopyInv
<1>3. CASE LoadDevices(s)
  <2>1. unsaved => unsaved'
    BY <1>3 DEF LoadDevices, ReadFile
  <2>2. UNCHANGED <<devices, saving, fate, order, raced, disk, overlapped>> /\ (Assigned' => Assigned)
    BY <1>1, <1>3 DEF LoadDevices, Assigned
  <2> QED BY <2>1, <2>2, SameCopies DEF Copies, CInv, CopyInv
<1>4. CASE AssignDevices(s)
  <2>1. UNCHANGED <<disk, overlapped, saving, fate, order>> /\ devices' = read[s]
    BY <1>4 DEF AssignDevices
  <2>2. InOrder' /\ (overlapped' => raced')
    <3>1. InOrder'
      BY <2>1 DEF CInv, CopyInv, InOrder, Distinct
    <3>2. raced => raced'
      BY <1>4 DEF AssignDevices
    <3>3. overlapped' = overlapped /\ (overlapped => raced)
      BY <2>1 DEF CInv, CopyInv
    <3> QED BY <3>1, <3>2, <3>3
  <2>3. CASE raced \/ OutOfDate(s) \/ order # <<>>
    BY <1>4, <2>2, <2>3 DEF AssignDevices, CopyInv
  <2>4. CASE ~(raced \/ OutOfDate(s) \/ order # <<>>)
    <3>1. /\ order = <<>> /\ Removed
          /\ \/ devices' = Loaded(disk)
             \/ unsaved' /\ Listed(devices') = {}
      BY <1>4, <2>1, <2>4, EmptyIsKnown DEF AssignDevices, OutOfDate, CInv, CopyInv, Unraced
    <3>2. \A k \in Keys : saving[k] = {}
      BY <3>1, EmptyIsKnown DEF CInv, CopyInv, InOrder
    <3>3. NewestIsMemory' /\ MemoryIsDisk'
      BY <2>1, <3>1 DEF NewestIsMemory, MemoryIsDisk
    <3>4. Removed'
      BY <2>1, <3>1, <3>2 DEF Removed, Gone
    <3> QED BY <2>2, <3>3, <3>4 DEF Unraced, CopyInv
  <2> QED BY <2>3, <2>4
<1>5. CASE OpenPairing(s)
  BY <1>1, <1>5, SameCopies DEF OpenPairing, Assigned, Copies, CInv, CopyInv
<1>6. CASE Bind(s)
  BY <1>1, <1>6, SameCopies DEF Bind, Assigned, Copies, CInv, CopyInv
<1>7. CASE BindFails(s)
  BY <1>1, <1>7, SameCopies DEF BindFails, Assigned, Copies, CInv, CopyInv
<1>8. CASE Install(s)
  BY <1>1, <1>8, SameCopies DEF Install, Assigned, Copies, CInv, CopyInv
<1>9. CASE FindId(s) \/ MissId(s)
  <2>1. unsaved => unsaved'
    BY <1>9 DEF FindId, MissId, ReadFile
  <2>2. UNCHANGED <<devices, saving, fate, order, raced, disk, overlapped>> /\ (Assigned' => Assigned)
    BY <1>1, <1>9 DEF FindId, MissId, Assigned
  <2> QED BY <2>1, <2>2, SameCopies DEF Copies, CInv, CopyInv
<1>10. CASE BeginId(s)
  BY <1>1, <1>10, SameCopies DEF BeginId, Store!BeginSave, Assigned, Copies, CInv, CopyInv
<1>11. CASE IdSaved(s) \/ IdFails(s)
  <2>1. /\ UNCHANGED <<Copies, unsaved, handle>> /\ (overlapped' => overlapped)
        /\ start[s] = "saving" /\ start' = [start EXCEPT ![s] = "named"]
    BY <1>11 DEF IdSaved, IdFails, Copies, Done, Store!Muddle, Store!Commit, Store!Abort
  <2>2. raced => raced'
    BY <1>11 DEF IdSaved, IdFails
  <2>3. Assigned' => Assigned
    BY <1>1, <2>1 DEF Assigned
  <2>4. ASSUME ~raced'
        PROVE  Loaded(disk') = Loaded(disk) \/ (unsaved /\ Listed(Loaded(disk')) = {})
    <3>1. ~overlapped
      BY <2>2, <2>4 DEF CInv, CopyInv
    <3>2. CASE IdSaved(s)
      <4>1. /\ disk' = read[s]
            /\ read[s] = Loaded(disk) \/ (unsaved /\ read[s] = <<>>)
        BY <2>4, <3>1, <3>2 DEF IdSaved, OutOfDate, Done, Store!Muddle, Store!Commit
      <4>2. Loaded(read[s]) = read[s]
        BY StorableIsKnown DEF CInv, TInv, ListsKnown
      <4> QED BY <4>1, <4>2, EmptyIsKnown
    <3>3. CASE IdFails(s)
      BY <3>3 DEF IdFails, Done, Store!Abort
    <3> QED BY <1>11, <3>2, <3>3
  <2> QED BY <2>1, <2>2, <2>3, <2>4, SameCopies DEF CInv, CopyInv
<1> QED BY <1>2, <1>3, <1>4, <1>5, <1>6, <1>7, <1>8, <1>9, <1>10, <1>11

\* A pairing or a removal of k makes the newest copy.
LEMMA ChangeCopies ==
  ASSUME CInv, NEW k \in Keys, saving[k] = {},
         NEW told \in {"pairing", "revoking"},
         Listed(devices') \subseteq Listed(devices) \cup {k},
         told = "revoking" => k \notin Listed(devices'),
         saving' = [saving EXCEPT ![k] = {devices'}], fate' = [fate EXCEPT ![k] = told],
         order' = Append(order, k), UNCHANGED <<file, raced>>
  PROVE  CopyInv'
<1> USE DEF file
<1> DEFINE n == Len(order)
<1>1. /\ n \in Nat /\ Len(order') = n + 1 /\ order' \in Seq(Keys)
      /\ order'[n + 1] = k /\ \A i \in 1..n : order'[i] = order[i]
  BY AppendProperties, LenProperties DEF CInv, CopyInv, TInv, TypeOK
<1>2. /\ \A i \in 1..n : order[i] \in Keys /\ order[i] # k
      /\ \A i, j \in 1..n : order[i] = order[j] => i = j
  BY ElementOfSeq DEF CInv, CopyInv, TInv, TypeOK, InOrder, Distinct, Listed
<1> HIDE DEF n
<1>3. \A j \in Keys : /\ saving'[j] = IF j = k THEN {devices'} ELSE saving[j]
                      /\ fate'[j] = IF j = k THEN told ELSE fate[j]
  BY DEF CInv, CopyInv, TInv, TypeOK
<1>4. Listed(order') = Listed(order) \cup {k}
  BY <1>1 DEF Listed, n
<1>5. InOrder'
  <2>1. Distinct(order')
    BY <1>1, <1>2 DEF Distinct
  <2>2. ASSUME NEW j \in Keys
        PROVE  /\ saving'[j] # {} <=> j \in Listed(order')
               /\ fate'[j] = "new" => saving'[j] = {}
    <3>1. CASE j = k
      <4>1. saving'[j] = {devices'} /\ fate'[j] = told
        BY <1>3, <3>1
      <4>2. j \in Listed(order')
        BY <1>4, <3>1
      <4> QED BY <4>1, <4>2
    <3>2. CASE j # k
      <4>1. saving'[j] = saving[j] /\ fate'[j] = fate[j]
        BY <1>3, <3>2
      <4>2. j \in Listed(order') <=> j \in Listed(order)
        BY <1>4, <3>2
      <4> QED BY <4>1, <4>2 DEF CInv, CopyInv, InOrder
    <3> QED BY <3>1, <3>2
  <2> QED BY <2>1, <2>2 DEF InOrder, Distinct
<1>6. ASSUME ~raced PROVE Unraced'
  <2>1. Unraced
    BY <1>6 DEF CInv, CopyInv
  <2>2. NewestIsMemory' /\ MemoryIsDisk'
    BY <1>1, <1>3, EmptySeq DEF NewestIsMemory, MemoryIsDisk
  <2>3. ASSUME NEW j \in Keys, j # k, fate[j] = "revoked" PROVE Gone(j)'
    BY <1>3, <2>1, <2>3 DEF Unraced, Removed, Gone
  <2>4. ASSUME NEW j \in Keys, j # k, fate[j] = "revoking", saving[j] # {} PROVE Going(j)'
    <3>1. Going(j)
      BY <2>1, <2>4 DEF Unraced, Removed
    <3>2. j \notin Listed(devices')
      BY <2>4, <3>1 DEF Going
    <3>3. ASSUME NEW i \in 1..(n + 1), NEW m \in 1..(n + 1), order'[i] = j, i <= m,
                 NEW list \in saving'[order'[m]]
          PROVE  j \notin Listed(list)
      <4>1. i \in 1..n /\ order[i] = j
        BY <1>1, <2>4, <3>3
      <4>2. CASE m = n + 1
        BY <1>1, <1>3, <3>2, <3>3, <4>2
      <4>3. CASE m # n + 1
        <5>1. m \in 1..n /\ order'[m] = order[m] /\ list \in saving[order[m]]
          BY <1>1, <1>2, <1>3, <3>3, <4>3
        <5> QED BY <3>1, <3>3, <4>1, <5>1 DEF Going, n
      <4> QED BY <4>2, <4>3
    <3> QED BY <1>1, <3>2, <3>3 DEF Going
  <2>5. ASSUME told = "revoking" PROVE Going(k)'
    <3>1. ASSUME NEW i \in 1..(n + 1), NEW m \in 1..(n + 1), order'[i] = k, i <= m
          PROVE  \A list \in saving'[order'[m]] : k \notin Listed(list)
      <4>1. i = n + 1 /\ m = n + 1
        BY <1>1, <1>2, <3>1
      <4> QED BY <1>1, <1>3, <2>5, <4>1
    <3>2. k \notin Listed(devices')
      BY <2>5
    <3> QED BY <1>1, <3>1, <3>2 DEF Going
  <2>6. Removed'
    BY <1>3, <2>3, <2>4, <2>5 DEF Removed
  <2> QED BY <2>2, <2>6 DEF Unraced
<1> QED BY <1>5, <1>6 DEF CInv, CopyInv

\* A copy has landed or failed.  In turn it was the oldest: after the newest
\* memory and disk agree, and no older copy can bring a removed device back.
LEMMA LeaveCopies ==
  ASSUME CInv, NEW k \in Keys, Saved(k) \/ SaveFails(k)
  PROVE  CopyInv'
<1> DEFINE n == Len(order)
<1>1. PICK ok \in BOOLEAN : /\ fate' = [fate EXCEPT ![k] = Told(k, ok)]
                            /\ unsaved' = ~ok
                            /\ ~raced => IF ok THEN Loaded(disk') \in saving[k]
                                         ELSE Loaded(disk') = Loaded(disk)
  <2>1. ~raced => ~overlapped
    BY DEF CInv, CopyInv
  <2>2. CASE Saved(k)
    <3>1. ~raced => disk' \in saving[k]
      BY <2>1, <2>2 DEF Saved, Done, Store!Muddle, Store!Commit
    <3>2. \A list \in saving[k] : Loaded(list) = list
      BY StorableIsKnown DEF CInv, TInv, ListsKnown
    <3>3. ~raced => Loaded(disk') \in saving[k]
      BY <3>1, <3>2
    <3> QED BY <2>2, <3>3 DEF Saved, EndWrite
  <2>3. CASE SaveFails(k)
    <3>1. ~raced => disk' = disk
      BY <2>3 DEF SaveFails, Done, Store!Abort
    <3> QED BY <2>3, <3>1 DEF SaveFails, EndWrite
  <2> QED BY <2>2, <2>3
<1>2. /\ saving' = [saving EXCEPT ![k] = {}] /\ devices' = devices /\ Leave(k)
      /\ overlapped' => overlapped
  <2>1. \E list : Done \/ Store!Commit(list) \/ Store!Abort(list)
    BY DEF Saved, SaveFails
  <2> QED BY <2>1, SaveEnds DEF Saved, SaveFails, EndWrite, CInv, TInv, TypeOK
<1>3. PICK i \in 1..n : order[i] = k /\ order' = Without(order, i) /\ raced' = (raced \/ i > 1)
  BY <1>2 DEF Leave
<1>4. order \in Seq(Keys) /\ n \in Nat /\ Distinct(order)
  BY LenProperties DEF CInv, CopyInv, TInv, TypeOK, InOrder
<1>5. /\ order' \in Seq(Keys) /\ Len(order') = n - 1
      /\ \A j \in 1..(n - 1) : order'[j] = IF j < i THEN order[j] ELSE order[j + 1]
  BY <1>3, <1>4, WithoutProperties
<1>6. Distinct(order') /\ Listed(order') = Listed(order) \ {k}
  BY <1>3, <1>4, WithoutDistinct
<1>7. \A j \in Keys : /\ saving'[j] = IF j = k THEN {} ELSE saving[j]
                      /\ fate'[j] = IF j = k THEN Told(k, ok) ELSE fate[j]
  BY <1>1, <1>2 DEF CInv, CopyInv, TInv, TypeOK
<1>8. InOrder'
  <2>1. \A j \in Keys : /\ saving'[j] # {} <=> j \in Listed(order')
                        /\ fate'[j] = "new" => saving'[j] = {}
    BY <1>6, <1>7 DEF CInv, CopyInv, InOrder
  <2> QED BY <1>6, <2>1 DEF InOrder, Distinct
<1>9. ASSUME ~raced, i = 1 PROVE Unraced'
  <2>1. Unraced
    BY <1>9 DEF CInv, CopyInv
  <2>2. \A j \in 1..(n - 1) : order'[j] = order[j + 1] /\ order[j + 1] \in Keys
                              /\ order[j + 1] # k
    <3>1. \A j \in 1..(n - 1) : j + 1 \in 1..n /\ j + 1 # 1
      BY <1>4
    <3>2. \A j \in 1..(n - 1) : ~(j < 1)
      BY <1>4
    <3>3. \A j, m \in 1..n : order[j] = order[m] => j = m
      BY <1>4 DEF Distinct
    <3> QED BY <1>3, <1>4, <1>5, <1>9, <3>1, <3>2, <3>3, ElementOfSeq
  <2>3. NewestIsMemory' /\ MemoryIsDisk'
    <3>1. CASE n # 1
      <4>1. n - 1 \in 1..(n - 1) /\ (n - 1) + 1 = n /\ order # <<>> /\ order' # <<>>
        BY <1>3, <1>4, <1>5, <3>1, EmptySeq
      <4>2. order'[n - 1] = order[n] /\ order[n] \in Keys /\ order[n] # k
        BY <2>2, <4>1
      <4>3. saving[order[n]] = {devices}
        BY <2>1, <4>1 DEF Unraced, NewestIsMemory
      <4> QED BY <1>2, <1>5, <1>7, <4>1, <4>2, <4>3 DEF NewestIsMemory, MemoryIsDisk
    <3>2. CASE n = 1
      <4>1. order' = <<>> /\ order # <<>>
        BY <1>4, <1>5, <3>2, EmptySeq
      <4>2. saving[k] = {devices}
        BY <1>3, <1>9, <2>1, <3>2, <4>1 DEF Unraced, NewestIsMemory
      <4> QED BY <1>1, <1>2, <1>9, <4>1, <4>2 DEF NewestIsMemory, MemoryIsDisk
    <3> QED BY <3>1, <3>2
  <2>4. ASSUME NEW j \in Keys, fate[j] = "revoked" PROVE Gone(j)'
    <3>1. Gone(j)
      BY <2>1, <2>4 DEF Unraced, Removed
    <3>2. Loaded(disk') = Loaded(disk) \/ Loaded(disk') \in saving[k]
      BY <1>1, <1>9
    <3>3. j \notin Listed(Loaded(disk'))
      BY <3>1, <3>2 DEF Gone
    <3>4. \A m \in Keys : saving'[m] \subseteq saving[m]
      BY <1>7
    <3> QED BY <1>2, <3>1, <3>3, <3>4 DEF Gone
  <2>5. ASSUME fate[k] = "revoking", ok PROVE Gone(k)'
    <3>1. Going(k)
      <4>1. saving[k] # {}
        BY <1>1, <1>9, <2>5
      <4> QED BY <2>1, <2>5, <4>1 DEF Unraced, Removed
    <3>2. \A j \in 1..n : \A list \in saving[order[j]] : k \notin Listed(list)
      BY <1>3, <1>4, <1>9, <3>1 DEF Going
    <3>3. k \notin Listed(Loaded(disk'))
      BY <1>1, <1>3, <1>9, <2>5, <3>2
    <3>4. ASSUME NEW j \in Keys, NEW list \in saving'[j] PROVE k \notin Listed(list)
      <4>1. list \in saving[j] /\ j \in Listed(order)
        BY <1>7, <3>4 DEF CInv, CopyInv, InOrder
      <4> QED BY <3>2, <4>1 DEF Listed
    <3> QED BY <1>2, <3>1, <3>3, <3>4 DEF Gone, Going
  <2>6. ASSUME NEW j \in Keys, j # k, fate[j] = "revoking", saving[j] # {} PROVE Going(j)'
    <3>1. Going(j)
      BY <2>1, <2>6 DEF Unraced, Removed
    <3>2. ASSUME NEW a \in 1..(n - 1), NEW b \in 1..(n - 1), order'[a] = j, a <= b,
                 NEW list \in saving'[order'[b]]
          PROVE  j \notin Listed(list)
      <4>1. /\ a + 1 \in 1..n /\ b + 1 \in 1..n /\ a + 1 <= b + 1
            /\ order[a + 1] = j /\ list \in saving[order[b + 1]]
        BY <1>4, <1>7, <2>2, <3>2
      <4> QED BY <3>1, <4>1 DEF Going
    <3> QED BY <1>2, <1>5, <3>1, <3>2 DEF Going
  <2>7. /\ Told(k, ok) # "revoking"
        /\ Told(k, ok) = "revoked" => \/ fate[k] = "revoked"
                                      \/ fate[k] = "revoking" /\ ok
    <3>1. CASE fate[k] = "pairing"
      BY <3>1 DEF Told
    <3>2. CASE fate[k] = "revoking"
      BY <3>2 DEF Told
    <3>3. CASE fate[k] \notin {"pairing", "revoking"}
      BY <3>3 DEF Told
    <3> QED BY <3>1, <3>2, <3>3
  <2>8. Removed'
    BY <1>7, <2>4, <2>5, <2>6, <2>7 DEF Removed
  <2> QED BY <2>3, <2>8 DEF Unraced
<1>10. raced \/ i > 1 \/ i = 1
  BY <1>3, <1>4
<1> QED BY <1>2, <1>3, <1>8, <1>9, <1>10 DEF CInv, CopyInv

LEMMA StepCopies == CInv /\ [Next]_vars => CInv'
<1> SUFFICES ASSUME CInv, [Next]_vars PROVE CInv'
  OBVIOUS
<1>0. TInv /\ TInv'
  BY StepLists DEF CInv, CopyInv
<1> SUFFICES CopyInv'
  BY <1>0 DEF CInv, CopyInv
<1> USE DEF server, history, file
<1>1. ASSUME NEW s \in Starts,
             \/ StartCheck(s) \/ LoadDevices(s) \/ AssignDevices(s)
             \/ FindId(s) \/ MissId(s) \/ BeginId(s) \/ IdSaved(s) \/ IdFails(s)
             \/ OpenPairing(s) \/ Bind(s) \/ BindFails(s) \/ Install(s)
      PROVE  CopyInv'
  BY <1>1, StartCopies
<1>2. CASE Stop
  BY <1>2, SameCopies DEF Stop, Assigned, Copies, CInv, CopyInv
<1>3. ASSUME NEW k \in Keys, Connect(k) \/ Disconnect(k) \/ PairNoSlot(k)
      PROVE  CopyInv'
  BY <1>3, SameCopies DEF Connect, Disconnect, PairNoSlot, Assigned, Copies, CInv, CopyInv
<1>4. ASSUME NEW k \in Keys, Pair(k) PROVE CopyInv'
  <2>1. saving[k] = {} /\ fate[k] = "new"
    BY <1>4 DEF Pair, CInv, CopyInv, InOrder
  <2> QED BY <1>0, <1>4, <2>1, PairChanges, ChangeCopies
<1>5. ASSUME NEW k \in Keys, Revoke(k) PROVE CopyInv'
  <2>1. saving[k] = {}
    BY <1>5 DEF Revoke
  <2>2. k \in Listed(devices)
    BY <1>5 DEF Revoke, Listed
  <2> QED BY <1>0, <1>5, <2>1, <2>2, RevokeChanges, ChangeCopies
<1>6. ASSUME NEW k \in Keys, Saved(k) \/ SaveFails(k) PROVE CopyInv'
  BY <1>6, LeaveCopies
<1>7. CASE Restart
  <2>1. /\ order' = <<>> /\ devices' = <<>> /\ \A k \in Keys : saving'[k] = {}
        /\ ~Assigned' /\ ~overlapped' /\ UNCHANGED <<disk, fate, raced>>
    BY <1>7 DEF Restart, Store!Die, Assigned
  <2>2. InOrder'
    BY <2>1, EmptyIsKnown DEF InOrder, Known, Distinct
  <2>3. ~raced => Unraced'
    BY <2>1, EmptyIsKnown
       DEF CInv, CopyInv, Unraced, NewestIsMemory, MemoryIsDisk, Removed, Gone
  <2> QED BY <2>1, <2>2, <2>3 DEF CopyInv
<1>8. CASE UNCHANGED vars
  BY <1>8, SameCopies DEF vars, Assigned, Copies, CInv, CopyInv
<1>9. ASSUME NEW k \in Keys, BeginWrite(k) PROVE CopyInv'
  BY <1>9, SameCopies DEF BeginWrite, Store!BeginSave, Assigned, Copies, CInv, CopyInv
<1>10. CASE Tangle
  BY <1>10, SameCopies DEF Tangle, Store!Muddle, Assigned, Copies, CInv, CopyInv
<1> QED BY <1>1, <1>2, <1>3, <1>4, <1>5, <1>6, <1>7, <1>8, <1>9, <1>10 DEF Next

\* Whatever starts, stops, saves and kills interleave: with the server up and
\* nothing in flight memory and disk agree, unless a write failed or a start could
\* not read the file since they last met, a copy has overtaken an older one or a
\* start has met a save.
THEOREM MemoryAgreesWithDisk == Spec => []ListsAgree
<1>1. CInv => ListsAgree
  <2> SUFFICES ASSUME CInv, ~raced, ~unsaved, NothingInFlight, handle # None
               PROVE  devices = Loaded(disk)
    BY DEF ListsAgree
  <2>1. order = <<>>
    <3>1. \A i \in 1..Len(order) : order[i] \in Keys /\ order[i] \in Listed(order)
      BY ElementOfSeq DEF CInv, CopyInv, TInv, TypeOK, Listed
    <3>2. Len(order) \notin 1..Len(order)
      BY <3>1 DEF CInv, CopyInv, InOrder, NothingInFlight
    <3> QED BY <3>2, LenProperties, EmptySeq DEF CInv, CopyInv, TInv, TypeOK
  <2> QED BY <2>1 DEF CInv, CopyInv, Unraced, MemoryIsDisk, Assigned
<1> QED BY <1>1, InitCopies, StepCopies, PTL DEF Spec

\* Under the same reservation a device whose removal was confirmed stays off the
\* list, through restarts, later pairings and evictions.
THEOREM RemovedStaysRemoved == Spec => []RevokedStaysOut
<1>1. CInv => RevokedStaysOut
  BY DEF CInv, CopyInv, Unraced, Removed, Gone, RevokedStaysOut
<1> QED BY <1>1, InitCopies, StepCopies, PTL DEF Spec

-----------------------------------------------------------------------------
(* The file.  Until saves overlap there is one that has begun, so that the   *)
(* store lets it end; and no other step touches the file.                    *)

OneSave ==
  /\ \A k \in writing : saving[k] # {}
  /\ \A k \in Keys : \A a, b \in saving[k] : a = b
  /\ ~overlapped =>
       /\ \A j, k \in writing : j = k
       /\ \A s, t \in Starts : start[s] = "saving" /\ start[t] = "saving" => s = t
       /\ \A k \in writing, s \in Starts : start[s] # "saving"

FInv == CInv /\ OneSave

LEMMA NothingSaved ==
  ASSUME \A k \in writing : saving[k] # {}, BeingSaved = {}
  PROVE  writing = {} /\ \A s \in Starts : start[s] # "saving"
<1>1. \A k \in writing : saving[k] \subseteq BeingSaved
  BY DEF BeingSaved
<1>2. \A s \in Starts : start[s] = "saving" => read[s] \in BeingSaved
  BY DEF BeingSaved
<1> QED BY <1>1, <1>2

LEMMA NothingSavedNext ==
  ASSUME (\A k \in writing : saving[k] # {})', BeingSaved' = {}
  PROVE  writing' = {} /\ \A s \in Starts : start'[s] # "saving"
<1>1. \A k \in writing' : saving'[k] \subseteq BeingSaved'
  BY DEF BeingSaved
<1>2. \A s \in Starts : start'[s] = "saving" => read'[s] \in BeingSaved'
  BY DEF BeingSaved
<1> QED BY <1>1, <1>2

\* A save that ends, or a call of overlapping ones: when the last of these has ended
\* there is no save to overlap.
LEMMA EndMaps ==
  ASSUME OneSave, NEW list, Store!Muddle \/ Store!Commit(list) \/ Store!Abort(list),
         writing' \subseteq writing, \A k \in writing' : saving'[k] = saving[k],
         \A k \in Keys : saving'[k] \subseteq saving[k],
         \A s \in Starts : start'[s] = "saving" => start[s] = "saving"
  PROVE  OneSave'
<1>1. (\A k \in writing : saving[k] # {})'
  BY DEF OneSave
<1>2. \A k \in Keys : \A a, b \in saving'[k] : a = b
  BY DEF OneSave
<1>3. CASE Store!Muddle
  <2>1. overlapped' = (BeingSaved' # {})
    BY <1>3 DEF Store!Muddle
  <2>2. ~overlapped' => writing' = {} /\ \A s \in Starts : start'[s] # "saving"
    BY <1>1, <2>1, NothingSavedNext
  <2> QED BY <1>1, <1>2, <2>2 DEF OneSave
<1>4. CASE Store!Commit(list) \/ Store!Abort(list)
  <2>1. ~overlapped
    BY <1>4 DEF Store!Commit, Store!Abort
  <2> QED BY <1>1, <1>2, <2>1 DEF OneSave
<1> QED BY <1>3, <1>4

\* A step that begins no save, and of which those that have begun go on.
LEMMA SameSaves ==
  ASSUME OneSave, UNCHANGED file,
         \A k \in Keys : saving'[k] # saving[k] =>
            k \notin writing /\ \A a, b \in saving'[k] : a = b,
         \A s \in Starts : /\ start'[s] = "saving" <=> start[s] = "saving"
                           /\ start[s] = "saving" => read'[s] = read[s],
         writing \subseteq Keys
  PROVE  OneSave' /\ UNCHANGED <<disk, BeingSaved, overlapped>>
<1> USE DEF file
<1>1. OneSave'
  BY DEF OneSave
<1>2. UNION {saving'[k] : k \in writing} = UNION {saving[k] : k \in writing}
  <2>1. \A k \in writing : saving'[k] = saving[k]
    OBVIOUS
  <2> QED BY <2>1
<1>3. {read'[s] : s \in {t \in Starts : start'[t] = "saving"}}
        = {read[s] : s \in {t \in Starts : start[t] = "saving"}}
  OBVIOUS
<1>4. BeingSaved' = BeingSaved
  BY <1>2, <1>3 DEF BeingSaved
<1> QED BY <1>1, <1>4

Mapped == OneSave' /\ [Store!Next]_<<disk, BeingSaved, overlapped>>

LEMMA StartMaps ==
  ASSUME FInv, NEW s \in Starts,
         \/ StartCheck(s) \/ LoadDevices(s) \/ AssignDevices(s)
         \/ FindId(s) \/ MissId(s) \/ BeginId(s) \/ IdSaved(s) \/ IdFails(s)
         \/ OpenPairing(s) \/ Bind(s) \/ BindFails(s) \/ Install(s)
  PROVE  Mapped
<1>0. /\ start \in [Starts -> Awaits] /\ read \in [Starts -> DeviceLists]
      /\ writing \subseteq Keys /\ OneSave /\ overlapped \in BOOLEAN
      /\ \A t \in Starts : read[t] \in Storable
  BY StorableIsKnown DEF FInv, CInv, TInv, TypeOK, ListsKnown
<1>1. CASE \/ StartCheck(s) \/ LoadDevices(s) \/ AssignDevices(s) \/ FindId(s) \/ MissId(s)
           \/ OpenPairing(s) \/ Bind(s) \/ BindFails(s) \/ Install(s)
  <2>1. UNCHANGED <<file, saving>> /\ start[s] # "saving"
    BY <1>1 DEF StartCheck, LoadDevices, AssignDevices, FindId, MissId, OpenPairing,
                Bind, BindFails, Install, At
  <2>2. PICK await \in Awaits \ {"saving"} : start' = [start EXCEPT ![s] = await]
    BY <1>1 DEF StartCheck, LoadDevices, AssignDevices, FindId, MissId, OpenPairing,
                Bind, BindFails, Install, Go, Awaits
  <2>3. \A t \in Starts : t # s => read'[t] = read[t]
    BY <1>0, <1>1 DEF StartCheck, LoadDevices, ReadFile, AssignDevices, FindId, MissId,
                OpenPairing, Bind, BindFails, Install
  <2>4. \A t \in Starts : /\ start'[t] = "saving" <=> start[t] = "saving"
                          /\ start[t] = "saving" => read'[t] = read[t]
    BY <1>0, <2>1, <2>2, <2>3
  <2> QED BY <1>0, <2>1, <2>4, SameSaves DEF Mapped
<1>2. CASE BeginId(s)
  <2>1. Store!BeginSave(read[s]) /\ UNCHANGED <<writing, read, saving>>
    BY <1>2 DEF BeginId
  <2>2. start' = [start EXCEPT ![s] = "saving"]
    BY <1>2 DEF BeginId, Go
  <2>3. ASSUME ~overlapped' PROVE writing = {} /\ \A t \in Starts : start[t] # "saving"
    BY <1>0, <2>1, <2>3, NothingSaved DEF Store!BeginSave, OneSave
  <2>4. OneSave'
    BY <1>0, <2>1, <2>2, <2>3 DEF OneSave
  <2> QED BY <1>0, <2>1, <2>4 DEF Mapped, Store!Next
<1>3. CASE IdSaved(s) \/ IdFails(s)
  <2>1. /\ start[s] = "saving" /\ start' = [start EXCEPT ![s] = "named"]
        /\ UNCHANGED <<writing, saving>>
        /\ Store!Muddle \/ Store!Commit(read[s]) \/ Store!Abort(read[s])
    BY <1>3 DEF IdSaved, IdFails, At, Go, Done
  <2>2. \A t \in Starts : start'[t] = "saving" => start[t] = "saving"
    BY <1>0, <2>1
  <2>3. OneSave'
    BY <1>0, <2>1, <2>2, EndMaps
  <2> QED BY <1>0, <2>1, <2>3 DEF Mapped, Store!Next
<1> QED BY <1>1, <1>2, <1>3

LEMMA KeyMaps ==
  ASSUME FInv, NEW k \in Keys,
         \/ Connect(k) \/ Disconnect(k) \/ Pair(k) \/ PairNoSlot(k)
         \/ Revoke(k) \/ BeginWrite(k) \/ Saved(k) \/ SaveFails(k)
  PROVE  Mapped
<1>0. /\ saving \in [Keys -> SUBSET DeviceLists] /\ writing \subseteq Keys /\ OneSave
      /\ overlapped \in BOOLEAN /\ \A j \in Keys : \A list \in saving[j] : list \in Storable
  BY StorableIsKnown DEF FInv, CInv, TInv, TypeOK, ListsKnown
<1>1. CASE Connect(k) \/ Disconnect(k) \/ PairNoSlot(k)
  <2>1. UNCHANGED <<file, saving, start, read>>
    BY <1>1 DEF Connect, Disconnect, PairNoSlot
  <2> QED BY <1>0, <2>1, SameSaves DEF Mapped
<1>2. CASE Pair(k) \/ Revoke(k)
  <2>1. UNCHANGED <<file, start, read>> /\ saving' = [saving EXCEPT ![k] = {devices'}]
    BY <1>2 DEF Pair, Revoke
  <2>2. saving[k] = {}
    BY <1>2 DEF Pair, Revoke, FInv, CInv, CopyInv, InOrder
  <2>3. k \notin writing
    BY <1>0, <2>2 DEF OneSave
  <2>4. \A j \in Keys : saving'[j] = IF j = k THEN {devices'} ELSE saving[j]
    BY <1>0, <2>1
  <2>5. \A j \in Keys : saving'[j] # saving[j] =>
           j \notin writing /\ \A a, b \in saving'[j] : a = b
    BY <2>3, <2>4
  <2> QED BY <1>0, <2>1, <2>5, SameSaves DEF Mapped
<1>3. CASE BeginWrite(k)
  <2>1. /\ saving[k] # {} /\ writing' = writing \cup {k}
        /\ UNCHANGED <<start, read, saving>>
        /\ \E list \in saving[k] : Store!BeginSave(list)
    BY <1>3 DEF BeginWrite
  <2>2. PICK list \in saving[k] : Store!BeginSave(list)
    BY <2>1
  <2>3. ASSUME ~overlapped' PROVE writing = {} /\ \A t \in Starts : start[t] # "saving"
    BY <1>0, <2>2, <2>3, NothingSaved DEF Store!BeginSave, OneSave
  <2>4. OneSave'
    BY <1>0, <2>1, <2>3 DEF OneSave
  <2> QED BY <1>0, <2>2, <2>4 DEF Mapped, Store!Next
<1>4. CASE Saved(k) \/ SaveFails(k)
  <2>1. /\ k \in writing /\ writing' = writing \ {k}
        /\ saving' = [saving EXCEPT ![k] = {}] /\ UNCHANGED <<start, read>>
        /\ Store!Muddle \/ \E list \in saving[k] : Store!Commit(list) \/ Store!Abort(list)
    BY <1>4 DEF Saved, SaveFails, EndWrite, Done
  <2>2. PICK list : Store!Muddle \/ Store!Commit(list) \/ Store!Abort(list)
    BY <2>1
  <2>3. \A j \in Keys : saving'[j] = IF j = k THEN {} ELSE saving[j]
    BY <1>0, <2>1
  <2>4. OneSave'
    BY <1>0, <2>1, <2>2, <2>3, EndMaps
  <2>5. Store!Next
    BY <1>0, <2>1 DEF Store!Next
  <2> QED BY <2>4, <2>5 DEF Mapped
<1> QED BY <1>1, <1>2, <1>3, <1>4

LEMMA StepMaps == FInv /\ [Next]_vars => Mapped
<1> SUFFICES ASSUME FInv, [Next]_vars PROVE Mapped
  OBVIOUS
<1>0. writing \subseteq Keys /\ OneSave
  BY DEF FInv, CInv, TInv, TypeOK
<1>1. ASSUME NEW s \in Starts,
             \/ StartCheck(s) \/ LoadDevices(s) \/ AssignDevices(s)
             \/ FindId(s) \/ MissId(s) \/ BeginId(s) \/ IdSaved(s) \/ IdFails(s)
             \/ OpenPairing(s) \/ Bind(s) \/ BindFails(s) \/ Install(s)
      PROVE  Mapped
  BY <1>1, StartMaps
<1>2. ASSUME NEW k \in Keys,
             \/ Connect(k) \/ Disconnect(k) \/ Pair(k) \/ PairNoSlot(k)
             \/ Revoke(k) \/ BeginWrite(k) \/ Saved(k) \/ SaveFails(k)
      PROVE  Mapped
  BY <1>2, KeyMaps
<1>3. CASE Stop \/ UNCHANGED vars
  <2>1. UNCHANGED <<file, saving, start, read>>
    BY <1>3 DEF Stop, vars
  <2> QED BY <1>0, <2>1, SameSaves DEF Mapped
<1>4. CASE Tangle
  <2>1. UNCHANGED <<writing, saving, start>> /\ Store!Muddle
    BY <1>4 DEF Tangle
  <2>2. OneSave'
    BY <1>0, <2>1, EndMaps
  <2> QED BY <2>1, <2>2 DEF Mapped, Store!Next
<1>5. CASE Restart
  <2>1. /\ writing' = {} /\ \A k \in Keys : saving'[k] = {}
        /\ \A s \in Starts : start'[s] = "idle"
        /\ Store!Die
    BY <1>5 DEF Restart
  <2>2. OneSave'
    BY <2>1 DEF OneSave
  <2> QED BY <2>1, <2>2 DEF Mapped, Store!Next
<1> QED BY <1>1, <1>2, <1>3, <1>4, <1>5 DEF Next

LEMMA FileAlways == Spec => []FInv /\ [][Store!Next]_<<disk, BeingSaved, overlapped>>
<1>1. Init => FInv
  <2>1. Init => OneSave
    BY DEF Init, OneSave
  <2> QED BY <2>1, InitCopies DEF FInv
<1>2. FInv /\ [Next]_vars => FInv'
  BY StepCopies, StepMaps DEF FInv, Mapped
<1>3. FInv /\ [Next]_vars => [Store!Next]_<<disk, BeingSaved, overlapped>>
  BY StepMaps DEF Mapped
<1> QED BY <1>1, <1>2, <1>3, PTL DEF Spec

\* However saves, starts and kills meet, receiver.json goes through the states of
\* an AtomicStore: with ReceiverStoreProofs!StoreIsAtomic, what is proved of the
\* lists holds over the system calls of receiver_store.rs:88.
THEOREM FileIsAtomicStore == Spec => FileIsStore
<1>1. Init => Store!Init
  BY DEF Init, Store!Init, BeingSaved
<1> QED BY <1>1, FileAlways, PTL DEF Spec, FileIsStore, Store!Spec

\* A save that has begun amid no other is the only one the file knows of: nothing in
\* the server keeps persist_devices or ensure_id from returning (receiver.rs:543).
THEOREM NoSaveIsStuck == Spec => []SavesCanEnd
<1>1. FInv => SavesCanEnd
  <2> SUFFICES ASSUME FInv, ~overlapped
               PROVE  /\ \A k \in writing : saving[k] = BeingSaved /\ saving[k] # {}
                      /\ \A s \in Starts : start[s] = "saving" => BeingSaved = {read[s]}
    BY DEF SavesCanEnd
  <2>0. /\ \A j, k \in writing : j = k
        /\ \A s, t \in Starts : start[s] = "saving" /\ start[t] = "saving" => s = t
        /\ \A k \in writing, s \in Starts : start[s] # "saving"
        /\ \A k \in writing : saving[k] # {}
    BY DEF FInv, OneSave
  <2>1. ASSUME NEW k \in writing PROVE saving[k] = BeingSaved
    <3>1. writing = {k} /\ {t \in Starts : start[t] = "saving"} = {}
      BY <2>0
    <3>2. UNION {saving[j] : j \in writing} = saving[k]
      BY <3>1
    <3>3. {read[s] : s \in {t \in Starts : start[t] = "saving"}} = {}
      BY <3>1
    <3> QED BY <3>2, <3>3 DEF BeingSaved
  <2>2. ASSUME NEW s \in Starts, start[s] = "saving" PROVE BeingSaved = {read[s]}
    <3>1. writing = {} /\ {t \in Starts : start[t] = "saving"} = {s}
      BY <2>0, <2>2
    <3>2. UNION {saving[j] : j \in writing} = {}
      BY <3>1
    <3>3. {read[t] : t \in {u \in Starts : start[u] = "saving"}} = {read[s]}
      BY <3>1
    <3> QED BY <3>2, <3>3 DEF BeingSaved
  <2> QED BY <2>0, <2>1, <2>2
<1> QED BY <1>1, FileAlways, PTL
=============================================================================

--------------------------- MODULE DownloadsProofs ---------------------------
(* Theorems about Downloads, for every pool of ids, number of slots and      *)
(* platform: the types of its state, that the queue never holds an id twice  *)
(* or one that runs, that no run starts beyond the slots, that the list tells *)
(* what runs, that a pause holds and that what is done stays done (for every  *)
(* item that no background job wrote an old entry over), and that the queue  *)
(* implements a pool of slots that serves its clients in turn.               *)
EXTENDS Downloads, FiniteSetTheorems, SequenceTheorems, TLAPS

------------------------------------------------------------------------------
(* The list helpers keep a list a list.                                      *)

LEMMA ListTypes ==
  ASSUME NEW list \in Lists, NEW id \in Ids
  PROVE  /\ \A st \in Listed : SetStatus(list, id, st) \in Lists
         /\ \A flag \in BOOLEAN : SetPaused(list, id, flag) \in Lists
  <1>1. \A i \in Ids : list[i] \in Entries
    BY DEF Lists
  <1>2. ASSUME NEW st \in Listed PROVE SetStatus(list, id, st) \in Lists
    BY <1>1 DEF SetStatus, Lists, Entries, Listed
  <1>3. ASSUME NEW flag \in BOOLEAN PROVE SetPaused(list, id, flag) \in Lists
    BY <1>1 DEF SetPaused, Lists, Entries, Listed
  <1> QED BY <1>2, <1>3

LEMMA LaunchedType ==
  ASSUME NEW list \in Lists, NEW go \in SUBSET Ids
  PROVE  Launched(list, go) \in Lists
  <1>1. \A i \in Ids : /\ list[i] \in Entries
                       /\ [list[i] EXCEPT !.status = "downloading"] \in Entries
    BY DEF Lists, Entries, Listed
  <1> QED BY <1>1 DEF Launched, Lists

\* What tryRunNext may do to the queue and the runs, in the shape the proofs
\* need: a prefix of length k of the queue is consumed, and of its ids those
\* that are still "queued" start.
Drained(list, stopped, k) ==
  /\ DrainsTo(Active \ stopped, list, k)
  /\ queue' \in Seq(Ids)
  /\ queue' = SubSeq(queue, k + 1, Len(queue))
  /\ Len(queue') = Len(queue) - k
  /\ \A i \in 1..(Len(queue) - k) : queue'[i] = queue[k + i]
  /\ Startable(list, k) \in SUBSET Ids
  /\ entry' = Launched(list, Startable(list, k))
  /\ run' = [i \in Ids |-> IF i \in Startable(list, k) THEN FirstStep
                           ELSE IF i \in stopped THEN "none" ELSE run[i]]
  /\ reason' = [i \in Ids |-> IF i \in Startable(list, k) \cup stopped
                              THEN "none" ELSE reason[i]]

LEMMA DrainShape ==
  ASSUME TypeOK, NEW list \in Lists, NEW stopped \in SUBSET Ids,
         TryRunNext(list, stopped)
  PROVE  \E k \in 0..Len(queue) : Drained(list, stopped, k)
  <1>1. PICK k \in 0..Len(queue) :
          /\ DrainsTo(Active \ stopped, list, k)
          /\ queue' = SubSeq(queue, k + 1, Len(queue))
          /\ entry' = Launched(list, Startable(list, k))
          /\ run' = [i \in Ids |-> IF i \in Startable(list, k) THEN FirstStep
                                   ELSE IF i \in stopped THEN "none" ELSE run[i]]
          /\ reason' = [i \in Ids |-> IF i \in Startable(list, k) \cup stopped
                                      THEN "none" ELSE reason[i]]
    BY DEF TryRunNext
  <1>2. queue \in Seq(Ids) /\ Len(queue) \in Nat
    BY LenProperties DEF TypeOK
  <1>3. /\ queue' \in Seq(Ids)
        /\ Len(queue') = Len(queue) - k
        /\ \A i \in 1..(Len(queue) - k) : queue'[i] = queue[k + i]
    <2>1. CASE k = Len(queue)
      BY <1>1, <1>2, <2>1, SubSeqEmpty, EmptySeq
    <2>2. CASE k < Len(queue)
      <3>1. k + 1 \in 1..Len(queue) /\ k + 1 \in Nat
        BY <1>2, <2>2
      <3>2. /\ SubSeq(queue, k + 1, Len(queue)) \in Seq(Ids)
            /\ Len(SubSeq(queue, k + 1, Len(queue))) = Len(queue) - k
            /\ \A i \in 1..(Len(queue) - k) :
                 SubSeq(queue, k + 1, Len(queue))[i] = queue[k + i]
        BY <1>2, <3>1, SubSeqProperties, Z3
      <3> QED BY <1>1, <3>2
    <2> QED BY <1>2, <2>1, <2>2
  <1>4. Startable(list, k) \in SUBSET Ids
    BY <1>2, ElementOfSeq DEF Startable
  <1> QED BY <1>1, <1>3, <1>4 DEF Drained

LEMMA DrainTypes ==
  ASSUME TypeOK, NEW list \in Lists, NEW stopped \in SUBSET Ids,
         TryRunNext(list, stopped)
  PROVE  /\ entry' \in Lists
         /\ queue' \in Seq(Ids)
         /\ run' \in [Ids -> Steps]
         /\ reason' \in [Ids -> {"none", "paused", "stalled"}]
  <1>1. PICK k \in 0..Len(queue) : Drained(list, stopped, k)
    BY DrainShape
  <1>2. entry' \in Lists
    BY <1>1, LaunchedType DEF Drained
  <1>3. run' \in [Ids -> Steps]
    BY <1>1 DEF Drained, FirstStep, Steps, TypeOK
  <1>4. reason' \in [Ids -> {"none", "paused", "stalled"}]
    BY <1>1 DEF Drained, TypeOK
  <1> QED BY <1>1, <1>2, <1>3, <1>4 DEF Drained

------------------------------------------------------------------------------
(* Type correctness: TypeOK is inductive as it stands.                       *)

LEMMA InitTypes == Init => TypeOK
  <1> SUFFICES ASSUME Init PROVE TypeOK
    OBVIOUS
  <1>1. [i \in Ids |-> Absent] \in Lists
    BY DEF Lists, Entries, Listed, Absent
  <1>2. <<>> \in Seq(Ids)
    BY EmptySeq
  <1> QED BY <1>1, <1>2, DownloadsAssumption
          DEF Init, TypeOK, Steps, Idle, NoScan, DownloadsAssumption

\* A run that ends drains the queue and touches no job, timer or setting.
LEMMA EndRunTypes ==
  ASSUME TypeOK, NEW id \in Ids, NEW list \in Lists, EndRun(id, list),
         retries' \in [Ids -> 0..2], timers' \in [Ids -> 0..MaxTimers],
         sidecars' \subseteq Library
  PROVE  TypeOK'
  <1>1. {id} \in SUBSET Ids /\ TryRunNext(list, {id})
    BY DEF EndRun
  <1>2. /\ entry' \in Lists /\ queue' \in Seq(Ids)
        /\ run' \in [Ids -> Steps]
        /\ reason' \in [Ids -> {"none", "paused", "stalled"}]
    BY <1>1, DrainTypes
  <1> QED BY <1>2 DEF EndRun, TypeOK, ui, jobs

\* resumeDownload, whoever calls it.
LEMMA ResumeTypes ==
  ASSUME TypeOK, NEW id \in Ids, Resume(id)
  PROVE  /\ entry' \in Lists /\ queue' \in Seq(Ids)
         /\ run' \in [Ids -> Steps]
         /\ reason' \in [Ids -> {"none", "paused", "stalled"}]
  <1> DEFINE list == SetPaused(entry, id, FALSE)
  <1>1. entry \in Lists /\ queue \in Seq(Ids) /\ run \in [Ids -> Steps]
        /\ reason \in [Ids -> {"none", "paused", "stalled"}]
    BY DEF TypeOK
  <1>2. list \in Lists
    BY <1>1, ListTypes
  <1>3. SetStatus(list, id, "queued") \in Lists
    <2>1. "queued" \in Listed
      BY DEF Listed
    <2> QED BY <1>2, <2>1, ListTypes
  <1>4. Launched(list, {id}) \in Lists
    BY <1>2, LaunchedType
  <1>5. Append(queue, id) \in Seq(Ids)
    BY <1>1, AppendProperties
  <1>6. [run EXCEPT ![id] = FirstStep] \in [Ids -> Steps]
    BY <1>1 DEF FirstStep, Steps
  <1>7. [reason EXCEPT ![id] = "none"] \in [Ids -> {"none", "paused", "stalled"}]
    BY <1>1
  <1>8. CASE ~Resumable(id)
    BY <1>1, <1>8 DEF Resume
  <1>9. CASE Resumable(id) /\ Cardinality(Active) < slots
    BY <1>1, <1>4, <1>6, <1>7, <1>9 DEF Resume
  <1>10. CASE Resumable(id) /\ ~(Cardinality(Active) < slots)
    BY <1>1, <1>3, <1>5, <1>10 DEF Resume
  <1> QED BY <1>8, <1>9, <1>10

\* Taking an id out of the queue leaves a queue.
LEMMA DropTypes ==
  ASSUME TypeOK, NEW id \in Ids, DropFromQueue(id)
  PROVE  queue' \in Seq(Ids)
  <1>1. queue \in Seq(Ids) /\ Len(queue) \in Nat
    BY LenProperties DEF TypeOK
  <1>2. CASE queue' = queue
    BY <1>1, <1>2
  <1>3. ASSUME NEW i \in 1..Len(queue),
               queue' = SubSeq(queue, 1, i - 1) \o SubSeq(queue, i + 1, Len(queue))
        PROVE  queue' \in Seq(Ids)
    <2>1. /\ SubSeq(queue, 1, i - 1) \in Seq(Ids)
          /\ SubSeq(queue, i + 1, Len(queue)) \in Seq(Ids)
      BY <1>1, SubSeqProperties, ElementOfSeq
    <2> QED BY <1>3, <2>1, ConcatProperties
  <1> QED BY <1>2, <1>3 DEF DropFromQueue

\* The commands of the user and of the settings page.
LEMMA CommandTypes ==
  ASSUME TypeOK, NEW id \in Ids,
         \/ StartDownload(id) \/ UserResume(id) \/ PauseActive(id)
         \/ PauseQueued(id) \/ RemoveDownload(id) \/ RemoveFinish(id)
  PROVE  TypeOK'
  <1>1. entry \in Lists /\ queue \in Seq(Ids) /\ run \in [Ids -> Steps]
        /\ reason \in [Ids -> {"none", "paused", "stalled"}]
    BY DEF TypeOK
  <1>2. [reason EXCEPT ![id] = AbortReason(id)]
          \in [Ids -> {"none", "paused", "stalled"}]
    BY <1>1 DEF AbortReason
  <1>3. SetPaused(SetStatus(entry, id, "paused"), id, TRUE) \in Lists
    <2>1. "paused" \in Listed
      BY DEF Listed
    <2>2. SetStatus(entry, id, "paused") \in Lists
      BY <1>1, <2>1, ListTypes
    <2> QED BY <2>2, ListTypes
  <1>4. held \cup {id} \subseteq Ids /\ held \ {id} \subseteq Ids
    BY DEF TypeOK
  <1>5. CASE StartDownload(id)
    <2>1. Append(queue, id) \in Seq(Ids)
      BY <1>1, AppendProperties
    <2>2. [run EXCEPT ![id] = FirstStep] \in [Ids -> Steps]
      BY <1>1 DEF FirstStep, Steps
    <2>3. \A st \in {"downloading", "queued"} :
            [entry EXCEPT ![id] = [status |-> st, userPaused |-> FALSE]] \in Lists
      BY <1>1 DEF Lists, Entries, Listed
    <2>4. entry' \in Lists
      BY <1>5, <2>3 DEF StartDownload
    <2>5. queue' \in Seq(Ids) /\ run' \in [Ids -> Steps]
      BY <1>1, <1>5, <2>1, <2>2 DEF StartDownload
    <2>6. reason' \in [Ids -> {"none", "paused", "stalled"}]
          /\ retries' \in [Ids -> 0..2]
      BY <1>5 DEF StartDownload, TypeOK
    <2> QED BY <1>5, <2>4, <2>5, <2>6 DEF StartDownload, TypeOK, jobs
  <1>6. CASE UserResume(id)
    <2>1. Resume(id)
      BY <1>6 DEF UserResume
    <2>2. /\ entry' \in Lists /\ queue' \in Seq(Ids)
          /\ run' \in [Ids -> Steps]
          /\ reason' \in [Ids -> {"none", "paused", "stalled"}]
      BY <2>1, ResumeTypes
    <2> QED BY <1>6, <2>2, <1>4 DEF UserResume, TypeOK, ui, jobs
  <1>7. CASE PauseActive(id)
    BY <1>1, <1>2, <1>3, <1>4, <1>7 DEF PauseActive, TypeOK, ui, jobs
  <1>8. CASE PauseQueued(id)
    <2>1. queue' \in Seq(Ids)
      BY <1>8, DropTypes DEF PauseQueued
    <2> QED BY <1>3, <1>4, <1>8, <2>1 DEF PauseQueued, TypeOK, ui, jobs
  <1>9. CASE RemoveDownload(id)
    <2>1. queue' \in Seq(Ids)
      BY <1>9, DropTypes DEF RemoveDownload
    <2>2. [entry EXCEPT ![id] = Absent] \in Lists
      BY <1>1 DEF Lists, Entries, Absent
    <2> QED BY <1>2, <1>4, <1>9, <2>1, <2>2 DEF RemoveDownload, TypeOK, ui, jobs
  <1>10. CASE RemoveFinish(id)
    <2>1. /\ entry' \in Lists /\ queue' \in Seq(Ids)
          /\ run' \in [Ids -> Steps]
          /\ reason' \in [Ids -> {"none", "paused", "stalled"}]
      <3>1. CASE TryRunNext(entry, {})
        BY <1>1, <3>1, DrainTypes
      <3>2. CASE UNCHANGED <<entry, queue, run, reason>>
        BY <1>1, <3>2
      <3> QED BY <1>10, <3>1, <3>2 DEF RemoveFinish
    <2>2. lost' \subseteq Ids /\ sidecars' \subseteq Library
      BY <1>10 DEF RemoveFinish, TypeOK
    <2> QED BY <1>10, <2>1, <2>2 DEF RemoveFinish, TypeOK, jobs
  <1> QED BY <1>5, <1>6, <1>7, <1>8, <1>9, <1>10

\* The steps of one run.
LEMMA RunStepTypes ==
  ASSUME TypeOK, NEW id \in Ids, RunStep(id)
  PROVE  TypeOK'
  <1>1. entry \in Lists /\ run \in [Ids -> Steps]
        /\ retries \in [Ids -> 0..2] /\ timers \in [Ids -> 0..MaxTimers]
        /\ sidecars \subseteq Library
    BY DEF TypeOK
  <1>2. \A st \in Listed : SetStatus(entry, id, st) \in Lists
    BY <1>1, ListTypes
  <1>3. {"done", "paused", "stalled", "error", "downloading"} \subseteq Listed
    BY DEF Listed
  <1>4. SetPaused(SetStatus(entry, id, "paused"), id, TRUE) \in Lists
    BY <1>2, <1>3, ListTypes
  <1>5. \A to \in Steps : [run EXCEPT ![id] = to] \in [Ids -> Steps]
    BY <1>1
  <1>6. CASE StatOk(id)
    <2>1. /\ entry' = SetStatus(entry, id, "downloading")
          /\ run' = [run EXCEPT ![id] = "fetch"]
          /\ UNCHANGED <<queue, reason, retries, timers, boot, removing, held, jobs, ui>>
      BY <1>6 DEF StatOk, Advance
    <2>2. entry' \in Lists /\ run' \in [Ids -> Steps]
      BY <1>2, <1>3, <1>5, <2>1 DEF Steps
    <2> QED BY <2>1, <2>2 DEF TypeOK, ui, jobs
  <1>7. CASE StatThrows(id) \/ ResponseOk(id) \/ BodyEnds(id)
    <2>1. /\ \E to \in {"leaked", "body", "verify"} : run' = [run EXCEPT ![id] = to]
          /\ UNCHANGED <<entry, queue, reason, retries, timers, boot, removing, held, jobs, ui>>
      BY <1>7 DEF StatThrows, ResponseOk, BodyEnds, Advance
    <2>2. run' \in [Ids -> Steps]
      BY <1>5, <2>1 DEF Steps
    <2> QED BY <2>1, <2>2 DEF TypeOK, ui, jobs
  <1>8. CASE RangeNotSatisfiable(id)
    <2>1. EndRun(id, SetStatus(entry, id, "done"))
          /\ retries' = retries /\ timers' = timers /\ sidecars' = sidecars
      BY <1>8 DEF RangeNotSatisfiable
    <2> QED BY <1>1, <1>2, <1>3, <2>1, EndRunTypes
  <1>9. CASE Complete(id)
    <2>1. EndRun(id, SetStatus(entry, id, "done")) /\ timers' = timers
      BY <1>9 DEF Complete
    <2>2. retries' \in [Ids -> 0..2] /\ sidecars' \subseteq Library
      BY <1>1, <1>9 DEF Complete
    <2> QED BY <1>1, <1>2, <1>3, <2>1, <2>2, EndRunTypes
  <1>10. CASE FailDesktop(id)
    <2>0. sidecars' \subseteq Library
      BY <1>1, <1>10 DEF FailDesktop
    <2>1. CASE EndStalled(id)
      <3>1. EndRun(id, SetStatus(entry, id, "stalled"))
            /\ retries' = retries /\ timers' = timers
        BY <2>1 DEF EndStalled
      <3> QED BY <1>1, <2>0, <1>2, <1>3, <3>1, EndRunTypes
    <2>2. CASE EndPaused(id)
      <3>1. EndRun(id, SetPaused(SetStatus(entry, id, "paused"), id, TRUE))
            /\ retries' = retries /\ timers' = timers
        BY <2>2 DEF EndPaused
      <3> QED BY <1>1, <2>0, <1>4, <3>1, EndRunTypes
    <2>3. CASE EndLocked(id)
      <3>1. EndRun(id, SetStatus(entry, id, "paused"))
        BY <2>3 DEF EndLocked
      <3>2. retries' \in [Ids -> 0..2] /\ timers' \in [Ids -> 0..MaxTimers]
        BY <1>1, <2>3, DownloadsAssumption DEF EndLocked, DownloadsAssumption
      <3> QED BY <1>2, <1>3, <2>0, <3>1, <3>2, EndRunTypes
    <2>4. CASE EndError(id)
      <3>1. EndRun(id, SetStatus(entry, id, "error")) /\ timers' = timers
        BY <2>4 DEF EndError
      <3>2. retries' \in [Ids -> 0..2]
        BY <1>1, <2>4 DEF EndError
      <3> QED BY <1>1, <2>0, <1>2, <1>3, <3>1, <3>2, EndRunTypes
    <2> QED BY <1>10, <2>1, <2>2, <2>3, <2>4 DEF FailDesktop
  <1>11. CASE FailAndroid(id)
    <2>1. run' \in [Ids -> Steps]
      BY <1>1, <1>11 DEF FailAndroid, Steps
    <2> QED BY <1>11, <2>1 DEF FailAndroid, TypeOK, ui, jobs
  <1>12. CASE CleanedUp(id)
    <2>1. retries' = retries /\ timers' = timers /\ sidecars' = sidecars
      BY <1>12 DEF CleanedUp
    <2>2. PICK list \in Lists : EndRun(id, list)
      BY <1>2, <1>3, <1>4, <1>12 DEF CleanedUp
    <2> QED BY <1>1, <2>1, <2>2, EndRunTypes
  <1> QED BY <1>6, <1>7, <1>8, <1>9, <1>10, <1>11, <1>12 DEF RunStep

\* BootResume writes a list, extends the queue by an order of the resumable ids.
\* (Stated with the witnesses, which the queue and slot proofs need as well.)
BootTodo == {id \in boot : Resumable(id)}
BootRoom == IF Cardinality(Active) < slots THEN slots - Cardinality(Active) ELSE 0
BootList == [i \in Ids |-> IF i \in BootTodo THEN [entry[i] EXCEPT !.userPaused = FALSE]
                           ELSE entry[i]]
BootWaiting(go) == [i \in Ids |-> IF i \in BootTodo \ go
                                  THEN [BootList[i] EXCEPT !.status = "queued"]
                                  ELSE BootList[i]]

BootPlan(k, n, order) ==
  /\ n = Cardinality(BootTodo) /\ k <= n /\ k <= BootRoom /\ (k = n \/ k = BootRoom)
  /\ order \in [1..n -> BootTodo]
  /\ \A i, j \in 1..n : order[i] = order[j] => i = j
  /\ run' = [i \in Ids |-> IF i \in {order[m] : m \in 1..k} THEN FirstStep
                           ELSE run[i]]
  /\ reason' = [i \in Ids |-> IF i \in {order[m] : m \in 1..k} THEN "none"
                              ELSE reason[i]]
  /\ queue' = queue \o [i \in 1..(n - k) |-> order[k + i]]
  /\ entry' \in Lists
  /\ entry' = Launched(BootWaiting({order[m] : m \in 1..k}), {order[m] : m \in 1..k})

LEMMA BootShape ==
  ASSUME TypeOK, BootResume
  PROVE  \E k, n \in Nat, order \in Orders(BootTodo) : BootPlan(k, n, order)
  <1> DEFINE n == Cardinality(BootTodo)
             k == IF BootRoom < n THEN BootRoom ELSE n
  <1>1. /\ BootTodo \subseteq Ids /\ IsFiniteSet(BootTodo) /\ n \in Nat
        /\ IsFiniteSet(Active) /\ Cardinality(Active) \in Nat
    <2>1. BootTodo \subseteq Ids /\ Active \subseteq Ids
      BY DEF BootTodo, TypeOK, Active
    <2> QED BY <2>1, DownloadsAssumption, FS_Subset, FS_CardinalityType
            DEF DownloadsAssumption
  <1>2. slots \in Nat
    BY DownloadsAssumption DEF TypeOK, DownloadsAssumption
  <1>3. k \in Nat /\ k <= n /\ k <= BootRoom /\ (k = n \/ k = BootRoom)
    BY <1>1, <1>2 DEF BootRoom
  <1>4. PICK order \in Orders(BootTodo) :
          LET go == {order[m] : m \in 1..k}
          IN  /\ run' = [i \in Ids |-> IF i \in go THEN FirstStep ELSE run[i]]
              /\ reason' = [i \in Ids |-> IF i \in go THEN "none" ELSE reason[i]]
              /\ queue' = queue \o [i \in 1..(n - k) |-> order[k + i]]
              /\ entry' = Launched(BootWaiting(go), go)
    BY DEF BootResume, BootTodo, BootRoom, BootList, BootWaiting
  <1>5. /\ order \in [1..n -> BootTodo]
        /\ \A i, j \in 1..n : order[i] = order[j] => i = j
    BY <1>4 DEF Orders
  <1>6. {order[m] : m \in 1..k} \in SUBSET Ids
    BY <1>1, <1>3, <1>5
  <1>7. BootWaiting({order[m] : m \in 1..k}) \in Lists
    <2>1. \A e \in Entries : /\ [e EXCEPT !.userPaused = FALSE] \in Entries
                             /\ [e EXCEPT !.status = "queued"] \in Entries
      BY DEF Entries, Listed
    <2>2. BootList \in [Ids -> Entries]
      BY <2>1 DEF BootList, TypeOK, Lists
    <2>3. BootWaiting({order[m] : m \in 1..k}) \in [Ids -> Entries]
      BY <2>1, <2>2 DEF BootWaiting
    <2> QED BY <2>3 DEF Lists
  <1>8. entry' \in Lists
    BY <1>4, <1>6, <1>7, LaunchedType
  <1>9. BootPlan(k, n, order)
    BY <1>3, <1>4, <1>5, <1>8 DEF BootPlan
  <1> HIDE DEF n, k
  <1> QED BY <1>1, <1>3, <1>4, <1>9

\* Timers, page loads, the two background jobs and the settings.
LEMMA BackgroundTypes ==
  ASSUME TypeOK,
         \/ \E id \in Ids : Stall(id) \/ RetryFires(id) \/ PruneCheck(id)
         \/ \E n \in 1..MaxSlots : SetSlots(n)
         \/ Reload \/ BootResume
         \/ PruneBegin \/ PruneCommit \/ ScanBegin \/ ScanCommit
  PROVE  TypeOK'
  <1>1. [i \in Ids |-> Absent] \in Lists
    BY DEF Lists, Entries, Listed, Absent
  <1>2. Idle \in [on : BOOLEAN, list : Lists, todo : SUBSET Ids, missing : SUBSET Ids]
        /\ NoScan \in [on : BOOLEAN, list : Lists]
    BY <1>1 DEF Idle, NoScan
  <1>3. ASSUME NEW id \in Ids, Stall(id) PROVE TypeOK'
    BY <1>3 DEF Stall, TypeOK, ui, jobs
  <1>4. ASSUME NEW id \in Ids, RetryFires(id) PROVE TypeOK'
    <2>1. Resume(id)
      BY <1>4 DEF RetryFires
    <2>2. /\ entry' \in Lists /\ queue' \in Seq(Ids)
          /\ run' \in [Ids -> Steps]
          /\ reason' \in [Ids -> {"none", "paused", "stalled"}]
      BY <2>1, ResumeTypes
    <2>3. timers' \in [Ids -> 0..MaxTimers]
      BY <1>4, DownloadsAssumption DEF RetryFires, TypeOK, DownloadsAssumption
    <2>4. held' \subseteq Ids
      BY <1>4 DEF RetryFires, TypeOK
    <2> QED BY <1>4, <2>2, <2>3, <2>4 DEF RetryFires, TypeOK, ui, jobs
  <1>6. ASSUME NEW id \in Ids, PruneCheck(id) PROVE TypeOK'
    <2>1. prune' \in [on : BOOLEAN, list : Lists, todo : SUBSET Ids, missing : SUBSET Ids]
      BY <1>6 DEF PruneCheck, TypeOK
    <2>2. lost' \subseteq Ids
      BY <1>6 DEF PruneCheck, TypeOK
    <2> QED BY <1>6, <2>1, <2>2 DEF PruneCheck, TypeOK
  <1>7. ASSUME NEW n \in 1..MaxSlots, SetSlots(n) PROVE TypeOK'
    BY <1>7 DEF SetSlots, TypeOK, jobs
  <1>8. CASE Reload
    <2>1. queue' \in Seq(Ids)
      BY <1>8, EmptySeq DEF Reload
    <2>2. reloads' \in 0..MaxReloads
      BY <1>8, DownloadsAssumption DEF Reload, TypeOK, DownloadsAssumption
    <2>3. retries' \in [Ids -> 0..2] /\ timers' \in [Ids -> 0..MaxTimers]
      BY <1>8, DownloadsAssumption DEF Reload, DownloadsAssumption
    <2>4. run' \in [Ids -> Steps] /\ boot' \subseteq Ids
      BY <1>8 DEF Reload, Steps, Interrupted
    <2>5. entry' \in Lists /\ slots' \in 1..MaxSlots
      BY <1>8 DEF Reload, TypeOK
    <2> QED BY <1>2, <1>8, <2>1, <2>2, <2>3, <2>4, <2>5 DEF Reload, TypeOK
  <1>9. CASE BootResume
    <2>0. PICK k, n \in Nat, order \in Orders(BootTodo) : BootPlan(k, n, order)
      BY <1>9, BootShape
    <2>1. /\ order \in [1..n -> BootTodo]
          /\ n = Cardinality(BootTodo) /\ k <= n
          /\ run' = [i \in Ids |-> IF i \in {order[m] : m \in 1..k} THEN FirstStep
                                   ELSE run[i]]
          /\ reason' = [i \in Ids |-> IF i \in {order[m] : m \in 1..k} THEN "none"
                                      ELSE reason[i]]
          /\ queue' = queue \o [i \in 1..(n - k) |-> order[k + i]]
          /\ entry' \in Lists
      BY <2>0 DEF BootPlan
    <2>2. run' \in [Ids -> Steps] /\ reason' \in [Ids -> {"none", "paused", "stalled"}]
      BY <2>1 DEF TypeOK, FirstStep, Steps
    <2>3. queue' \in Seq(Ids)
      <3>1. [i \in 1..(n - k) |-> order[k + i]] \in [1..(n - k) -> Ids]
        <4>1. \A i \in 1..(n - k) : k + i \in 1..n
          BY <2>1
        <4>2. order \in [1..n -> BootTodo] /\ BootTodo \subseteq Ids
          BY <2>1 DEF BootTodo, TypeOK
        <4> QED BY <4>1, <4>2
      <3>2. n - k \in Nat
        BY <2>1
      <3>3. [i \in 1..(n - k) |-> order[k + i]] \in Seq(Ids)
        BY <3>1, <3>2, SeqDef
      <3> QED BY <2>1, <3>3, ConcatProperties DEF TypeOK
    <2> QED BY <1>9, <2>1, <2>2, <2>3 DEF BootResume, TypeOK, ui, jobs
  <1>10. CASE PruneBegin
    BY <1>10, DownloadsAssumption DEF PruneBegin, TypeOK, ui, DownloadsAssumption
  <1>11. CASE PruneCommit
    <2>1. Pruned \in Lists
      BY DEF Pruned, TypeOK, Lists, Entries, Absent
    <2>2. entry' \in Lists /\ undone' \subseteq Ids
      BY <1>11, <2>1 DEF PruneCommit, WriteBack, TypeOK
    <2>3. sidecars' \subseteq Library
      BY <1>11 DEF PruneCommit, TypeOK
    <2> QED BY <1>2, <1>11, <2>2, <2>3 DEF PruneCommit, TypeOK
  <1>12. CASE ScanBegin
    BY <1>12 DEF ScanBegin, TypeOK, ui
  <1>13. CASE ScanCommit
    <2>1. Merged \in Lists
      <3>0. scan.list \in Lists
        BY DEF TypeOK
      <3>1. \A i \in Ids : /\ scan.list[i] \in Entries
                           /\ [scan.list[i] EXCEPT !.status = "done"] \in Entries
        BY <3>0 DEF Lists, Entries, Listed
      <3>2. [status |-> "done", userPaused |-> FALSE] \in Entries
        BY DEF Entries, Listed
      <3> QED BY <3>1, <3>2 DEF Merged, Lists
    <2>2. entry' \in Lists /\ undone' \subseteq Ids
      BY <1>13, <2>1 DEF ScanCommit, WriteBack, TypeOK
    <2>3. hasty' \subseteq Ids
      BY <1>13, DownloadsAssumption
         DEF ScanCommit, TypeOK, Matched, Recognised, DownloadsAssumption
    <2> QED BY <1>2, <1>13, <2>2, <2>3 DEF ScanCommit, TypeOK, ui
  <1> QED BY <1>3, <1>4, <1>6, <1>7, <1>8, <1>9, <1>10, <1>11, <1>12, <1>13

LEMMA NextTypes == TypeOK /\ [Next]_vars => TypeOK'
  <1> SUFFICES ASSUME TypeOK, [Next]_vars PROVE TypeOK'
    OBVIOUS
  <1>1. CASE UNCHANGED vars
    BY <1>1 DEF vars, ui, jobs, TypeOK
  <1>2. CASE Next
    <2>1. ASSUME NEW id \in Ids,
                 \/ StartDownload(id) \/ UserResume(id) \/ PauseActive(id)
                 \/ PauseQueued(id) \/ RemoveDownload(id) \/ RemoveFinish(id)
          PROVE  TypeOK'
      BY <2>1, CommandTypes
    <2>2. ASSUME NEW id \in Ids, RunStep(id) PROVE TypeOK'
      BY <2>2, RunStepTypes
    <2> QED BY <1>2, <2>1, <2>2, BackgroundTypes DEF Next
  <1> QED BY <1>1, <1>2

\* The module state of downloads.js and the stored list keep their types in
\* every behaviour, for any number of ids, slots, timers and page loads.
THEOREM TypeCorrect == Spec => []TypeOK
  BY InitTypes, NextTypes, PTL DEF Spec

------------------------------------------------------------------------------
(* The queue: QueueSound is inductive together with TypeOK.                  *)

LEMMA FirstStepRuns == FirstStep # "none"
  BY DEF FirstStep

\* Steps that leave the queue alone and start nothing.
LEMMA QuietSound ==
  ASSUME QueueSound, queue' = queue, Active' \subseteq Active
  PROVE  QueueSound'
  BY DEF QueueSound, InQueue

\* Draining: what is left is a suffix, what starts comes from the prefix.
LEMMA DrainSound ==
  ASSUME TypeOK, QueueSound, NEW list \in Lists, NEW stopped \in SUBSET Ids,
         TryRunNext(list, stopped)
  PROVE  QueueSound'
  <1>1. PICK k \in 0..Len(queue) : Drained(list, stopped, k)
    BY DrainShape
  <1>2. Len(queue) \in Nat
    BY LenProperties DEF TypeOK
  <1>3. \A i \in 1..Len(queue') : k + i \in 1..Len(queue) /\ queue'[i] = queue[k + i]
    BY <1>1, <1>2 DEF Drained
  <1>4. \A i, j \in 1..Len(queue') : queue'[i] = queue'[j] => i = j
    <2> SUFFICES ASSUME NEW i \in 1..Len(queue'), NEW j \in 1..Len(queue'),
                        queue'[i] = queue'[j]
                 PROVE  i = j
      OBVIOUS
    <2>1. k + i = k + j
      BY <1>3 DEF QueueSound
    <2> QED BY <2>1, <1>1, <1>2 DEF Drained
  <1>5. Active' \subseteq Active \cup Startable(list, k)
    BY <1>1 DEF Active, Drained
  <1>6. Startable(list, k) \subseteq {queue[i] : i \in 1..k}
    BY DEF Startable
  <1>7. ASSUME NEW id \in InQueue', id \in Active' PROVE FALSE
    <2>1. PICK i \in 1..Len(queue') : id = queue'[i]
      BY <1>7 DEF InQueue
    <2>2. k + i \in 1..Len(queue) /\ id = queue[k + i]
      BY <1>3, <2>1
    <2>3. id \notin Active
      BY <2>2 DEF QueueSound, InQueue
    <2>4. PICK j \in 1..k : id = queue[j]
      BY <1>5, <1>6, <1>7, <2>3
    <2>5. j \in 1..Len(queue) /\ j # k + i
      BY <1>1, <1>2, <2>1, <2>4 DEF Drained
    <2> QED BY <2>2, <2>4, <2>5 DEF QueueSound
  <1> QED BY <1>4, <1>7 DEF QueueSound

\* Queueing an id that neither waits nor runs.
LEMMA AppendSound ==
  ASSUME TypeOK, QueueSound, NEW id \in Ids, id \notin Active, id \notin InQueue,
         queue' = Append(queue, id), Active' \subseteq Active
  PROVE  QueueSound'
  <1>1. /\ Len(queue) \in Nat /\ Len(queue') = Len(queue) + 1
        /\ \A i \in 1..Len(queue) : queue'[i] = queue[i]
        /\ queue'[Len(queue) + 1] = id
    BY AppendProperties, LenProperties DEF TypeOK
  <1>2. \A i \in 1..Len(queue) : queue[i] # id
    BY DEF InQueue
  <1>3. \A i, j \in 1..Len(queue') : queue'[i] = queue'[j] => i = j
    BY <1>1, <1>2 DEF QueueSound
  <1>4. InQueue' \subseteq InQueue \cup {id}
    BY <1>1 DEF InQueue
  <1> QED BY <1>3, <1>4 DEF QueueSound

\* Starting an id that does not wait.
LEMMA StartSound ==
  ASSUME QueueSound, NEW id \in Ids, id \notin InQueue,
         queue' = queue, Active' \subseteq Active \cup {id}
  PROVE  QueueSound'
  BY DEF QueueSound, InQueue

\* resumeDownload, whoever calls it.
LEMMA ResumeSound ==
  ASSUME TypeOK, QueueSound, NEW id \in Ids, Resume(id)
  PROVE  QueueSound'
  <1>1. CASE ~Resumable(id)
    <2>1. queue' = queue /\ Active' = Active
      BY <1>1 DEF Resume, Active
    <2> QED BY <2>1, QuietSound
  <1>2. CASE Resumable(id) /\ Cardinality(Active) < slots
    <2>1. queue' = queue /\ id \notin InQueue
      BY <1>2 DEF Resume, Resumable
    <2>2. Active' \subseteq Active \cup {id}
      BY <1>2 DEF Resume, Active, TypeOK
    <2> QED BY <2>1, <2>2, StartSound
  <1>3. CASE Resumable(id) /\ ~(Cardinality(Active) < slots)
    <2>1. queue' = Append(queue, id) /\ id \notin InQueue /\ id \notin Active
      BY <1>3 DEF Resume, Resumable
    <2>2. Active' = Active
      BY <1>3 DEF Resume, Active
    <2> QED BY <2>1, <2>2, AppendSound
  <1> QED BY <1>1, <1>2, <1>3

\* splice(i, 1) keeps the ids before and after position i in their order.
LEMMA SpliceShape ==
  ASSUME NEW S, NEW seq \in Seq(S), NEW i \in 1..Len(seq),
         NEW rest, rest = SubSeq(seq, 1, i - 1) \o SubSeq(seq, i + 1, Len(seq))
  PROVE  /\ Len(rest) = Len(seq) - 1
         /\ \A j \in 1..Len(rest) :
              rest[j] = IF j <= i - 1 THEN seq[j] ELSE seq[j + 1]
  <1> DEFINE before == SubSeq(seq, 1, i - 1)
             after  == SubSeq(seq, i + 1, Len(seq))
             joined == before \o after
  <1>0. Len(seq) \in Nat
    BY LenProperties
  <1>1. /\ before \in Seq(S) /\ Len(before) = i - 1
        /\ \A j \in 1..(i - 1) : before[j] = seq[j]
    BY <1>0, SubSeqProperties, ElementOfSeq
  <1>2. /\ after \in Seq(S) /\ Len(after) = Len(seq) - i
        /\ \A j \in 1..(Len(seq) - i) : after[j] = seq[i + j]
    BY <1>0, SubSeqProperties, ElementOfSeq
  <1>3. rest = joined
    OBVIOUS
  <1> HIDE DEF before, after
  <1>4. /\ Len(joined) = Len(before) + Len(after)
        /\ \A j \in 1..(Len(before) + Len(after)) :
             joined[j] = IF j <= Len(before) THEN before[j] ELSE after[j - Len(before)]
    BY <1>1, <1>2, ConcatProperties
  <1> HIDE DEF joined
  <1> SUFFICES /\ Len(joined) = Len(seq) - 1
               /\ \A j \in 1..Len(joined) :
                    joined[j] = IF j <= i - 1 THEN seq[j] ELSE seq[j + 1]
    BY <1>3, Zenon
  <1>5. Len(joined) = Len(seq) - 1
    BY <1>0, <1>1, <1>2, <1>4
  <1>6. ASSUME NEW j \in 1..Len(joined)
        PROVE  joined[j] = IF j <= i - 1 THEN seq[j] ELSE seq[j + 1]
    <2>1. CASE j <= i - 1
      BY <1>0, <1>1, <1>2, <1>4, <2>1
    <2>2. CASE ~(j <= i - 1)
      <3>1. joined[j] = after[j - (i - 1)] /\ j - (i - 1) \in 1..(Len(seq) - i)
        BY <1>0, <1>1, <1>2, <1>4, <2>2
      <3>2. i + (j - (i - 1)) = j + 1
        OBVIOUS
      <3> QED BY <1>2, <2>2, <3>1, <3>2
    <2> QED BY <2>1, <2>2
  <1> QED BY <1>5, <1>6

\* splice(indexOf(id), 1) on the queue.
LEMMA DropSound ==
  ASSUME TypeOK, QueueSound, NEW id \in Ids, DropFromQueue(id),
         Active' \subseteq Active
  PROVE  QueueSound'
  <1>1. queue \in Seq(Ids) /\ Len(queue) \in Nat
    BY LenProperties DEF TypeOK
  <1>2. CASE queue' = queue
    BY <1>2, QuietSound
  <1>3. ASSUME NEW i \in 1..Len(queue),
               queue' = SubSeq(queue, 1, i - 1) \o SubSeq(queue, i + 1, Len(queue))
        PROVE  QueueSound'
    <2>3. /\ Len(queue') = Len(queue) - 1
          /\ \A j \in 1..Len(queue') :
               queue'[j] = IF j <= i - 1 THEN queue[j] ELSE queue[j + 1]
      BY <1>1, <1>3, SpliceShape
    <2>4. \A j, m \in 1..Len(queue') : queue'[j] = queue'[m] => j = m
      BY <1>1, <2>3 DEF QueueSound
    <2>5. InQueue' \subseteq InQueue
      BY <1>1, <2>3 DEF InQueue
    <2> QED BY <2>4, <2>5 DEF QueueSound
  <1> QED BY <1>2, <1>3 DEF DropFromQueue

\* The page-load resume: the order of the resumable ids is split in a part that
\* starts and a part that is queued.
LEMMA BootSound ==
  ASSUME TypeOK, QueueSound, BootResume
  PROVE  QueueSound'
  <1>0. PICK k, n \in Nat, order \in Orders(BootTodo) : BootPlan(k, n, order)
    BY BootShape
  <1>1. /\ order \in [1..n -> BootTodo]
        /\ n = Cardinality(BootTodo) /\ k <= n
        /\ \A i, j \in 1..n : order[i] = order[j] => i = j
        /\ run' = [i \in Ids |-> IF i \in {order[m] : m \in 1..k} THEN FirstStep
                                 ELSE run[i]]
        /\ queue' = queue \o [i \in 1..(n - k) |-> order[k + i]]
    BY <1>0 DEF BootPlan
  <1> DEFINE rest == [i \in 1..(n - k) |-> order[k + i]]
             q    == Len(queue)
  <1>2. \A id \in BootTodo : id \notin Active /\ id \notin InQueue
    BY DEF BootTodo, Resumable
  <1>3. \A i \in 1..n : order[i] \in BootTodo
    BY <1>1
  <1>4. \A i \in 1..(n - k) : k + i \in 1..n /\ rest[i] = order[k + i]
    BY <1>1
  <1>5. rest \in Seq(Ids) /\ Len(rest) = n - k /\ queue \in Seq(Ids) /\ q \in Nat
    <2>1. \A i \in 1..(n - k) : rest[i] \in Ids
      BY <1>3, <1>4 DEF BootTodo, TypeOK
    <2>2. rest \in [1..(n - k) -> Ids] /\ n - k \in Nat
      BY <1>1, <2>1
    <2> HIDE DEF rest
    <2>3. rest \in Seq(Ids)
      BY <2>2, SeqDef
    <2>4. Len(rest) = n - k
      <3>1. DOMAIN rest = 1..(n - k) /\ DOMAIN rest = 1..Len(rest) /\ Len(rest) \in Nat
        BY <2>2, <2>3, LenProperties
      <3> QED BY <2>2, <3>1
    <2> QED BY <2>3, <2>4, LenProperties DEF TypeOK
  <1> HIDE DEF rest
  <1>6. /\ Len(queue') = q + (n - k)
        /\ \A i \in 1..q : queue'[i] = queue[i]
        /\ \A i \in (q + 1)..(q + (n - k)) :
             i - q \in 1..(n - k) /\ queue'[i] = order[k + (i - q)]
    <2>1. queue' = queue \o rest
      BY <1>1 DEF rest
    <2>2. /\ Len(queue') = q + (n - k)
          /\ \A i \in 1..(q + (n - k)) :
               queue'[i] = IF i <= q THEN queue[i] ELSE rest[i - q]
      <3>1. /\ Len(queue \o rest) = q + Len(rest)
            /\ \A i \in 1..(q + Len(rest)) :
                 (queue \o rest)[i] = IF i <= q THEN queue[i] ELSE rest[i - q]
        BY <1>5, ConcatProperties
      <3> HIDE DEF q
      <3> QED BY <1>5, <2>1, <3>1
    <2>3. ASSUME NEW i \in 1..q PROVE queue'[i] = queue[i]
      BY <1>1, <1>5, <2>2
    <2>4. ASSUME NEW i \in (q + 1)..(q + (n - k))
          PROVE  i - q \in 1..(n - k) /\ queue'[i] = order[k + (i - q)]
      <3>1. i - q \in 1..(n - k) /\ i \in 1..(q + (n - k)) /\ ~(i <= q)
        BY <1>1, <1>5
      <3> QED BY <1>4, <2>2, <3>1
    <2> QED BY <2>2, <2>3, <2>4
  <1>7. \A i \in 1..q : queue'[i] \in InQueue
    BY <1>6 DEF InQueue
  <1>8. \A i \in (q + 1)..(q + (n - k)) : queue'[i] \in BootTodo
    BY <1>3, <1>4, <1>6
  <1>9. \A i, j \in 1..Len(queue') : queue'[i] = queue'[j] => i = j
    <2> SUFFICES ASSUME NEW i \in 1..Len(queue'), NEW j \in 1..Len(queue'),
                        queue'[i] = queue'[j]
                 PROVE  i = j
      OBVIOUS
    <2>1. CASE i <= q /\ j <= q
      BY <1>5, <1>6, <2>1 DEF QueueSound
    <2>2. CASE i > q /\ j > q
      <3>1. i \in (q + 1)..(q + (n - k)) /\ j \in (q + 1)..(q + (n - k))
        BY <1>1, <1>5, <1>6, <2>2
      <3>2. /\ order[k + (i - q)] = order[k + (j - q)]
            /\ k + (i - q) \in 1..n /\ k + (j - q) \in 1..n
        BY <1>4, <1>6, <3>1
      <3>3. k + (i - q) = k + (j - q)
        BY <1>1, <3>2
      <3> QED BY <1>1, <1>5, <3>1, <3>3
    <2>3. ASSUME NEW a \in 1..Len(queue'), NEW b \in 1..Len(queue'), a <= q, b > q
          PROVE  queue'[a] # queue'[b]
      <3>1. a \in 1..q /\ b \in (q + 1)..(q + (n - k))
        BY <1>1, <1>5, <1>6, <2>3
      <3> QED BY <1>2, <1>7, <1>8, <3>1
    <2>4. CASE i <= q /\ j > q
      BY <2>3, <2>4
    <2>5. CASE i > q /\ j <= q
      BY <2>3, <2>5
    <2> QED BY <1>5, <2>1, <2>2, <2>4, <2>5
  <1>10. ASSUME NEW id \in InQueue', id \in Active' PROVE FALSE
    <2>1. PICK i \in 1..Len(queue') : id = queue'[i]
      BY <1>10 DEF InQueue
    <2>2. id \in Active \/ \E m \in 1..k : id = order[m]
      BY <1>1, <1>10 DEF Active
    <2>3. CASE i <= q
      <3>1. id \in InQueue /\ id \notin Active
        BY <1>5, <1>7, <2>1, <2>3 DEF QueueSound
      <3>2. PICK m \in 1..k : id = order[m]
        BY <2>2, <3>1
      <3> QED BY <1>1, <1>2, <1>3, <3>1, <3>2
    <2>4. CASE i > q
      <3>1. i \in (q + 1)..(q + (n - k))
        BY <1>1, <1>5, <1>6, <2>1, <2>4
      <3>2. id \in BootTodo /\ id = order[k + (i - q)]
        BY <1>6, <1>8, <2>1, <3>1
      <3>3. PICK m \in 1..k : id = order[m]
        BY <1>2, <2>2, <3>2
      <3>4. m # k + (i - q) /\ m \in 1..n /\ k + (i - q) \in 1..n
        BY <1>1, <1>4, <1>5, <1>6, <3>1, <3>3
      <3> QED BY <1>1, <3>2, <3>3, <3>4
    <2> QED BY <1>5, <2>1, <2>3, <2>4
  <1> QED BY <1>9, <1>10 DEF QueueSound

LEMMA QueueInit == Init => QueueSound
  BY DEF Init, QueueSound, InQueue, Active

LEMMA QueueStep == TypeOK /\ QueueSound /\ [Next]_vars => QueueSound'
  <1> SUFFICES ASSUME TypeOK, QueueSound, [Next]_vars PROVE QueueSound'
    OBVIOUS
  <1>1. CASE UNCHANGED vars
    BY <1>1 DEF vars, ui, QueueSound, InQueue, Active
  <1>2. ASSUME NEW id \in Ids, StartDownload(id) PROVE QueueSound'
    <2>1. id \notin InQueue /\ id \notin Active
      BY <1>2 DEF StartDownload, Fresh, Active
    <2>2. CASE Cardinality(Active) < slots
      BY <1>2, <2>1, <2>2, StartSound DEF StartDownload, Active, TypeOK
    <2>3. CASE ~(Cardinality(Active) < slots)
      BY <1>2, <2>1, <2>3, AppendSound DEF StartDownload, Active
    <2> QED BY <2>2, <2>3
  <1>3. ASSUME NEW id \in Ids, UserResume(id) \/ RetryFires(id) PROVE QueueSound'
    BY <1>3, ResumeSound DEF UserResume, RetryFires
  <1>4. ASSUME NEW id \in Ids, PauseActive(id) PROVE QueueSound'
    BY <1>4, QuietSound DEF PauseActive, Active
  <1>5. ASSUME NEW id \in Ids, PauseQueued(id) \/ RemoveDownload(id) PROVE QueueSound'
    BY <1>5, DropSound DEF PauseQueued, RemoveDownload, Active
  <1>6. ASSUME NEW id \in Ids, RemoveFinish(id) PROVE QueueSound'
    <2>1. CASE TryRunNext(entry, {})
      BY <2>1, DrainSound DEF TypeOK
    <2>2. CASE UNCHANGED <<entry, queue, run, reason>>
      BY <2>2, QuietSound DEF Active
    <2> QED BY <1>6, <2>1, <2>2 DEF RemoveFinish
  <1>7. ASSUME NEW id \in Ids, RunStep(id) PROVE QueueSound'
    <2>1. ASSUME NEW list \in Lists, EndRun(id, list) PROVE QueueSound'
      BY <2>1, DrainSound DEF EndRun
    <2>2. \A st \in Listed : SetStatus(entry, id, st) \in Lists
      BY ListTypes DEF TypeOK
    <2>3. {"done", "paused", "stalled", "error"} \subseteq Listed
      BY DEF Listed
    <2>4. SetPaused(SetStatus(entry, id, "paused"), id, TRUE) \in Lists
      BY <2>2, <2>3, ListTypes
    <2>5. CASE StatOk(id) \/ StatThrows(id) \/ ResponseOk(id) \/ BodyEnds(id)
      <3>1. queue' = queue /\ Active' \subseteq Active
        BY <2>5 DEF StatOk, StatThrows, ResponseOk, BodyEnds, Advance, Active, TypeOK
      <3> QED BY <3>1, QuietSound
    <2>6. CASE FailAndroid(id)
      <3>1. queue' = queue /\ Active' \subseteq Active
        BY <2>6 DEF FailAndroid, Active, TypeOK
      <3> QED BY <3>1, QuietSound
    <2>7. CASE RangeNotSatisfiable(id) \/ Complete(id) \/ FailDesktop(id) \/ CleanedUp(id)
      <3>1. PICK list \in Lists : EndRun(id, list)
        BY <2>2, <2>3, <2>4, <2>7
           DEF RangeNotSatisfiable, Complete, FailDesktop, CleanedUp,
               EndStalled, EndPaused, EndLocked, EndError
      <3> QED BY <2>1, <3>1
    <2> QED BY <1>7, <2>5, <2>6, <2>7 DEF RunStep
  <1>8. ASSUME NEW id \in Ids, Stall(id) \/ PruneCheck(id)
        PROVE  QueueSound'
    BY <1>8, QuietSound DEF Stall, PruneCheck, Active
  <1>9. ASSUME NEW n \in 1..MaxSlots, SetSlots(n) PROVE QueueSound'
    BY <1>9, QuietSound DEF SetSlots, Active
  <1>10. CASE Reload
    <2>1. Len(queue') = 0
      BY <1>10, EmptySeq DEF Reload
    <2> QED BY <2>1 DEF QueueSound, InQueue
  <1>11. CASE BootResume
    BY <1>11, BootSound
  <1>12. CASE PruneBegin \/ PruneCommit \/ ScanBegin \/ ScanCommit
    BY <1>12, QuietSound DEF PruneBegin, PruneCommit, ScanBegin, ScanCommit, Active
  <1> QED BY <1>1, <1>2, <1>3, <1>4, <1>5, <1>6, <1>7, <1>8, <1>9, <1>10, <1>11, <1>12
          DEF Next

\* In every behaviour, no id waits twice or waits while its run is alive, so no
\* file is ever written by two runs of one item.
THEOREM QueueSoundness == Spec => []QueueSound
  BY InitTypes, NextTypes, QueueInit, QueueStep, PTL DEF Spec

------------------------------------------------------------------------------
(* The slots: nothing starts a run beyond the slots in force.                *)

\* What SlotsRespected says of one step.
WithinSlots == ~(Active' \subseteq Active) => Cardinality(Active') <= slots'

LEMMA ActiveFinite ==
  ASSUME NEW S \in SUBSET Ids
  PROVE  IsFiniteSet(S) /\ Cardinality(S) \in Nat
  BY DownloadsAssumption, FS_Subset, FS_CardinalityType DEF DownloadsAssumption

LEMMA UpTo ==
  ASSUME NEW n \in Nat
  PROVE  IsFiniteSet(1..n) /\ Cardinality(1..n) = n
  <1>1. IsFiniteSet(1..n) /\ Cardinality(1..n) = IF 1 > n THEN 0 ELSE n - 1 + 1
    BY FS_Interval
  <1> QED BY <1>1

\* Starting one more id below the limit.
LEMMA OneMore ==
  ASSUME TypeOK, NEW A \in SUBSET Ids, NEW B \in SUBSET Ids, NEW id \in Ids,
         Cardinality(A) < slots, B \subseteq A \cup {id}
  PROVE  Cardinality(B) <= slots
  <1>1. slots \in Nat
    BY DownloadsAssumption DEF TypeOK, DownloadsAssumption
  <1>2. /\ IsFiniteSet(A) /\ Cardinality(A) \in Nat
        /\ IsFiniteSet(B) /\ Cardinality(B) \in Nat
    BY ActiveFinite
  <1>3. /\ IsFiniteSet(A \cup {id})
        /\ Cardinality(A \cup {id}) \in Nat
        /\ Cardinality(A \cup {id}) <= Cardinality(A) + 1
    <2>1. IsFiniteSet(A \cup {id})
      BY <1>2, FS_AddElement
    <2>2. Cardinality(A \cup {id}) = IF id \in A THEN Cardinality(A) ELSE Cardinality(A) + 1
      BY <1>2, FS_AddElement
    <2> QED BY <1>2, <2>1, <2>2
  <1>4. Cardinality(B) <= Cardinality(A \cup {id})
    BY <1>3, FS_Subset
  <1> QED BY <1>1, <1>2, <1>3, <1>4

LEMMA DrainWithin ==
  ASSUME TypeOK, NEW list \in Lists, NEW stopped \in SUBSET Ids,
         TryRunNext(list, stopped), slots' = slots
  PROVE  WithinSlots
  <1>1. PICK k \in 0..Len(queue) : Drained(list, stopped, k)
    BY DrainShape
  <1> DEFINE kept == Active \ stopped
  <1>2. Active' \subseteq kept \cup Startable(list, k)
    BY <1>1 DEF Active, Drained
  <1>3. CASE k = 0
    <2>1. Startable(list, k) = {}
      BY <1>3 DEF Startable
    <2> QED BY <1>2, <2>1 DEF WithinSlots
  <1>4. CASE k > 0
    <2> DEFINE A == kept \cup Startable(list, k - 1)
    <2>1. k - 1 \in 0..(k - 1) /\ k \in 1..Len(queue) /\ Len(queue) \in Nat
      BY <1>1, <1>4, LenProperties DEF TypeOK
    <2>2. ~(Cardinality(A) >= slots)
      BY <1>1, <2>1 DEF Drained, DrainsTo, FullAfter
    <2>3. queue[k] \in Ids
      BY <2>1, ElementOfSeq DEF TypeOK
    <2>4. Startable(list, k) \subseteq Startable(list, k - 1) \cup {queue[k]}
      BY <2>1 DEF Startable
    <2>5. Startable(list, k - 1) \subseteq Startable(list, k)
      BY <2>1 DEF Startable
    <2>6. A \in SUBSET Ids /\ Active' \in SUBSET Ids
      BY <1>1, <2>5 DEF Drained, Active
    <2>7. Active' \subseteq A \cup {queue[k]}
      BY <1>2, <2>4
    <2>8. Cardinality(A) \in Nat /\ slots \in Nat
      BY <2>6, ActiveFinite, DownloadsAssumption DEF TypeOK, DownloadsAssumption
    <2> HIDE DEF A
    <2>9. Cardinality(Active') <= slots
      BY <2>2, <2>3, <2>6, <2>7, <2>8, OneMore
    <2> QED BY <2>9 DEF WithinSlots
  <1> QED BY <1>1, <1>3, <1>4

LEMMA ResumeWithin ==
  ASSUME TypeOK, NEW id \in Ids, Resume(id), slots' = slots
  PROVE  WithinSlots
  <1>1. CASE Resumable(id) /\ Cardinality(Active) < slots
    <2>1. Active' \subseteq Active \cup {id}
      BY <1>1 DEF Resume, Active, TypeOK
    <2>2. Active \in SUBSET Ids /\ Active' \in SUBSET Ids
      BY DEF Active
    <2>3. Cardinality(Active') <= slots
      BY <1>1, <2>1, <2>2, OneMore
    <2> QED BY <2>3 DEF WithinSlots
  <1>2. CASE ~(Resumable(id) /\ Cardinality(Active) < slots)
    BY <1>2 DEF Resume, Active, WithinSlots
  <1> QED BY <1>1, <1>2

\* The page-load resume starts at most as many ids as there is room.
LEMMA BootWithin ==
  ASSUME TypeOK, BootResume
  PROVE  WithinSlots
  <1>0. PICK k, n \in Nat, order \in Orders(BootTodo) : BootPlan(k, n, order)
    BY BootShape
  <1>1. /\ order \in [1..n -> BootTodo]
        /\ n = Cardinality(BootTodo) /\ k <= n /\ k <= BootRoom
        /\ \A i, j \in 1..n : order[i] = order[j] => i = j
        /\ run' = [i \in Ids |-> IF i \in {order[m] : m \in 1..k} THEN FirstStep
                                 ELSE run[i]]
    BY <1>0 DEF BootPlan
  <1> DEFINE go == {order[m] : m \in 1..k}
  <1>2. slots' = slots /\ slots \in Nat
    <2>1. UNCHANGED ui
      BY DEF BootResume
    <2> QED BY <2>1, DownloadsAssumption DEF ui, TypeOK, DownloadsAssumption
  <1>3. go \in SUBSET Ids /\ Active \in SUBSET Ids
    <2>1. \A m \in 1..k : m \in 1..n
      BY <1>1
    <2>2. \A m \in 1..k : order[m] \in Ids
      BY <1>1, <2>1 DEF BootTodo, TypeOK
    <2> QED BY <2>2 DEF Active
  <1>4. IsFiniteSet(go) /\ Cardinality(go) <= k
    <2>1. IsFiniteSet(1..k) /\ Cardinality(1..k) = k
      BY UpTo
    <2>2. go = {order[m] : m \in 1..k}
      OBVIOUS
    <2> DEFINE f == [m \in 1..k |-> order[m]]
    <2>3. f \in Surjection(1..k, go)
      BY DEF Surjection
    <2> QED BY <2>1, <2>3, FS_Surjection
  <1>5. Active' \subseteq Active \cup go
    BY <1>1 DEF Active
  <1>6. CASE k = 0
    <2>1. go = {}
      BY <1>6
    <2> QED BY <1>5, <2>1 DEF WithinSlots
  <1>7. CASE k > 0
    <2>1. Cardinality(Active) + k <= slots
      BY <1>1, <1>2, <1>3, <1>7, ActiveFinite DEF BootRoom
    <2>2. /\ IsFiniteSet(Active) /\ Cardinality(Active) \in Nat
          /\ Cardinality(go) \in Nat
      BY <1>3, ActiveFinite
    <2> HIDE DEF go
    <2>3. /\ IsFiniteSet(Active \cup go)
          /\ Cardinality(Active \cup go) <= Cardinality(Active) + Cardinality(go)
      <3>1. IsFiniteSet(Active \cup go)
        BY <1>4, <2>2, FS_Union
      <3>2. Cardinality(Active \cup go)
              = Cardinality(Active) + Cardinality(go) - Cardinality(Active \cap go)
        BY <1>4, <2>2, FS_Union
      <3>3. Cardinality(Active \cap go) \in Nat
        BY <1>3, ActiveFinite
      <3> QED BY <2>2, <3>1, <3>2, <3>3
    <2>4. Active' \subseteq Ids /\ Cardinality(Active') \in Nat
          /\ Cardinality(Active \cup go) \in Nat
      BY <1>3, ActiveFinite DEF Active
    <2>5. Cardinality(Active') <= Cardinality(Active \cup go)
      BY <1>5, <2>3, FS_Subset
    <2>6. Cardinality(Active') <= slots
      BY <1>1, <1>2, <1>4, <2>1, <2>2, <2>3, <2>4, <2>5
    <2> QED BY <1>2, <2>6 DEF WithinSlots
  <1> QED BY <1>1, <1>6, <1>7

LEMMA SlotsStep == TypeOK /\ [Next]_vars => WithinSlots
  <1> SUFFICES ASSUME TypeOK, [Next]_vars PROVE WithinSlots
    OBVIOUS
  <1>1. CASE UNCHANGED vars
    BY <1>1 DEF vars, WithinSlots, Active
  <1>2. ASSUME NEW id \in Ids, StartDownload(id) PROVE WithinSlots
    <2>1. CASE Cardinality(Active) < slots
      <3>1. Active' \subseteq Active \cup {id} /\ slots' = slots
        BY <1>2, <2>1 DEF StartDownload, Active, TypeOK
      <3>2. Active \in SUBSET Ids /\ Active' \in SUBSET Ids
        BY DEF Active
      <3>3. Cardinality(Active') <= slots
        BY <2>1, <3>1, <3>2, OneMore
      <3> QED BY <3>1, <3>3 DEF WithinSlots
    <2>2. CASE ~(Cardinality(Active) < slots)
      BY <1>2, <2>2 DEF StartDownload, Active, WithinSlots
    <2> QED BY <2>1, <2>2
  <1>3. ASSUME NEW id \in Ids, UserResume(id) \/ RetryFires(id) PROVE WithinSlots
    <2>1. Resume(id) /\ slots' = slots
      BY <1>3 DEF UserResume, RetryFires, ui
    <2> QED BY <2>1, ResumeWithin
  <1>4. ASSUME NEW id \in Ids, RemoveFinish(id) PROVE WithinSlots
    <2>1. CASE TryRunNext(entry, {})
      <3>1. slots' = slots
        BY <1>4 DEF RemoveFinish
      <3> QED BY <2>1, <3>1, DrainWithin DEF TypeOK
    <2>2. CASE UNCHANGED <<entry, queue, run, reason>>
      BY <2>2 DEF WithinSlots, Active
    <2> QED BY <1>4, <2>1, <2>2 DEF RemoveFinish
  <1>5. ASSUME NEW id \in Ids, RunStep(id) PROVE WithinSlots
    <2>1. ASSUME NEW list \in Lists, EndRun(id, list) PROVE WithinSlots
      BY <2>1, DrainWithin DEF EndRun, ui
    <2>2. \A st \in Listed : SetStatus(entry, id, st) \in Lists
      BY ListTypes DEF TypeOK
    <2>3. {"done", "paused", "stalled", "error"} \subseteq Listed
      BY DEF Listed
    <2>4. SetPaused(SetStatus(entry, id, "paused"), id, TRUE) \in Lists
      BY <2>2, <2>3, ListTypes
    <2>5. CASE StatOk(id) \/ StatThrows(id) \/ ResponseOk(id) \/ BodyEnds(id)
      <3>1. Active' \subseteq Active
        BY <2>5 DEF StatOk, StatThrows, ResponseOk, BodyEnds, Advance, Active, TypeOK
      <3> QED BY <3>1 DEF WithinSlots
    <2>6. CASE FailAndroid(id)
      <3>1. Active' \subseteq Active
        BY <2>6 DEF FailAndroid, Active, TypeOK
      <3> QED BY <3>1 DEF WithinSlots
    <2>7. CASE RangeNotSatisfiable(id) \/ Complete(id) \/ FailDesktop(id) \/ CleanedUp(id)
      <3>1. PICK list \in Lists : EndRun(id, list)
        BY <2>2, <2>3, <2>4, <2>7
           DEF RangeNotSatisfiable, Complete, FailDesktop, CleanedUp,
               EndStalled, EndPaused, EndLocked, EndError
      <3> QED BY <2>1, <3>1
    <2> QED BY <1>5, <2>5, <2>6, <2>7 DEF RunStep
  <1>6. ASSUME NEW id \in Ids,
               \/ PauseActive(id) \/ PauseQueued(id) \/ RemoveDownload(id)
               \/ Stall(id) \/ PruneCheck(id)
        PROVE  WithinSlots
    BY <1>6 DEF PauseActive, PauseQueued, RemoveDownload, Stall, PruneCheck,
                Active, WithinSlots
  <1>7. ASSUME NEW n \in 1..MaxSlots, SetSlots(n) PROVE WithinSlots
    BY <1>7 DEF SetSlots, Active, WithinSlots
  <1>8. CASE Reload
    BY <1>8 DEF Reload, Active, WithinSlots
  <1>9. CASE BootResume
    BY <1>9, BootWithin
  <1>10. CASE PruneBegin \/ PruneCommit \/ ScanBegin \/ ScanCommit
    BY <1>10 DEF PruneBegin, PruneCommit, ScanBegin, ScanCommit, Active, WithinSlots
  <1> QED BY <1>1, <1>2, <1>3, <1>4, <1>5, <1>6, <1>7, <1>8, <1>9, <1>10 DEF Next

\* A step that starts a run leaves at most as many runs as there are slots,
\* for any pool of ids and any limit, whatever path started it.
THEOREM SlotsSafety == Spec => SlotsRespected
  <1>1. TypeOK /\ [Next]_vars => [~(Active' \subseteq Active) => Cardinality(Active') <= slots']_vars
    BY SlotsStep DEF WithinSlots
  <1> QED BY <1>1, InitTypes, NextTypes, PTL DEF Spec, SlotsRespected

------------------------------------------------------------------------------
(* What the list says of one item: its status and flag against the queue,    *)
(* the page load's resume, its run and abort reason, and the user's pause.    *)
(* This is inductive item by item once the queue is sound: an item that a job  *)
(* wrote an old entry over (undone) is on its own, and cannot harm the others. *)
(* One that a scan called done too soon (hasty) may be done while it runs or    *)
(* waits.                                                                      *)

Fits(status, paused, waits, booting, step, why, mine, early) ==
  /\ waits => /\ status = "queued" \/ (early /\ status \in {"done", "absent"})
              /\ step = "none"
  /\ status = "queued" => waits \/ booting \/ step \in {"stat", "leaked"}
  /\ status = "queued" /\ step # "none" => step \in {"stat", "leaked"}
  /\ status = "downloading" => step # "none" \/ booting
  /\ status = "done" => step = "none" \/ early
  /\ step # "none" /\ why = "none" => status # "absent"
  /\ mine => /\ ~waits
             /\ step # "none" => why # "none"
             /\ step = "none" /\ ~booting =>
                  status \notin {"queued", "downloading"} /\ (status = "paused" => paused)

ItemSound(id) == Fits(entry[id].status, entry[id].userPaused, id \in InQueue, id \in boot,
                      run[id], reason[id], id \in held, id \in hasty)

ItemInv == TypeOK /\ QueueSound /\ \A id \in Ids \ undone : ItemSound(id)

(* The queue as a set. *)
LEMMA AppendWaits ==
  ASSUME TypeOK, NEW id \in Ids, queue' = Append(queue, id)
  PROVE  InQueue' = InQueue \cup {id}
  <1>1. /\ Len(queue) \in Nat /\ Len(queue') = Len(queue) + 1
        /\ \A i \in 1..Len(queue) : queue'[i] = queue[i]
        /\ queue'[Len(queue) + 1] = id
    BY AppendProperties, LenProperties DEF TypeOK
  <1>2. InQueue' \subseteq InQueue \cup {id}
    BY <1>1 DEF InQueue
  <1>3. \A i \in 1..Len(queue) : i \in 1..Len(queue')
    BY <1>1
  <1>4. Len(queue) + 1 \in 1..Len(queue')
    BY <1>1
  <1>5. InQueue \subseteq InQueue' /\ id \in InQueue'
    BY <1>1, <1>3, <1>4 DEF InQueue
  <1> QED BY <1>2, <1>5

LEMMA DropWaits ==
  ASSUME TypeOK, QueueSound, NEW id \in Ids, DropFromQueue(id)
  PROVE  InQueue' = InQueue \ {id}
  <1>0. queue \in Seq(Ids)
    BY DEF TypeOK
  <1>1. CASE id \notin InQueue /\ queue' = queue
    BY <1>1 DEF InQueue
  <1>2. ASSUME NEW i \in 1..Len(queue), queue[i] = id,
               queue' = SubSeq(queue, 1, i - 1) \o SubSeq(queue, i + 1, Len(queue))
        PROVE  InQueue' = InQueue \ {id}
    <2>1. /\ Len(queue') = Len(queue) - 1
          /\ \A j \in 1..Len(queue') :
               queue'[j] = IF j <= i - 1 THEN queue[j] ELSE queue[j + 1]
      BY <1>2, <1>0, SpliceShape
    <2>2. Len(queue) \in Nat
      BY <1>0, LenProperties
    <2>3. ASSUME NEW j \in 1..Len(queue')
          PROVE  queue'[j] \in InQueue /\ queue'[j] # id
      <3>1. CASE j <= i - 1
        <4>1. j \in 1..Len(queue) /\ j # i /\ queue'[j] = queue[j]
          BY <2>1, <2>2, <3>1
        <4> QED BY <1>2, <4>1 DEF InQueue, QueueSound
      <3>2. CASE ~(j <= i - 1)
        <4>1. j + 1 \in 1..Len(queue) /\ j + 1 # i /\ queue'[j] = queue[j + 1]
          BY <2>1, <2>2, <3>2
        <4> QED BY <1>2, <4>1 DEF InQueue, QueueSound
      <3> QED BY <3>1, <3>2
    <2>4. ASSUME NEW j \in 1..Len(queue), queue[j] # id PROVE queue[j] \in InQueue'
      <3>1. CASE j < i
        <4>1. j \in 1..Len(queue') /\ queue'[j] = queue[j]
          BY <2>1, <2>2, <3>1
        <4> QED BY <4>1 DEF InQueue
      <3>2. CASE j > i
        <4>1. /\ j - 1 \in 1..Len(queue') /\ ~(j - 1 <= i - 1)
              /\ queue'[j - 1] = queue[(j - 1) + 1] /\ (j - 1) + 1 = j
          BY <2>1, <2>2, <3>2
        <4> QED BY <4>1 DEF InQueue
      <3>3. j # i
        BY <1>2, <2>4
      <3> QED BY <2>2, <3>1, <3>2, <3>3
    <2> QED BY <2>3, <2>4 DEF InQueue
  <1> QED BY <1>1, <1>2 DEF DropFromQueue

\* A drain takes ids off the queue and starts those of them the list calls "queued".
LEMMA DrainStarts ==
  ASSUME TypeOK, QueueSound, NEW list \in Lists, NEW stopped \in SUBSET Ids,
         TryRunNext(list, stopped)
  PROVE  \E taken \in SUBSET InQueue, go \in SUBSET InQueue :
           /\ go = {i \in taken : list[i].status = "queued"}
           /\ InQueue' = InQueue \ taken
           /\ entry' = Launched(list, go)
           /\ run' = [i \in Ids |-> IF i \in go THEN FirstStep
                                    ELSE IF i \in stopped THEN "none" ELSE run[i]]
           /\ reason' = [i \in Ids |-> IF i \in go \cup stopped THEN "none" ELSE reason[i]]
  <1>1. PICK k \in 0..Len(queue) : Drained(list, stopped, k)
    BY DrainShape
  <1> DEFINE taken == {queue[i] : i \in 1..k}
             go == Startable(list, k)
  <1>2. Len(queue) \in Nat
    BY LenProperties DEF TypeOK
  <1>3. go = {i \in taken : list[i].status = "queued"} /\ taken \subseteq InQueue
    <2>1. \A i \in 1..k : i \in 1..Len(queue) /\ queue[i] \in InQueue
      BY <1>2 DEF InQueue
    <2> QED BY <2>1 DEF Startable
  <1>4. Len(queue') = Len(queue) - k /\ \A i \in 1..(Len(queue) - k) : queue'[i] = queue[k + i]
    BY <1>1 DEF Drained
  <1>5. ASSUME NEW i \in 1..Len(queue') PROVE queue'[i] \in InQueue \ taken
    <2>1. k + i \in 1..Len(queue) /\ queue'[i] = queue[k + i] /\ k + i \notin 1..k
      BY <1>2, <1>4
    <2>2. \A j \in 1..k : j \in 1..Len(queue)
      BY <1>2
    <2> QED BY <2>1, <2>2 DEF InQueue, QueueSound
  <1>6. ASSUME NEW i \in 1..Len(queue), queue[i] \notin taken PROVE queue[i] \in InQueue'
    <2>1. i \notin 1..k
      BY <1>6
    <2>2. i - k \in 1..Len(queue') /\ k + (i - k) = i
      BY <1>2, <1>4, <2>1
    <2>3. queue'[i - k] = queue[i]
      BY <1>4, <2>2
    <2> QED BY <2>2, <2>3 DEF InQueue
  <1>7. InQueue' = InQueue \ taken
    BY <1>5, <1>6 DEF InQueue
  <1>8. taken \in SUBSET InQueue /\ go \in SUBSET InQueue
    BY <1>3
  <1> HIDE DEF taken
  <1> QED BY <1>1, <1>3, <1>7, <1>8 DEF Drained

\* The page-load resume starts some of the resumable ids and queues the others.
LEMMA BootStarts ==
  ASSUME TypeOK, BootResume
  PROVE  \E go \in SUBSET BootTodo :
           /\ InQueue' = InQueue \cup (BootTodo \ go)
           /\ run' = [i \in Ids |-> IF i \in go THEN FirstStep ELSE run[i]]
           /\ reason' = [i \in Ids |-> IF i \in go THEN "none" ELSE reason[i]]
           /\ entry' = Launched(BootWaiting(go), go)
  <1>0. PICK k, n \in Nat, order \in Orders(BootTodo) : BootPlan(k, n, order)
    BY BootShape
  <1>1. /\ n = Cardinality(BootTodo) /\ k <= n
        /\ order \in [1..n -> BootTodo]
        /\ \A i, j \in 1..n : order[i] = order[j] => i = j
        /\ queue' = queue \o [i \in 1..(n - k) |-> order[k + i]]
    BY <1>0 DEF BootPlan
  <1> DEFINE go   == {order[m] : m \in 1..k}
             rest == [i \in 1..(n - k) |-> order[k + i]]
  <1>2. IsFiniteSet(BootTodo)
    BY DownloadsAssumption, FS_Subset DEF BootTodo, TypeOK, DownloadsAssumption
  <1>3. order \in Surjection(1..n, BootTodo)
    <2>1. order \in Injection(1..n, BootTodo)
      BY <1>1 DEF Injection, IsInjective
    <2>2. Cardinality(1..n) = n
      BY FS_Interval
    <2> QED BY <1>1, <1>2, <2>1, <2>2, FS_Injection
  <1>4. \A id \in BootTodo : \E m \in 1..n : order[m] = id
    BY <1>3 DEF Surjection
  <1>5. BootTodo \ go = {order[k + i] : i \in 1..(n - k)}
    <2>1. ASSUME NEW i \in 1..(n - k) PROVE order[k + i] \in BootTodo \ go
      <3>1. k + i \in 1..n /\ k + i \notin 1..k
        BY <1>1
      <3>2. \A m \in 1..k : m \in 1..n
        BY <1>1
      <3> QED BY <1>1, <3>1, <3>2
    <2>2. ASSUME NEW id \in BootTodo \ go PROVE \E i \in 1..(n - k) : order[k + i] = id
      <3>1. PICK m \in 1..n : order[m] = id
        BY <1>4
      <3>2. m \notin 1..k
        BY <2>2, <3>1
      <3>3. m - k \in 1..(n - k) /\ k + (m - k) = m
        BY <1>1, <3>2
      <3> QED BY <3>1, <3>3
    <2> QED BY <2>1, <2>2
  <1>6. rest \in Seq(Ids) /\ Len(rest) = n - k
    <2>1. \A i \in 1..(n - k) : k + i \in 1..n
      BY <1>1
    <2>2. rest \in [1..(n - k) -> Ids] /\ n - k \in Nat
      BY <1>1, <2>1 DEF BootTodo, TypeOK
    <2> HIDE DEF rest
    <2>3. rest \in Seq(Ids)
      BY <2>2, SeqDef
    <2>4. DOMAIN rest = 1..(n - k) /\ DOMAIN rest = 1..Len(rest) /\ Len(rest) \in Nat
      BY <2>2, <2>3, LenProperties
    <2> QED BY <2>2, <2>3, <2>4
  <1>7. \A i \in 1..(n - k) : rest[i] = order[k + i]
    OBVIOUS
  <1>8. queue' = queue \o rest
    BY <1>1
  <1> HIDE DEF rest, go
  <1>9. /\ queue \in Seq(Ids) /\ Len(queue) \in Nat
        /\ Len(queue') = Len(queue) + (n - k)
        /\ \A i \in 1..(Len(queue) + (n - k)) :
             queue'[i] = IF i <= Len(queue) THEN queue[i] ELSE rest[i - Len(queue)]
    <2>1. queue \in Seq(Ids) /\ Len(queue) \in Nat
      BY LenProperties DEF TypeOK
    <2>2. /\ Len(queue \o rest) = Len(queue) + Len(rest)
          /\ \A i \in 1..(Len(queue) + Len(rest)) :
               (queue \o rest)[i] = IF i <= Len(queue) THEN queue[i] ELSE rest[i - Len(queue)]
      BY <1>6, <2>1, ConcatProperties
    <2> QED BY <1>6, <1>8, <2>1, <2>2
  <1>10. InQueue' = InQueue \cup {order[k + i] : i \in 1..(n - k)}
    <2>1. ASSUME NEW i \in 1..Len(queue')
          PROVE  queue'[i] \in InQueue \cup {order[k + j] : j \in 1..(n - k)}
      <3>1. CASE i <= Len(queue)
        BY <1>1, <1>9, <3>1 DEF InQueue
      <3>2. CASE ~(i <= Len(queue))
        <4>1. queue'[i] = rest[i - Len(queue)]
          BY <1>9, <3>2
        <4>2. i - Len(queue) \in 1..(n - k)
          BY <1>1, <1>9, <3>2
        <4> QED BY <1>7, <4>1, <4>2
      <3> QED BY <3>1, <3>2
    <2>2. ASSUME NEW i \in 1..Len(queue) PROVE queue[i] \in InQueue'
      <3>1. i \in 1..Len(queue') /\ queue'[i] = queue[i]
        BY <1>1, <1>9
      <3> QED BY <3>1 DEF InQueue
    <2>3. ASSUME NEW i \in 1..(n - k) PROVE order[k + i] \in InQueue'
      <3>1. /\ Len(queue) + i \in 1..Len(queue') /\ ~(Len(queue) + i <= Len(queue))
            /\ (Len(queue) + i) - Len(queue) = i
        BY <1>1, <1>9
      <3>2. queue'[Len(queue) + i] = rest[i]
        BY <1>9, <3>1
      <3> QED BY <1>7, <3>1, <3>2 DEF InQueue
    <2> QED BY <2>1, <2>2, <2>3 DEF InQueue
  <1>11. go \subseteq BootTodo
    BY <1>1 DEF go
  <1>12. /\ run' = [i \in Ids |-> IF i \in go THEN FirstStep ELSE run[i]]
         /\ reason' = [i \in Ids |-> IF i \in go THEN "none" ELSE reason[i]]
         /\ entry' = Launched(BootWaiting(go), go)
    BY <1>0 DEF BootPlan, go
  <1> QED BY <1>5, <1>10, <1>11, <1>12

(* One item, seen from a step. *)

LEMMA StatusTypes ==
  ASSUME TypeOK, NEW i \in Ids
  PROVE  /\ entry[i] \in [status : Listed \cup {"absent"}, userPaused : BOOLEAN]
         /\ entry[i].status \in Listed \cup {"absent"}
         /\ IsListed(entry, i) <=> entry[i].status # "absent"
  BY DEF TypeOK, Lists, Entries, Listed, IsListed

LEMMA ItemUntouched ==
  ASSUME NEW i \in Ids, ItemSound(i),
         entry'[i] = entry[i], i \in InQueue' <=> i \in InQueue, i \in boot' <=> i \in boot,
         run'[i] = run[i], reason'[i] = reason[i], i \in held' <=> i \in held,
         i \in hasty' <=> i \in hasty
  PROVE  ItemSound(i)'
  BY DEF ItemSound, Fits

\* It starts: its status tells so at once on Android, after the stat elsewhere.
LEMMA ItemStarted ==
  ASSUME NEW i \in Ids, i \notin InQueue', i \notin held',
         run'[i] = FirstStep, reason'[i] = "none",
         entry'[i].status \notin {"absent", "done"},
         Android => entry'[i].status = "downloading"
  PROVE  ItemSound(i)'
  BY DEF ItemSound, Fits, FirstStep

\* It waits.
LEMMA ItemWaits ==
  ASSUME NEW i \in Ids, i \in InQueue', i \notin held',
         run'[i] = "none", entry'[i].status = "queued"
  PROVE  ItemSound(i)'
  BY DEF ItemSound, Fits

\* It is listed anew or resumed: it starts or waits, and nobody holds it.
LEMMA ResumeItems ==
  ASSUME ItemInv, NEW id \in Ids, Resume(id), UNCHANGED <<boot, hasty>>,
         held' = IF Resumable(id) THEN held \ {id} ELSE held
  PROVE  \A i \in Ids \ undone : ItemSound(i)'
  <1> USE DEF ItemInv
  <1>1. CASE ~Resumable(id)
    BY <1>1, ItemUntouched DEF Resume, InQueue
  <1>2. ASSUME Resumable(id), NEW i \in Ids \ (undone \cup {id}) PROVE ItemSound(i)'
    <2>1. i \in InQueue' <=> i \in InQueue
      <3>1. CASE queue' = queue
        BY <3>1 DEF InQueue
      <3>2. CASE queue' = Append(queue, id)
        BY <1>2, <3>2, AppendWaits
      <3> QED BY <1>2, <3>1, <3>2 DEF Resume
    <2>2. entry'[i] = entry[i] /\ run'[i] = run[i] /\ reason'[i] = reason[i]
      BY <1>2 DEF Resume, Launched, SetPaused, SetStatus, TypeOK, Lists
    <2> QED BY <1>2, <2>1, <2>2, ItemUntouched
  <1>3. ASSUME Resumable(id) PROVE ItemSound(id)'
    <2>1. /\ id \notin Active /\ id \notin InQueue /\ run[id] = "none"
          /\ entry[id].status \notin {"absent", "done"} /\ IsListed(entry, id)
      BY <1>3, StatusTypes DEF Resumable, Active
    <2>2. CASE Cardinality(Active) < slots
      <3>1. id \notin InQueue' /\ id \notin held' /\ run'[id] = FirstStep /\ reason'[id] = "none"
        BY <1>3, <2>1, <2>2 DEF Resume, InQueue, TypeOK
      <3> DEFINE list == SetPaused(entry, id, FALSE)
      <3>2. entry \in [Ids -> Entries]
        BY DEF TypeOK, Lists
      <3>3. list[id] = [entry[id] EXCEPT !.userPaused = FALSE]
        BY <2>1, <3>2 DEF SetPaused
      <3>4. list[id].status = entry[id].status /\ list[id] \in Entries
        BY <3>2, <3>3 DEF Entries
      <3>5. entry' = Launched(list, {id})
        BY <1>3, <2>2 DEF Resume
      <3> HIDE DEF list
      <3>6. entry'[id].status \notin {"absent", "done"}
            /\ (Android => entry'[id].status = "downloading")
        BY <2>1, <3>4, <3>5 DEF Launched, Entries
      <3> QED BY <3>1, <3>6, ItemStarted
    <2>3. CASE ~(Cardinality(Active) < slots)
      <3>1. id \in InQueue' /\ id \notin held' /\ run'[id] = "none"
        BY <1>3, <2>1, <2>3, AppendWaits DEF Resume
      <3>2. entry'[id].status = "queued"
        BY <1>3, <2>1, <2>3, StatusTypes
           DEF Resume, SetPaused, SetStatus, IsListed, TypeOK, Lists, Entries
      <3> QED BY <3>1, <3>2, ItemWaits
    <2> QED BY <2>2, <2>3
  <1> QED BY <1>1, <1>2, <1>3

\* A drain: it starts items that wait, and leaves the others as the list that is
\* written says.
LEMMA DrainItems ==
  ASSUME ItemInv, NEW list \in Lists, NEW stopped \in SUBSET Active,
         TryRunNext(list, stopped), UNCHANGED <<boot, held, hasty>>,
         \A i \in Ids \ stopped : list[i] = entry[i],
         \A i \in stopped \ undone :
           Fits(list[i].status, list[i].userPaused, FALSE, i \in boot, "none", "none",
                i \in held, i \in hasty)
  PROVE  \A i \in Ids \ undone : ItemSound(i)'
  <1> USE DEF ItemInv
  <1>1. stopped \subseteq Ids /\ \A i \in stopped : i \notin InQueue
    BY DEF Active, QueueSound
  <1>2. \A i \in InQueue \ undone :
          /\ i \in Ids /\ list[i] = entry[i] /\ (entry[i].status = "queued" \/ i \in hasty)
          /\ run[i] = "none" /\ i \notin held
    <2>1. InQueue \subseteq Ids
      BY ElementOfSeq DEF InQueue, TypeOK
    <2> QED BY <1>1, <2>1 DEF ItemSound, Fits
  <1>3. PICK taken \in SUBSET InQueue, go \in SUBSET InQueue :
          /\ go = {i \in taken : list[i].status = "queued"}
          /\ InQueue' = InQueue \ taken
          /\ entry' = Launched(list, go)
          /\ run' = [i \in Ids |-> IF i \in go THEN FirstStep
                                   ELSE IF i \in stopped THEN "none" ELSE run[i]]
          /\ reason' = [i \in Ids |-> IF i \in go \cup stopped THEN "none" ELSE reason[i]]
    BY <1>1, DrainStarts
  <1>4. ASSUME NEW i \in go \ undone PROVE ItemSound(i)'
    <2>1. i \notin InQueue' /\ i \notin held' /\ run'[i] = FirstStep /\ reason'[i] = "none"
      BY <1>2, <1>3
    <2>2. list[i] \in Entries /\ list[i].status = "queued"
      BY <1>2, <1>3 DEF Lists
    <2>3. /\ entry'[i].status \notin {"absent", "done"}
          /\ Android => entry'[i].status = "downloading"
      BY <1>2, <1>3, <2>2 DEF Launched, Entries
    <2> QED BY <1>2, <2>1, <2>3, ItemStarted
  <1>5. ASSUME NEW i \in Ids \ go PROVE entry'[i] = list[i]
    BY <1>3, <1>5 DEF Launched, Lists
  <1>6. ASSUME NEW i \in stopped \ undone PROVE ItemSound(i)'
    <2>1. /\ i \in Ids /\ i \notin go /\ i \notin InQueue'
          /\ run'[i] = "none" /\ reason'[i] = "none"
      BY <1>1, <1>3
    <2> QED BY <1>5, <2>1 DEF ItemSound, Fits
  <1>7. ASSUME NEW i \in Ids \ (go \cup stopped \cup undone) PROVE ItemSound(i)'
    <2>1. entry'[i] = entry[i] /\ run'[i] = run[i] /\ reason'[i] = reason[i]
      BY <1>3, <1>5, <1>7
    <2>2. CASE i \notin taken
      BY <1>3, <1>7, <2>1, <2>2, ItemUntouched
    <2>3. CASE i \in taken
      <3>1. i \notin InQueue' /\ i \notin held /\ run[i] = "none" /\ entry[i].status # "queued"
        BY <1>2, <1>3, <1>7, <2>3
      <3> QED BY <1>7, <2>1, <3>1 DEF ItemSound, Fits
    <2> QED BY <2>2, <2>3
  <1> QED BY <1>4, <1>6, <1>7

\* A run ends: it leaves a list that no longer says it is busy.
LEMMA EndRunItems ==
  ASSUME ItemInv, NEW id \in Active, NEW list \in Lists, EndRun(id, list),
         \A i \in Ids \ {id} : list[i] = entry[i],
         list[id].status \notin {"queued", "downloading"},
         id \in undone \/ list[id].status # "paused" \/ list[id].userPaused \/ id \notin held
  PROVE  \A i \in Ids \ undone : ItemSound(i)'
  <1>1. id \notin undone =>
          Fits(list[id].status, list[id].userPaused, FALSE, id \in boot, "none", "none",
               id \in held, id \in hasty)
    BY DEF Fits
  <1>2. /\ TryRunNext(list, {id}) /\ UNCHANGED <<boot, held, hasty>> /\ {id} \in SUBSET Active
        /\ \A i \in Ids \ {id} : list[i] = entry[i]
    BY DEF EndRun, jobs
  <1> QED BY <1>1, <1>2, DrainItems

LEMMA RunStepItems ==
  ASSUME ItemInv, NEW id \in Ids, RunStep(id)
  PROVE  \A i \in Ids \ undone : ItemSound(i)'
  <1> USE DEF ItemInv
  <1>1. run[id] \notin {"none", "leaked"} /\ id \in Active /\ id \notin InQueue
    BY DEF RunStep, StatOk, StatThrows, ResponseOk, RangeNotSatisfiable, BodyEnds, Complete,
           FailDesktop, FailAndroid, CleanedUp, Advance, Active, QueueSound
  <1>2. id \notin undone => ItemSound(id)
    OBVIOUS
  <1>3. CASE StatOk(id) \/ StatThrows(id) \/ ResponseOk(id) \/ BodyEnds(id) \/ FailAndroid(id)
    <2>1. UNCHANGED <<queue, reason, boot, held, hasty>>
      BY <1>3 DEF StatOk, StatThrows, ResponseOk, BodyEnds, FailAndroid, jobs
    <2>2. InQueue' = InQueue
      BY <2>1 DEF InQueue
    <2>3. ASSUME NEW i \in Ids \ (undone \cup {id}) PROVE ItemSound(i)'
      <3>1. entry'[i] = entry[i] /\ run'[i] = run[i]
        BY <1>3, <2>3 DEF StatOk, StatThrows, ResponseOk, BodyEnds, FailAndroid, Advance,
                          SetStatus, TypeOK, Lists
      <3> QED BY <2>1, <2>2, <2>3, <3>1, ItemUntouched
    <2>4. CASE StatOk(id)
      <3>1. run'[id] = "fetch" /\ run[id] = "stat"
        BY <2>4 DEF StatOk, Advance, TypeOK
      <3>2. entry'[id].status = IF entry[id].status = "absent" THEN "absent" ELSE "downloading"
        BY <2>4, StatusTypes DEF StatOk, SetStatus, TypeOK, Lists, Entries
      <3>3. id \notin undone => ItemSound(id)'
        BY <1>1, <1>2, <2>1, <2>2, <3>1, <3>2 DEF ItemSound, Fits
      <3> QED BY <2>3, <3>3
    <2>5. CASE StatThrows(id) \/ ResponseOk(id) \/ BodyEnds(id) \/ FailAndroid(id)
      <3>1. entry' = entry /\ run'[id] # "none"
        BY <2>5 DEF StatThrows, ResponseOk, BodyEnds, FailAndroid, Advance, TypeOK
      <3>2. run'[id] = "leaked" \/ run[id] # "stat"
        BY <2>5 DEF StatThrows, ResponseOk, BodyEnds, FailAndroid, Advance, TypeOK
      <3>3. id \notin undone => ItemSound(id)'
        BY <1>1, <1>2, <2>1, <2>2, <3>1, <3>2 DEF ItemSound, Fits
      <3> QED BY <2>3, <3>3
    <2> QED BY <1>3, <2>4, <2>5
  <1>4. ASSUME NEW st \in {"done", "stalled", "error", "paused"},
               EndRun(id, SetStatus(entry, id, st)), st = "paused" => id \notin held \ undone
        PROVE  \A i \in Ids \ undone : ItemSound(i)'
    <2>1. SetStatus(entry, id, st) \in Lists
      BY ListTypes DEF TypeOK, Listed
    <2>2. /\ \A i \in Ids \ {id} : SetStatus(entry, id, st)[i] = entry[i]
          /\ SetStatus(entry, id, st)[id].status \in {st, "absent"}
      BY StatusTypes DEF SetStatus, TypeOK, Lists, Entries
    <2> QED BY <1>1, <1>4, <2>1, <2>2, EndRunItems
  <1>5. ASSUME EndRun(id, SetPaused(SetStatus(entry, id, "paused"), id, TRUE))
        PROVE  \A i \in Ids \ undone : ItemSound(i)'
    <2> DEFINE list == SetPaused(SetStatus(entry, id, "paused"), id, TRUE)
    <2>1. list \in Lists
      <3>1. SetStatus(entry, id, "paused") \in Lists
        BY ListTypes DEF TypeOK, Listed
      <3> QED BY <3>1, ListTypes
    <2>2. /\ \A i \in Ids \ {id} : list[i] = entry[i]
          /\ \/ list[id].status = "absent"
             \/ list[id].status = "paused" /\ list[id].userPaused
      BY StatusTypes DEF SetPaused, SetStatus, IsListed, Listed, TypeOK, Lists, Entries
    <2> HIDE DEF list
    <2> QED BY <1>1, <1>5, <2>1, <2>2, EndRunItems DEF list
  <1>6. reason[id] = "none" => id \notin held \ undone
    BY <1>1, <1>2 DEF ItemSound, Fits
  <1>7. CASE RangeNotSatisfiable(id) \/ Complete(id)
    BY <1>4, <1>7 DEF RangeNotSatisfiable, Complete
  <1>8. CASE FailDesktop(id)
    BY <1>4, <1>5, <1>6, <1>8 DEF FailDesktop, EndStalled, EndPaused, EndLocked, EndError
  <1>9. CASE CleanedUp(id)
    BY <1>4, <1>5, <1>9 DEF CleanedUp
  <1> QED BY <1>3, <1>7, <1>8, <1>9 DEF RunStep

LEMMA CommandItems ==
  ASSUME ItemInv, NEW id \in Ids,
         \/ StartDownload(id) \/ UserResume(id) \/ PauseActive(id)
         \/ PauseQueued(id) \/ RemoveDownload(id) \/ RemoveFinish(id)
  PROVE  \A i \in Ids \ undone' : ItemSound(i)'
  <1> USE DEF ItemInv
  <1>0. id \notin undone => ItemSound(id)
    OBVIOUS
  <1>1. CASE StartDownload(id)
    <2>1. /\ id \notin InQueue /\ id \notin boot /\ run[id] = "none"
          /\ UNCHANGED boot /\ held' = held \ {id} /\ reason'[id] = "none"
          /\ undone' = undone \ {id} /\ hasty' = hasty \ {id}
      BY <1>1 DEF StartDownload, Fresh, TypeOK
    <2>2. CASE Cardinality(Active) < slots
      <3>1. /\ InQueue' = InQueue /\ run'[id] = FirstStep
            /\ \A i \in Ids \ {id} : run'[i] = run[i]
        <4>1. queue' = queue /\ run' = [run EXCEPT ![id] = FirstStep]
          BY <1>1, <2>2 DEF StartDownload
        <4>2. run \in [Ids -> Steps]
          BY DEF TypeOK
        <4>3. InQueue' = InQueue
          BY <4>1 DEF InQueue
        <4> HIDE DEF ItemInv
        <4> QED BY <4>1, <4>2, <4>3
      <3>2. entry'[id].status = "downloading"
        BY <1>1, <2>2 DEF StartDownload, TypeOK, Lists
      <3>3. ItemSound(id)'
        BY <2>1, <3>1, <3>2, ItemStarted
      <3>4. \A i \in Ids \ {id} : entry'[i] = entry[i] /\ reason'[i] = reason[i]
        BY <1>1 DEF StartDownload, TypeOK, Lists
      <3> QED BY <2>1, <3>1, <3>3, <3>4, ItemUntouched
    <2>3. CASE ~(Cardinality(Active) < slots)
      <3>1. /\ InQueue' = InQueue \cup {id} /\ run' = run /\ entry'[id].status = "queued"
        BY <1>1, <2>3, AppendWaits DEF StartDownload, TypeOK, Lists
      <3>2. ItemSound(id)'
        BY <2>1, <3>1, ItemWaits
      <3>3. \A i \in Ids \ {id} : entry'[i] = entry[i] /\ reason'[i] = reason[i]
        BY <1>1 DEF StartDownload, TypeOK, Lists
      <3> QED BY <2>1, <3>1, <3>2, <3>3, ItemUntouched
    <2> QED BY <2>2, <2>3
  <1>2. CASE UserResume(id)
    BY <1>2, ResumeItems DEF UserResume, jobs
  <1>3. ASSUME PauseActive(id) \/ PauseQueued(id)
        PROVE  \A i \in Ids \ undone' : ItemSound(i)'
    <2>1. /\ UNCHANGED <<run, boot, undone, hasty>>
          /\ held' = IF IsListed(entry, id) THEN held \cup {id} ELSE held
          /\ entry' = SetPaused(SetStatus(entry, id, "paused"), id, TRUE)
      BY <1>3 DEF PauseActive, PauseQueued, jobs
    <2>2. /\ \A i \in Ids \ {id} : entry'[i] = entry[i]
          /\ IF IsListed(entry, id) THEN entry'[id].status = "paused" /\ entry'[id].userPaused
             ELSE entry'[id] = entry[id] /\ entry[id].status = "absent"
      BY <2>1, StatusTypes DEF SetPaused, SetStatus, IsListed, Listed, TypeOK, Lists, Entries
    <2>3. InQueue' = InQueue \ {id}
      <3>1. CASE PauseActive(id)
        <4>1. id \notin InQueue
          BY <3>1 DEF PauseActive, QueueSound
        <4> QED BY <3>1, <4>1 DEF PauseActive, InQueue
      <3>2. CASE PauseQueued(id)
        BY <3>2, DropWaits DEF PauseQueued
      <3> QED BY <1>3, <3>1, <3>2
    <2>4. /\ \A i \in Ids \ {id} : reason'[i] = reason[i]
          /\ run[id] # "none" => reason'[id] # "none"
          /\ IsListed(entry, id) \/ reason'[id] # "none" \/ run[id] = "none"
      BY <1>3 DEF PauseActive, PauseQueued, AbortReason, Active, TypeOK
    <2>5. id \notin undone => ItemSound(id)'
      BY <1>0, <2>1, <2>2, <2>3, <2>4 DEF ItemSound, Fits
    <2>6. ASSUME NEW i \in Ids \ (undone \cup {id}) PROVE ItemSound(i)'
      BY <2>1, <2>2, <2>3, <2>4, ItemUntouched
    <2> QED BY <2>1, <2>5, <2>6
  <1>4. CASE RemoveDownload(id)
    <2>1. /\ UNCHANGED <<run, boot>> /\ held' = held \ {id} /\ undone' = undone \ {id}
          /\ hasty' = hasty \ {id}
          /\ entry' = [entry EXCEPT ![id] = Absent]
          /\ InQueue' = InQueue \ {id}
      BY <1>4, DropWaits DEF RemoveDownload
    <2>2. /\ \A i \in Ids \ {id} : entry'[i] = entry[i] /\ reason'[i] = reason[i]
          /\ run[id] # "none" => reason'[id] # "none"
          /\ entry'[id].status = "absent"
      BY <1>4, <2>1 DEF RemoveDownload, AbortReason, Active, Absent, TypeOK, Lists
    <2>3. ItemSound(id)'
      BY <2>1, <2>2 DEF ItemSound, Fits
    <2>4. ASSUME NEW i \in Ids \ (undone \cup {id}) PROVE ItemSound(i)'
      BY <2>1, <2>2, ItemUntouched
    <2> QED BY <2>1, <2>3, <2>4
  <1>5. CASE RemoveFinish(id)
    <2>0. undone' = undone /\ hasty' = hasty
      BY <1>5 DEF RemoveFinish, jobs
    <2>1. CASE TryRunNext(entry, {})
      <3>1. UNCHANGED <<boot, held>> /\ entry \in Lists /\ {} \in SUBSET Active
        BY <1>5 DEF RemoveFinish, TypeOK
      <3> QED BY <2>1, <3>1, <2>0, DrainItems
    <2>2. CASE UNCHANGED <<entry, queue, run, reason>>
      <3>1. InQueue' = InQueue /\ UNCHANGED <<boot, held>>
        BY <1>5, <2>2 DEF RemoveFinish, InQueue
      <3> QED BY <2>0, <2>2, <3>1, ItemUntouched
    <2> QED BY <1>5, <2>1, <2>2 DEF RemoveFinish
  <1> QED BY <1>1, <1>2, <1>3, <1>4, <1>5

\* A page load, and the resume that follows it.
LEMMA ReloadItems ==
  ASSUME ItemInv, Reload
  PROVE  \A i \in Ids : ItemSound(i)'
  <1> USE DEF ItemInv
  <1> SUFFICES ASSUME NEW i \in Ids PROVE ItemSound(i)'
    OBVIOUS
  <1>1. InQueue' = {}
    <2>1. Len(queue') = 0
      BY EmptySeq DEF Reload
    <2> QED BY <2>1 DEF InQueue
  <1>2. /\ run'[i] = "none" /\ entry' = entry /\ held' = held
        /\ i \in boot' <=> \/ entry[i].status \in {"downloading", "queued"}
                           \/ entry[i].status = "paused" /\ ~entry[i].userPaused
    BY DEF Reload, Interrupted
  <1> QED BY <1>1, <1>2 DEF ItemSound, Fits

LEMMA BootItems ==
  ASSUME ItemInv, BootResume
  PROVE  \A i \in Ids \ undone : ItemSound(i)'
  <1> USE DEF ItemInv
  <1>1. PICK go \in SUBSET BootTodo :
          /\ InQueue' = InQueue \cup (BootTodo \ go)
          /\ run' = [i \in Ids |-> IF i \in go THEN FirstStep ELSE run[i]]
          /\ reason' = [i \in Ids |-> IF i \in go THEN "none" ELSE reason[i]]
          /\ entry' = Launched(BootWaiting(go), go)
    BY BootStarts
  <1>2. boot' = {} /\ held' = held \ BootTodo /\ hasty' = hasty
    BY DEF BootResume, BootTodo, jobs
  <1>3. \A i \in BootTodo : /\ i \in Ids /\ run[i] = "none" /\ i \notin InQueue
                            /\ entry[i].status \notin {"absent", "done"}
    BY StatusTypes DEF BootTodo, Resumable, Active, TypeOK
  <1>4. ASSUME NEW i \in Ids
        PROVE  /\ entry[i] \in Entries
               /\ BootList[i] = IF i \in BootTodo THEN [entry[i] EXCEPT !.userPaused = FALSE]
                                ELSE entry[i]
               /\ BootList[i].status = entry[i].status
    BY DEF BootList, TypeOK, Lists, Entries
  <1>5. ASSUME NEW i \in go PROVE ItemSound(i)'
    <2>1. /\ i \in Ids /\ i \notin InQueue' /\ i \notin held'
          /\ run'[i] = FirstStep /\ reason'[i] = "none"
      BY <1>1, <1>2, <1>3
    <2>2. BootWaiting(go)[i] = BootList[i]
      BY <2>1 DEF BootWaiting
    <2>3. BootList[i].status \notin {"absent", "done"} /\ BootList[i] \in Entries
      BY <1>3, <1>4, <2>1 DEF Entries
    <2>4. entry'[i] = IF Android THEN [BootList[i] EXCEPT !.status = "downloading"]
                      ELSE BootList[i]
      BY <1>1, <2>1, <2>2 DEF Launched
    <2>5. /\ entry'[i].status \notin {"absent", "done"}
          /\ Android => entry'[i].status = "downloading"
      BY <2>3, <2>4 DEF Entries
    <2> QED BY <2>1, <2>5, ItemStarted
  <1>6. ASSUME NEW i \in BootTodo \ go PROVE ItemSound(i)'
    <2>1. i \in Ids /\ i \in InQueue' /\ i \notin held' /\ run'[i] = "none"
      BY <1>1, <1>2, <1>3, <1>6
    <2>2. entry'[i].status = "queued"
      BY <1>1, <1>4, <1>6, <2>1 DEF Launched, BootWaiting, Entries
    <2> QED BY <2>1, <2>2, ItemWaits
  <1>7. ASSUME NEW i \in Ids \ (BootTodo \cup undone) PROVE ItemSound(i)'
    <2>1. /\ entry'[i] = entry[i] /\ run'[i] = run[i] /\ reason'[i] = reason[i]
          /\ i \in InQueue' <=> i \in InQueue
          /\ i \in held' <=> i \in held
          /\ i \notin boot'
      BY <1>1, <1>2, <1>4, <1>7 DEF Launched, BootWaiting
    <2>2. i \in boot => i \in Active \/ i \in InQueue \/ entry[i].status \in {"absent", "done"}
      BY <1>7, StatusTypes DEF BootTodo, Resumable
    <2>3. i \in Active <=> run[i] # "none"
      BY DEF Active
    <2>4. ItemSound(i)
      OBVIOUS
    <2> QED BY <1>2, <2>1, <2>2, <2>3, <2>4 DEF ItemSound, Fits
  <1> QED BY <1>5, <1>6, <1>7

\* A job that writes its list back: an item it takes away was finished, one it adds
\* is nobody's, one it calls done while it runs or waits is hasty, and any other that
\* it does not count as undone is as it was.
LEMMA JobItems ==
  ASSUME ItemInv, PruneCommit \/ ScanCommit
  PROVE  \A i \in Ids \ undone' : ItemSound(i)'
  <1> USE DEF ItemInv
  <1> SUFFICES ASSUME NEW i \in Ids \ undone' PROVE ItemSound(i)'
    OBVIOUS
  <1>1. UNCHANGED <<queue, run, reason, boot, held>> /\ undone \subseteq undone'
    BY DEF PruneCommit, ScanCommit, WriteBack
  <1>2. i \notin undone /\ ItemSound(i) /\ (i \in InQueue' <=> i \in InQueue)
    BY <1>1 DEF InQueue
  <1>3. ASSUME entry'[i] = entry[i], i \in hasty' <=> i \in hasty PROVE ItemSound(i)'
    BY <1>1, <1>2, <1>3, ItemUntouched
  <1>4. CASE PruneCommit
    <2>0. hasty' = hasty
      BY <1>4 DEF PruneCommit
    <2>1. CASE i \in prune.missing \ Active /\ entry[i].status = "done" /\ entry' = Pruned
      <3>1. entry'[i].status = "absent" /\ run[i] = "none"
        BY <2>1 DEF Pruned, Absent, Active
      <3> QED BY <1>1, <1>2, <2>0, <2>1, <3>1 DEF ItemSound, Fits
    <2>2. \/ entry'[i] = entry[i]
          \/ i \in prune.missing \ Active /\ entry[i].status = "done" /\ entry' = Pruned
      BY <1>4 DEF PruneCommit, WriteBack
    <2> QED BY <1>3, <2>0, <2>1, <2>2
  <1>5. CASE ScanCommit
    <2>1. /\ i \in hasty => i \in hasty'
          /\ entry' = Merged /\ i \in Matched \cap (Active \cup InQueue) => i \in hasty'
          /\ i \notin Matched => (i \in hasty' <=> i \in hasty)
          /\ entry' = Merged \/ (hasty' = hasty /\ entry' = entry)
      BY <1>5 DEF ScanCommit, WriteBack
    <2>2. CASE i \in Imported /\ entry' = Merged
      <3>1. entry'[i].status = "done" /\ run[i] = "none" /\ i \notin InQueue
        BY <2>2 DEF Merged, Imported, Fresh
      <3>2. entry[i].status = "absent"
        BY <2>2, StatusTypes DEF Imported, Fresh
      <3> QED BY <1>1, <1>2, <3>1, <3>2 DEF ItemSound, Fits
    <2>3. CASE i \in Matched /\ IsListed(entry, i) /\ entry' = Merged
      <3>1. entry'[i].status = "done"
        <4>1. i \notin Imported
          BY <2>3 DEF Imported, Fresh
        <4>2. scan.list[i] \in Entries
          BY DEF TypeOK, Lists
        <4> QED BY <2>3, <4>1, <4>2 DEF Merged, Entries
      <3>2. run[i] # "none" \/ i \in InQueue => i \in hasty'
        BY <2>1, <2>3 DEF Active
      <3>3. run[i] # "none" /\ reason[i] = "none" => entry[i].status # "absent"
        BY <1>2 DEF ItemSound, Fits
      <3> QED BY <1>1, <1>2, <3>1, <3>2, <3>3 DEF ItemSound, Fits
    <2>4. CASE entry'[i] = entry[i] /\ i \in Matched /\ ~IsListed(entry, i) /\ entry' = Merged
      <3>1. entry'[i].status = "done" /\ entry[i].status = "absent"
        <4>1. i \notin Imported
          BY <2>4 DEF Imported, Found, Matched
        <4>2. scan.list[i] \in Entries
          BY DEF TypeOK, Lists
        <4> QED BY <2>4, <4>1, <4>2, StatusTypes DEF Merged, Entries
      <3> QED BY <2>4, <3>1
    <2>5. \/ entry'[i] = entry[i]
          \/ i \in Imported /\ entry' = Merged
          \/ i \in Matched /\ IsListed(entry, i) /\ entry' = Merged
      BY <1>5 DEF ScanCommit, WriteBack
    <2> QED BY <1>3, <2>1, <2>2, <2>3, <2>4, <2>5
  <1> QED BY <1>4, <1>5

LEMMA ItemStep ==
  ASSUME ItemInv, [Next]_vars
  PROVE  \A i \in Ids \ undone' : ItemSound(i)'
  <1> USE DEF ItemInv
  <1>1. ASSUME NEW id \in Ids,
               \/ StartDownload(id) \/ UserResume(id) \/ PauseActive(id)
               \/ PauseQueued(id) \/ RemoveDownload(id) \/ RemoveFinish(id)
        PROVE  \A i \in Ids \ undone' : ItemSound(i)'
    BY <1>1, CommandItems
  <1>2. ASSUME NEW id \in Ids, RunStep(id)
        PROVE  \A i \in Ids \ undone' : ItemSound(i)'
    <2>1. UNCHANGED jobs
      BY <1>2 DEF RunStep, StatOk, StatThrows, ResponseOk, RangeNotSatisfiable, BodyEnds,
                  Complete, FailDesktop, FailAndroid, CleanedUp, EndStalled, EndPaused,
                  EndLocked, EndError, EndRun
    <2> QED BY <1>2, <2>1, RunStepItems DEF jobs
  <1>3. ASSUME NEW id \in Ids, RetryFires(id)
        PROVE  \A i \in Ids \ undone' : ItemSound(i)'
    BY <1>3, ResumeItems DEF RetryFires, jobs
  <1>4. ASSUME NEW id \in Ids, Stall(id)
        PROVE  \A i \in Ids \ undone' : ItemSound(i)'
    <2>1. /\ UNCHANGED <<entry, queue, run, boot, held, undone, hasty>>
          /\ run[id] \in {"fetch", "body", "verify"}
          /\ reason' = [reason EXCEPT ![id] = "stalled"]
      BY <1>4 DEF Stall, jobs
    <2>2. InQueue' = InQueue
      BY <2>1 DEF InQueue
    <2>3. reason'[id] = "stalled" /\ \A i \in Ids \ {id} : reason'[i] = reason[i]
      BY <2>1 DEF TypeOK
    <2>4. id \notin undone => ItemSound(id)'
      BY <2>1, <2>2, <2>3 DEF ItemSound, Fits
    <2>5. \A i \in Ids \ (undone \cup {id}) : ItemSound(i)'
      BY <2>1, <2>2, <2>3, ItemUntouched
    <2> QED BY <2>1, <2>4, <2>5
  <1>5. CASE Reload
    BY <1>5, ReloadItems
  <1>6. CASE BootResume
    BY <1>6, BootItems DEF BootResume, jobs
  <1>7. CASE \/ \E id \in Ids : PruneCheck(id)
             \/ (\E n \in 1..MaxSlots : SetSlots(n)) \/ PruneBegin \/ ScanBegin
             \/ UNCHANGED vars
    <2>1. UNCHANGED <<entry, queue, run, reason, boot, held, undone, hasty>>
      BY <1>7 DEF PruneCheck, SetSlots, PruneBegin, ScanBegin, vars, jobs
    <2>2. InQueue' = InQueue
      BY <2>1 DEF InQueue
    <2> QED BY <2>1, <2>2, ItemUntouched
  <1>8. CASE PruneCommit \/ ScanCommit
    BY <1>8, JobItems
  <1> QED BY <1>1, <1>2, <1>3, <1>4, <1>5, <1>6, <1>7, <1>8 DEF Next

LEMMA ItemInit == Init => ItemInv
  <1> SUFFICES ASSUME Init PROVE ItemInv
    OBVIOUS
  <1>1. TypeOK /\ QueueSound
    BY InitTypes, QueueInit
  <1>2. InQueue = {}
    <2>1. Len(queue) = 0
      BY EmptySeq DEF Init
    <2> QED BY <2>1 DEF InQueue
  <1>3. \A i \in Ids : ItemSound(i)
    BY <1>2 DEF Init, Absent, ItemSound, Fits
  <1> QED BY <1>1, <1>3 DEF ItemInv

LEMMA ItemAlways == Spec => []ItemInv
  <1>1. ItemInv /\ [Next]_vars => ItemInv'
    BY NextTypes, QueueStep, ItemStep DEF ItemInv
  <1> QED BY <1>1, ItemInit, PTL DEF Spec

\* The list never says of a download that it waits or runs when nothing will come of
\* it, and whatever runs is listed: only a job that writes an old entry over an item
\* can break this, for that item alone and until the next page load.
THEOREM ListIsTrue == Spec => []ListTellsRuns
  <1>1. ItemInv => ListTellsRuns
    <2> SUFFICES ASSUME ItemInv, NEW i \in Ids \ undone
                 PROVE  QueuedIsWaiting(i) /\ DownloadingIsLive(i) /\ RunIsListed(i)
      BY DEF ListTellsRuns
    <2> QED BY StatusTypes DEF ItemInv, ItemSound, Fits, Active, QueuedIsWaiting,
                               DownloadingIsLive, RunIsListed
  <1> QED BY <1>1, ItemAlways, PTL

\* A pause holds until the user, a retry timer or a page load resumes the download,
\* or a job writes an old entry over it.
THEOREM PausesHold == Spec => []UserPauseHolds
  <1>1. ItemInv => UserPauseHolds
    <2> SUFFICES ASSUME ItemInv, NEW i \in held \ undone
                 PROVE  /\ i \in Active => reason[i] # "none"
                        /\ i \notin InQueue
                        /\ run[i] = "none" /\ i \notin boot => i \notin Interrupted(entry)
      BY DEF UserPauseHolds
    <2>1. i \in Ids /\ ItemSound(i)
      BY DEF ItemInv, TypeOK
    <2> QED BY <2>1 DEF ItemSound, Fits, Active, Interrupted
  <1> QED BY <1>1, ItemAlways, PTL

\* What is done is left alone: no drain, resume, page load or late abort names it.
LEMMA DoneStep ==
  ASSUME ItemInv, [Next]_vars, NEW d \in Ids \ (undone' \cup hasty'),
         entry[d].status = "done"
  PROVE  entry'[d].status \in {"done", "absent"}
  <1>1. d \notin undone \cup hasty => run[d] = "none" /\ d \notin Active /\ d \notin InQueue
    BY DEF ItemInv, ItemSound, Fits, Active
  <1>2. entry \in [Ids -> Entries]
    BY DEF ItemInv, TypeOK, Lists
  <1>3. ASSUME NEW list, NEW stopped, list[d] = entry[d], TryRunNext(list, stopped)
        PROVE  entry'[d].status = "done"
    BY <1>3 DEF TryRunNext, Startable, Launched
  <1>4. ASSUME NEW id \in Ids, Resume(id) PROVE entry'[d] = entry[d]
    BY <1>2, <1>4 DEF Resume, Resumable, Launched, SetPaused, SetStatus
  <1>5. ASSUME NEW id \in Ids,
               \/ StartDownload(id) \/ UserResume(id) \/ PauseActive(id)
               \/ PauseQueued(id) \/ RemoveDownload(id) \/ RemoveFinish(id)
        PROVE  entry'[d].status \in {"done", "absent"}
    <2>1. CASE StartDownload(id)
      <3>1. id # d
        BY <2>1 DEF StartDownload, Fresh, IsListed, Listed
      <3> QED BY <1>2, <2>1, <3>1 DEF StartDownload
    <2>2. CASE UserResume(id)
      BY <1>4, <2>2 DEF UserResume
    <2>3. CASE PauseActive(id) \/ PauseQueued(id)
      <3>1. id # d /\ entry' = SetPaused(SetStatus(entry, id, "paused"), id, TRUE)
        BY <1>1, <2>3 DEF PauseActive, PauseQueued, jobs
      <3> QED BY <1>2, <3>1 DEF SetPaused, SetStatus
    <2>4. CASE RemoveDownload(id)
      BY <1>2, <2>4 DEF RemoveDownload, Absent
    <2>5. CASE RemoveFinish(id)
      BY <1>3, <2>5 DEF RemoveFinish
    <2> QED BY <1>5, <2>1, <2>2, <2>3, <2>4, <2>5
  <1>6. ASSUME NEW id \in Ids, RunStep(id) PROVE entry'[d].status \in {"done", "absent"}
    <2>0. UNCHANGED jobs
      BY <1>6 DEF RunStep, StatOk, StatThrows, ResponseOk, RangeNotSatisfiable, BodyEnds,
                  Complete, FailDesktop, FailAndroid, CleanedUp, EndStalled, EndPaused,
                  EndLocked, EndError, EndRun
    <2>1. id # d
      BY <1>1, <1>6, <2>0 DEF jobs, RunStep, StatOk, StatThrows, ResponseOk, RangeNotSatisfiable, BodyEnds,
                        Complete, FailDesktop, FailAndroid, CleanedUp, Advance
    <2>2. ASSUME NEW st, EndRun(id, SetStatus(entry, id, st)) PROVE entry'[d].status = "done"
      <3>1. SetStatus(entry, id, st)[d] = entry[d]
        BY <1>2, <2>1 DEF SetStatus
      <3> QED BY <1>3, <2>2, <3>1 DEF EndRun
    <2>3. ASSUME EndRun(id, SetPaused(SetStatus(entry, id, "paused"), id, TRUE))
          PROVE  entry'[d].status = "done"
      <3>1. SetPaused(SetStatus(entry, id, "paused"), id, TRUE)[d] = entry[d]
        BY <1>2, <2>1 DEF SetPaused, SetStatus
      <3> QED BY <1>3, <2>3, <3>1 DEF EndRun
    <2>4. CASE StatOk(id) \/ StatThrows(id) \/ ResponseOk(id) \/ BodyEnds(id) \/ FailAndroid(id)
      BY <1>2, <2>1, <2>4 DEF StatOk, StatThrows, ResponseOk, BodyEnds, FailAndroid, SetStatus
    <2>5. CASE RangeNotSatisfiable(id) \/ Complete(id)
      BY <2>2, <2>5 DEF RangeNotSatisfiable, Complete
    <2>6. CASE FailDesktop(id)
      BY <2>2, <2>3, <2>6 DEF FailDesktop, EndStalled, EndPaused, EndLocked, EndError
    <2>7. CASE CleanedUp(id)
      BY <2>2, <2>3, <2>7 DEF CleanedUp
    <2> QED BY <1>6, <2>4, <2>5, <2>6, <2>7 DEF RunStep
  <1>7. CASE \E id \in Ids : RetryFires(id)
    BY <1>4, <1>7 DEF RetryFires
  <1>8. CASE BootResume
    <2>1. PICK go \in SUBSET BootTodo : entry' = Launched(BootWaiting(go), go)
      BY <1>8, BootStarts DEF ItemInv
    <2>2. d \notin BootTodo
      BY DEF BootTodo, Resumable
    <2> QED BY <2>1, <2>2 DEF Launched, BootWaiting, BootList
  <1>9. CASE \/ \E id \in Ids : Stall(id) \/ PruneCheck(id)
             \/ Reload \/ (\E n \in 1..MaxSlots : SetSlots(n))
             \/ PruneBegin \/ ScanBegin \/ UNCHANGED vars
    BY <1>9 DEF Stall, PruneCheck, Reload, SetSlots, PruneBegin, ScanBegin, vars
  <1>10. CASE PruneCommit
    <2>1. entry'[d] = entry[d] \/ (d \in prune.missing /\ entry' = Pruned)
      BY <1>10 DEF PruneCommit, WriteBack
    <2> QED BY <2>1 DEF Pruned, Absent
  <1>11. CASE ScanCommit
    <2>1. entry'[d] = entry[d] \/ (d \in Imported \cup Matched /\ entry' = Merged)
      BY <1>11 DEF ScanCommit, WriteBack
    <2>2. scan.list[d] \in Entries
      BY DEF ItemInv, TypeOK, Lists
    <2> QED BY <2>1, <2>2 DEF Merged, Entries
  <1> QED BY <1>5, <1>6, <1>7, <1>8, <1>9, <1>10, <1>11 DEF Next

\* A finished download stays finished until it is removed, whichever retry timer,
\* page load or late command arrives afterwards: only a job that writes an old entry
\* over it can change that, and the end of a download that a scan called done before.
THEOREM DoneIsFinal == Spec => DoneStaysDone
  <1>1. ItemInv /\ [Next]_vars =>
          [\A id \in Ids \ (undone' \cup hasty') : entry[id].status = "done" =>
             entry'[id].status \in {"done", "absent"}]_vars
    BY DoneStep
  <1> QED BY <1>1, ItemAlways, PTL DEF Spec, DoneStaysDone

------------------------------------------------------------------------------
(* The queue implements SlotPool.                                            *)

\* SlotPool counts as Downloads does.
LEMMA SameSize == \A S : Pool!Cardinality(S) = Cardinality(S)
  BY DEF Pool!Cardinality, Cardinality

\* A drain serves the head of the line: those it takes and does not start are no
\* longer listed as queued, which the list says of no id but an undone or hasty one.
LEMMA DrainServes ==
  ASSUME TypeOK, QueueSound, NEW list \in Lists,
         NEW stopped \in {{}} \cup {{c} : c \in Active},
         \A i \in InQueue \ (undone \cup hasty) : list[i].status = "queued",
         TryRunNext(list, stopped), slots' = slots
  PROVE  Pool!Serve
  <1>0. stopped \in SUBSET Ids
    BY DEF Active
  <1>1. PICK k \in 0..Len(queue) : Drained(list, stopped, k)
    BY <1>0, DrainShape
  <1> DEFINE go == Startable(list, k)
  <1>2. Len(queue) \in Nat
    BY LenProperties DEF TypeOK
  <1>3. go \in SUBSET {queue[i] : i \in 1..k}
    BY DEF Startable
  <1>4. \A i \in 1..k : queue[i] \in InQueue
    BY <1>2 DEF InQueue
  <1>5. \A i \in 1..k : queue[i] \in go \cup (undone \cup hasty)
    BY <1>4 DEF Startable
  <1>6. Active' = (Active \ stopped) \cup go
    BY <1>0, <1>1, FirstStepRuns DEF Active, Drained
  <1>7. go # {} => Cardinality(Active') <= slots
    <2>1. go \cap Active = {}
      BY <1>3, <1>4 DEF QueueSound
    <2>2. go # {} => ~(Active' \subseteq Active)
      BY <1>6, <2>1
    <2> QED BY <1>0, <2>2, DrainWithin DEF WithinSlots
  <1>8. queue' # <<>> => Cardinality(Active') >= slots
    <2>1. CASE k = Len(queue)
      <3>1. queue' \in Seq(Ids) /\ Len(queue') = 0
        BY <1>1, <1>2, <2>1 DEF Drained
      <3> QED BY <3>1, EmptySeq
    <2>2. CASE FullAfter(Active \ stopped, list, k)
      BY <1>6, <2>2 DEF FullAfter
    <2> QED BY <1>1, <2>1, <2>2 DEF Drained, DrainsTo
  <1>9. queue' = SubSeq(queue, k + 1, Len(queue))
    BY <1>1 DEF Drained
  <1> HIDE DEF go
  <1> QED BY <1>3, <1>5, <1>6, <1>7, <1>8, <1>9, SameSize DEF Pool!Serve

\* Ids that line up in some order, of which the first k start.
LEMMA OrderAsks ==
  ASSUME TypeOK, NEW n \in Nat, NEW k \in 0..n, NEW order \in [1..n -> Ids],
         \A i \in 1..n : order[i] \notin Active /\ order[i] \notin InQueue,
         \A i, j \in 1..n : order[i] = order[j] => i = j,
         Active' = Active \cup {order[m] : m \in 1..k},
         queue' = queue \o [i \in 1..(n - k) |-> order[k + i]],
         k > 0 => Cardinality(Active') <= slots,
         k < n => Cardinality(Active') >= slots,
         slots' = slots
  PROVE  Pool!Ask
  <1> DEFINE go   == {order[m] : m \in 1..k}
             rest == [i \in 1..(n - k) |-> order[k + i]]
             S    == Ids \ (Active \cup InQueue \cup go)
  <1>1. \A m \in 1..k : m \in 1..n
    OBVIOUS
  <1>2. go \in SUBSET (Ids \ (Active \cup InQueue))
    BY <1>1
  <1>3. \A i \in 1..(n - k) : rest[i] \in S
    <2> SUFFICES ASSUME NEW i \in 1..(n - k) PROVE order[k + i] \in S
      OBVIOUS
    <2>1. k + i \in 1..n /\ k + i \notin 1..k
      OBVIOUS
    <2> QED BY <1>1, <2>1
  <1>4. n - k \in 0..Cardinality(Ids)
    <2>1. order \in Injection(1..n, Ids)
      BY DEF Injection, IsInjective
    <2>2. Cardinality(1..n) <= Cardinality(Ids)
      BY <2>1, DownloadsAssumption, FS_Injection DEF DownloadsAssumption
    <2>3. Cardinality(1..n) = n
      BY UpTo
    <2>4. Cardinality(Ids) \in Nat
      BY DownloadsAssumption, FS_CardinalityType DEF DownloadsAssumption
    <2> QED BY <2>2, <2>3, <2>4
  <1>5. rest \in Pool!Lines(S)
    <2>1. rest \in [1..(n - k) -> S] /\ DOMAIN rest = 1..(n - k)
      BY <1>3
    <2>2. \A i, j \in 1..(n - k) : rest[i] = rest[j] => i = j
      <3> SUFFICES ASSUME NEW i \in 1..(n - k), NEW j \in 1..(n - k),
                          order[k + i] = order[k + j]
                   PROVE  i = j
        OBVIOUS
      <3>1. k + i \in 1..n /\ k + j \in 1..n
        OBVIOUS
      <3>2. k + i = k + j
        BY <3>1
      <3> QED BY <3>2
    <2> HIDE DEF rest, S
    <2> QED BY <1>4, <2>1, <2>2, SameSize DEF Pool!Lines
  <1>6. go # {} => Cardinality(Active') <= slots
    OBVIOUS
  <1>7. rest # <<>> => Cardinality(Active') >= slots
    <2>1. n - k = 0 => rest = <<>>
      OBVIOUS
    <2> QED BY <2>1
  <1>8. Active' = Active \cup go /\ queue' = queue \o rest
    OBVIOUS
  <1> HIDE DEF go, rest
  <1>9. Pool!Waiting = InQueue
    BY DEF Pool!Waiting, InQueue
  <1> QED BY <1>2, <1>5, <1>6, <1>7, <1>8, <1>9, SameSize DEF Pool!Ask

\* One id asks for a slot: it starts or joins the queue.
LEMMA AskOne ==
  ASSUME TypeOK, NEW id \in Ids, id \notin Active, id \notin InQueue, slots' = slots,
         \/ Cardinality(Active) < slots /\ Active' = Active \cup {id} /\ queue' = queue
         \/ ~(Cardinality(Active) < slots) /\ Active' = Active /\ queue' = Append(queue, id)
  PROVE  Pool!Ask
  <1> DEFINE order == [i \in 1..1 |-> id]
             n == 1
             k == IF Cardinality(Active) < slots THEN 1 ELSE 0
             go == {order[m] : m \in 1..k}
             rest == [i \in 1..(n - k) |-> order[k + i]]
  <1>1. queue \in Seq(Ids) /\ slots \in Nat /\ Active \in SUBSET Ids
    BY DownloadsAssumption DEF TypeOK, DownloadsAssumption, Active
  <1>2. Cardinality(Active) \in Nat
    BY <1>1, ActiveFinite
  <1>3. /\ order \in [1..n -> Ids] /\ \A i \in 1..n : order[i] = id
        /\ \A i, j \in 1..n : order[i] = order[j] => i = j
    OBVIOUS
  <1>4. /\ n \in Nat /\ k \in 0..n
        /\ Active' = Active \cup go /\ queue' = queue \o rest
        /\ k > 0 => Cardinality(Active') <= slots
        /\ k < n => Cardinality(Active') >= slots
    <2>1. CASE Cardinality(Active) < slots
      <3>1. k = 1 /\ go = {id} /\ rest = <<>>
        BY <2>1
      <3>2. queue \o <<>> = queue
        BY <1>1, ConcatEmptySeq
      <3>3. Cardinality(Active') <= slots
        BY <1>1, <2>1, OneMore
      <3> HIDE DEF go, rest, k
      <3> QED BY <2>1, <3>1, <3>2, <3>3
    <2>2. CASE ~(Cardinality(Active) < slots)
      <3>1. k = 0 /\ go = {} /\ rest = <<id>>
        BY <2>2
      <3>2. Append(queue, id) = queue \o <<id>>
        BY <1>1, AppendIsConcat
      <3>3. Cardinality(Active') >= slots
        BY <1>1, <1>2, <2>2
      <3> HIDE DEF go, rest, k
      <3> QED BY <2>2, <3>1, <3>2, <3>3
    <2> QED BY <2>1, <2>2
  <1>5. \A i \in 1..n : order[i] \notin Active /\ order[i] \notin InQueue
    BY <1>3
  <1> HIDE DEF order, n, k
  <1> QED BY <1>3, <1>4, <1>5, OrderAsks, Zenon

\* The interrupted downloads ask all at once.
LEMMA BootAsks ==
  ASSUME TypeOK, BootResume
  PROVE  Pool!Ask
  <1>1. PICK k, n \in Nat, order \in Orders(BootTodo) : BootPlan(k, n, order)
    BY BootShape
  <1> DEFINE go == {order[m] : m \in 1..k}
  <1>2. /\ k \in 0..n /\ k <= BootRoom /\ (k = n \/ k = BootRoom)
        /\ order \in [1..n -> BootTodo]
        /\ \A i, j \in 1..n : order[i] = order[j] => i = j
        /\ queue' = queue \o [i \in 1..(n - k) |-> order[k + i]]
    BY <1>1 DEF BootPlan
  <1>3. \A m \in 1..k : m \in 1..n
    BY <1>2
  <1>4. \A i \in 1..n : order[i] \in Ids /\ order[i] \notin Active /\ order[i] \notin InQueue
    BY <1>2 DEF BootTodo, Resumable, TypeOK
  <1>5. order \in [1..n -> Ids] /\ go \in SUBSET Ids /\ go \cap Active = {}
    BY <1>2, <1>3, <1>4
  <1>6. Active' = Active \cup go
    BY <1>1, <1>5, FirstStepRuns DEF Active, BootPlan
  <1>7. /\ slots' = slots /\ slots \in Nat
        /\ IsFiniteSet(Active) /\ Cardinality(Active) \in Nat /\ Cardinality(go) \in Nat
        /\ IsFiniteSet(go)
    <2>0. UNCHANGED ui
      BY DEF BootResume
    <2>1. slots' = slots /\ slots \in Nat
      BY <2>0, DownloadsAssumption DEF ui, TypeOK, DownloadsAssumption
    <2>2. Active \in SUBSET Ids
      BY DEF Active
    <2> HIDE DEF go
    <2> QED BY <1>5, <2>1, <2>2, ActiveFinite
  <1>8. k > 0 => Cardinality(Active') <= slots
    <2> HAVE k > 0
    <2>1. order[1] \in go /\ order[1] \notin Active
      <3>1. 1 \in 1..k
        OBVIOUS
      <3>2. 1 \in 1..n
        BY <1>3, <3>1
      <3> QED BY <1>4, <3>1, <3>2
    <2>2. ~(Active' \subseteq Active)
      BY <1>6, <2>1
    <2> QED BY <1>7, <2>2, BootWithin DEF WithinSlots
  <1>9. k < n => Cardinality(Active') >= slots
    <2> HAVE k < n
    <2>1. k = BootRoom
      BY <1>2
    <2>2. Cardinality(go) = k
      <3> DEFINE f == [m \in 1..k |-> order[m]]
      <3>1. f \in Injection(1..k, go)
        BY <1>2, <1>3 DEF Injection, IsInjective
      <3>2. f \in Surjection(1..k, go)
        BY DEF Surjection
      <3>3. Cardinality(1..k) = k
        BY UpTo
      <3> HIDE DEF f, go
      <3> QED BY <1>7, <3>1, <3>2, <3>3, FS_Injection
    <2> HIDE DEF go
    <2>3. Cardinality(Active \cup go) = Cardinality(Active) + Cardinality(go)
      <3>1. Cardinality(Active \cup go)
              = Cardinality(Active) + Cardinality(go) - Cardinality(Active \cap go)
        BY <1>7, FS_Union
      <3>2. Cardinality(Active \cap go) = 0
        <4>1. Active \cap go = {}
          BY <1>5
        <4> QED BY <4>1, FS_EmptySet, Zenon
      <3> QED BY <1>7, <3>1, <3>2
    <2>4. Cardinality(Active') = Cardinality(Active) + k
      <3>1. Cardinality(Active') = Cardinality(Active \cup go)
        BY <1>6, Zenon
      <3> QED BY <2>2, <2>3, <3>1
    <2> QED BY <1>7, <2>1, <2>4 DEF BootRoom
  <1>10. /\ slots' = slots
         /\ \A i \in 1..n : order[i] \notin Active /\ order[i] \notin InQueue
         /\ Active' = Active \cup {order[m] : m \in 1..k}
    <2>1. slots' = slots
      BY <1>7
    <2>2. \A i \in 1..n : order[i] \notin Active /\ order[i] \notin InQueue
      BY <1>4
    <2>3. Active' = Active \cup {order[m] : m \in 1..k}
      BY <1>6
    <2> QED BY <2>1, <2>2, <2>3
  <1>11. k \in 0..n /\ order \in [1..n -> Ids]
    BY <1>2, <1>5
  <1>12. /\ \A i, j \in 1..n : order[i] = order[j] => i = j
         /\ queue' = queue \o [i \in 1..(n - k) |-> order[k + i]]
    BY <1>2
  <1> HIDE DEF go
  <1> QED BY <1>8, <1>9, <1>10, <1>11, <1>12, OrderAsks, ZenonT(60)

\* What a step of the queue's code is to a pool.
PoolStep == Pool!Next \/ UNCHANGED <<Active, queue, slots>>

LEMMA ResumePools ==
  ASSUME TypeOK, NEW id \in Ids, Resume(id), slots' = slots
  PROVE  PoolStep
  <1>1. CASE ~Resumable(id)
    BY <1>1 DEF Resume, Active, PoolStep
  <1>2. CASE Resumable(id)
    <2>1. id \notin Active /\ id \notin InQueue
      BY <1>2 DEF Resumable
    <2>2. CASE Cardinality(Active) < slots
      <3>1. queue' = queue /\ run' = [run EXCEPT ![id] = FirstStep]
        BY <1>2, <2>2 DEF Resume
      <3>2. Active' = Active \cup {id}
        BY <3>1, FirstStepRuns DEF Active, TypeOK
      <3> QED BY <2>1, <2>2, <3>1, <3>2, AskOne DEF PoolStep, Pool!Next
    <2>3. CASE ~(Cardinality(Active) < slots)
      <3>1. queue' = Append(queue, id) /\ run' = run
        BY <1>2, <2>3 DEF Resume
      <3>2. Active' = Active
        BY <3>1 DEF Active
      <3> QED BY <2>1, <2>3, <3>1, <3>2, AskOne DEF PoolStep, Pool!Next
    <2> QED BY <2>2, <2>3
  <1> QED BY <1>1, <1>2

\* The item of a run that ends does not wait, so the drain finds the list as it was
\* for those who do.
LEMMA EndRunPools ==
  ASSUME ItemInv, NEW id \in Active, NEW list \in Lists, EndRun(id, list),
         \A i \in Ids \ {id} : list[i] = entry[i]
  PROVE  PoolStep
  <1>1. TypeOK /\ QueueSound
    BY DEF ItemInv
  <1>2. TryRunNext(list, {id}) /\ slots' = slots
    BY DEF EndRun, ui
  <1>3. \A i \in InQueue \ (undone \cup hasty) : list[i].status = "queued"
    <2> SUFFICES ASSUME NEW i \in InQueue \ (undone \cup hasty) PROVE list[i].status = "queued"
      OBVIOUS
    <2>1. i \in Ids /\ i # id
      BY <1>1, ElementOfSeq DEF InQueue, TypeOK, QueueSound
    <2> QED BY <2>1 DEF ItemInv, ItemSound, Fits
  <1>4. {id} \in {{}} \cup {{c} : c \in Active}
    OBVIOUS
  <1>5. Pool!Serve
    BY <1>1, <1>2, <1>3, <1>4, DrainServes
  <1> QED BY <1>5 DEF PoolStep, Pool!Next

LEMMA RunStepPools ==
  ASSUME ItemInv, NEW id \in Ids, RunStep(id)
  PROVE  PoolStep
  <1>0. TypeOK /\ entry \in Lists
    BY DEF ItemInv, TypeOK
  <1>1. CASE StatOk(id) \/ StatThrows(id) \/ ResponseOk(id) \/ BodyEnds(id) \/ FailAndroid(id)
    <2>1. Active' = Active
      BY <1>0, <1>1 DEF StatOk, StatThrows, ResponseOk, BodyEnds, FailAndroid, Advance, Active,
                        TypeOK
    <2>2. queue' = queue /\ slots' = slots
      BY <1>1 DEF StatOk, StatThrows, ResponseOk, BodyEnds, FailAndroid, ui
    <2> QED BY <2>1, <2>2 DEF PoolStep
  <1>2. CASE RangeNotSatisfiable(id) \/ Complete(id) \/ FailDesktop(id) \/ CleanedUp(id)
    <2>1. id \in Active
      BY <1>2 DEF RangeNotSatisfiable, Complete, FailDesktop, CleanedUp, Active
    <2>2. \A st \in Listed : /\ SetStatus(entry, id, st) \in Lists
                             /\ \A i \in Ids \ {id} : SetStatus(entry, id, st)[i] = entry[i]
      BY <1>0, ListTypes DEF SetStatus, Lists
    <2>3. {"done", "paused", "stalled", "error"} \subseteq Listed
      BY DEF Listed
    <2> DEFINE mine == SetPaused(SetStatus(entry, id, "paused"), id, TRUE)
    <2>4. mine \in Lists /\ \A i \in Ids \ {id} : mine[i] = entry[i]
      <3>1. SetStatus(entry, id, "paused") \in Lists
        BY <2>2, <2>3
      <3>2. mine \in Lists
        BY <3>1, ListTypes
      <3>3. \A i \in Ids \ {id} : mine[i] = SetStatus(entry, id, "paused")[i]
        BY <3>1 DEF SetPaused, Lists
      <3> QED BY <2>2, <2>3, <3>2, <3>3
    <2> HIDE DEF mine
    <2>5. PICK list \in Lists : /\ EndRun(id, list)
                                /\ \A i \in Ids \ {id} : list[i] = entry[i]
      <3>1. \/ \E st \in Listed : EndRun(id, SetStatus(entry, id, st))
            \/ EndRun(id, mine)
        BY <1>2, <2>3 DEF RangeNotSatisfiable, Complete, FailDesktop, CleanedUp,
                          EndStalled, EndPaused, EndLocked, EndError, mine
      <3> QED BY <2>2, <2>4, <3>1
    <2> QED BY <2>1, <2>5, EndRunPools
  <1> QED BY <1>1, <1>2 DEF RunStep

\* Every step of the queue is one of the pool or none at all.
LEMMA StepPools == ItemInv /\ [Next]_vars => PoolStep
  <1> SUFFICES ASSUME ItemInv, [Next]_vars PROVE PoolStep
    OBVIOUS
  <1>0. TypeOK /\ QueueSound /\ entry \in Lists
    BY DEF ItemInv, TypeOK
  <1>1. ASSUME UNCHANGED <<run, queue, slots>> PROVE PoolStep
    BY <1>1 DEF PoolStep, Active
  <1>2. ASSUME NEW id \in Ids, StartDownload(id) PROVE PoolStep
    <2>1. id \notin Active /\ id \notin InQueue /\ slots' = slots
      BY <1>2 DEF StartDownload, Fresh, Active
    <2>2. CASE Cardinality(Active) < slots
      <3>1. queue' = queue /\ run' = [run EXCEPT ![id] = FirstStep]
        BY <1>2, <2>2 DEF StartDownload
      <3>2. Active' = Active \cup {id}
        BY <1>0, <3>1, FirstStepRuns DEF Active, TypeOK
      <3> QED BY <1>0, <2>1, <2>2, <3>1, <3>2, AskOne DEF PoolStep, Pool!Next
    <2>3. CASE ~(Cardinality(Active) < slots)
      <3>1. queue' = Append(queue, id) /\ run' = run
        BY <1>2, <2>3 DEF StartDownload
      <3>2. Active' = Active
        BY <3>1 DEF Active
      <3> QED BY <1>0, <2>1, <2>3, <3>1, <3>2, AskOne DEF PoolStep, Pool!Next
    <2> QED BY <2>2, <2>3
  <1>3. ASSUME NEW id \in Ids, UserResume(id) \/ RetryFires(id) PROVE PoolStep
    <2>1. Resume(id) /\ slots' = slots
      BY <1>3 DEF UserResume, RetryFires, ui
    <2> QED BY <1>0, <2>1, ResumePools
  <1>4. ASSUME NEW id \in Ids, PauseQueued(id) \/ RemoveDownload(id) PROVE PoolStep
    <2>1. DropFromQueue(id) /\ Active' = Active /\ slots' = slots
      BY <1>4 DEF PauseQueued, RemoveDownload, Active, ui
    <2>2. queue' = queue \/ Pool!GiveUp
      BY <2>1 DEF DropFromQueue, Pool!GiveUp
    <2> QED BY <2>1, <2>2 DEF PoolStep, Pool!Next
  <1>5. ASSUME NEW id \in Ids, RemoveFinish(id) PROVE PoolStep
    <2>1. CASE TryRunNext(entry, {})
      <3>1. slots' = slots
        BY <1>5 DEF RemoveFinish
      <3>2. \A i \in InQueue \ (undone \cup hasty) : entry[i].status = "queued"
        <4> SUFFICES ASSUME NEW i \in InQueue \ (undone \cup hasty)
                     PROVE  entry[i].status = "queued"
          OBVIOUS
        <4>1. i \in Ids
          BY <1>0, ElementOfSeq DEF InQueue, TypeOK
        <4> QED BY <4>1 DEF ItemInv, ItemSound, Fits
      <3>3. Pool!Serve
        BY <1>0, <2>1, <3>1, <3>2, DrainServes
      <3> QED BY <3>3 DEF PoolStep, Pool!Next
    <2>2. CASE UNCHANGED <<entry, queue, run, reason>>
      BY <1>1, <1>5, <2>2 DEF RemoveFinish
    <2> QED BY <1>5, <2>1, <2>2 DEF RemoveFinish
  <1>6. ASSUME NEW id \in Ids, RunStep(id) PROVE PoolStep
    BY <1>6, RunStepPools
  <1>7. ASSUME NEW n \in 1..MaxSlots, SetSlots(n) PROVE PoolStep
    <2>1. Active' = Active /\ queue' = queue /\ slots' \in 1..MaxSlots
      BY <1>7 DEF SetSlots, Active
    <2> QED BY <2>1 DEF PoolStep, Pool!Next, Pool!SetLimit
  <1>8. CASE Reload
    <2>1. Active' = {} /\ queue' = <<>> /\ slots' = slots
      BY <1>8 DEF Reload, Active
    <2> QED BY <2>1 DEF PoolStep, Pool!Next, Pool!Close
  <1>9. CASE BootResume
    BY <1>0, <1>9, BootAsks DEF PoolStep, Pool!Next
  <1>10. CASE \/ \E id \in Ids : PauseActive(id) \/ Stall(id) \/ PruneCheck(id)
              \/ PruneBegin \/ PruneCommit \/ ScanBegin \/ ScanCommit
    <2>1. UNCHANGED <<run, queue, slots>>
      BY <1>10 DEF PauseActive, Stall, PruneCheck, PruneBegin, PruneCommit,
                   ScanBegin, ScanCommit, ui
    <2> QED BY <1>1, <2>1
  <1>11. CASE UNCHANGED vars
    BY <1>1, <1>11 DEF vars, ui
  <1> QED BY <1>2, <1>3, <1>4, <1>5, <1>6, <1>7, <1>8, <1>9, <1>10, <1>11 DEF Next

\* The queue is a pool of slots: every behaviour of Downloads, with any ids, slots,
\* timers, page loads and jobs, is one of SlotPool.  No run starts beyond the slots,
\* none waits while a slot is free for it, and none is passed over in the queue but
\* for an old entry that a job wrote over its own or a scan that called it done.
THEOREM QueueIsAPool == Spec => ServedInTurn
  <1>1. Init => Pool!Init
    <2> SUFFICES ASSUME Init PROVE Pool!Init
      OBVIOUS
    <2>1. Active = {} /\ queue = <<>> /\ slots \in 1..MaxSlots
      BY DEF Init, Active
    <2> QED BY <2>1 DEF Pool!Init
  <1>2. ItemInv /\ [Next]_vars => [Pool!Next]_<<Active, queue, slots>>
    BY StepPools DEF PoolStep
  <1> QED BY <1>1, <1>2, ItemAlways, PTL DEF Spec, ServedInTurn, Pool!Spec

==============================================================================

----------------------- MODULE PhotoProcessingProofs -----------------------
(***************************************************************************)
(* Proofs about PhotoProcessing, for every number of task slots, requests, *)
(* focal points and retries.                                               *)
(***************************************************************************)
EXTENDS PhotoProcessing, TLAPS

-----------------------------------------------------------------------------
(* Type correctness.                                                        *)

LEMMA NewRowType == NewRow \in Row
  BY DEF NewRow, Row, Focal

LEMMA RowFacts ==
  /\ \A i \in Row : FocalFor(i) \in Focal /\ FocalFor(i) # NoPoint
  /\ \A i \in Row, p \in Focal, b \in BOOLEAN : [i EXCEPT !.focal = p, !.override = b] \in Row
  /\ \A i \in Row, b \in BOOLEAN : [i EXCEPT !.override = b] \in Row
  /\ \A i \in Row, s \in {"pending", "processing", "complete", "failed"} :
        [i EXCEPT !.status = s] \in Row
  BY PointAssumption DEF Row, Focal, FocalFor

LEMMA InitTypeOK == Init => TypeOK
  <1> SUFFICES ASSUME Init PROVE TypeOK
    OBVIOUS
  <1>1. pc \in [Job -> {"idle", "queued"} \cup Held] /\ lost \in BOOLEAN
    BY DEF Init
  <1>2. row \in Row /\ inst \in [Job -> Row] /\ held \in [Web -> Row]
    BY NewRowType DEF Init
  <1>3. files \in Focal /\ chosen \in Point \cup {NoPoint} /\ overlap \in BOOLEAN
    BY DEF Init, Focal
  <1>4. mode \in [Job -> {"task", "forced", "command"}]
        /\ web \in [Web -> {"idle", "focal", "form"}]
    BY DEF Init
  <1>5. /\ tries \in [Job -> 0..MaxRetries]
        /\ requests \in 0..MaxRequests /\ faults \in 0..MaxFaults
    BY BoundAssumption DEF Init
  <1>6. QED
    BY <1>1, <1>2, <1>3, <1>4, <1>5 DEF TypeOK

LEMMA RequestTypeOK ==
  ASSUME TypeOK,
         \/ \E w \in Web, kind \in {"focal", "form"} : LoadInstance(w, kind)
         \/ Reprocess
         \/ \E j \in Job : ListForCommand(j)
  PROVE  TypeOK'
  <1>1. ASSUME CountRequest PROVE requests' \in 0..MaxRequests
    BY <1>1, BoundAssumption DEF CountRequest, TypeOK
  <1>2. ASSUME NEW w \in Web, NEW kind \in {"focal", "form"}, LoadInstance(w, kind)
        PROVE  TypeOK'
    <2>1. overlap' \in BOOLEAN
      BY <1>2 DEF LoadInstance, NoteOverlap, OthersHold, Busy, TypeOK
    <2>2. web' \in [Web -> {"idle", "focal", "form"}] /\ held' \in [Web -> Row]
      BY <1>2 DEF LoadInstance, TypeOK
    <2>3. QED
      BY <1>1, <1>2, <2>1, <2>2 DEF LoadInstance, TypeOK, slotVars
  <1>3. CASE Reprocess
    <2>1. row' \in Row
      BY <1>3, RowFacts DEF Reprocess, TypeOK
    <2>2. /\ pc' \in [Job -> {"idle", "queued"} \cup Held]
          /\ mode' \in [Job -> {"task", "forced", "command"}]
          /\ tries' \in [Job -> 0..MaxRetries]
          /\ inst' \in [Job -> Row]
      BY <1>3, BoundAssumption DEF Reprocess, QueueForced, TypeOK, slotVars
    <2>3. lost' \in BOOLEAN
      BY <1>3 DEF Reprocess, TypeOK
    <2>4. faults' \in 0..MaxFaults
      BY <1>3, BoundAssumption DEF Reprocess, TypeOK
    <2>5. QED
      BY <1>1, <1>3, <2>1, <2>2, <2>3, <2>4 DEF Reprocess, TypeOK, webVars
  <1>4. ASSUME NEW j \in Job, ListForCommand(j)
        PROVE  TypeOK'
    <2>1. overlap' \in BOOLEAN
      BY <1>4 DEF ListForCommand, NoteOverlap, OthersHold, Busy, TypeOK
    <2>2. QED
      BY <1>1, <1>4, <2>1 DEF ListForCommand, TypeOK, webVars, Held
  <1>5. QED
    BY <1>2, <1>3, <1>4

LEMMA RespondTypeOK ==
  ASSUME TypeOK, NEW w \in Web, Respond(w)
  PROVE  TypeOK'
  <1>1. ASSUME Release(w)
        PROVE  web' \in [Web -> {"idle", "focal", "form"}] /\ held' \in [Web -> Row]
    BY <1>1, NewRowType DEF Release, TypeOK
  <1>2. ASSUME NEW p \in Point, SaveFocalPoint(w, p)
        PROVE  TypeOK'
    <2>1. row' \in Row
      BY <1>2, RowFacts DEF SaveFocalPoint, TypeOK, Focal
    <2>2. /\ pc' \in [Job -> {"idle", "queued"} \cup Held]
          /\ mode' \in [Job -> {"task", "forced", "command"}]
          /\ tries' \in [Job -> 0..MaxRetries]
          /\ inst' \in [Job -> Row]
      BY <1>2, BoundAssumption DEF SaveFocalPoint, QueueForced, TypeOK, slotVars
    <2>3. lost' \in BOOLEAN
      BY <1>2 DEF SaveFocalPoint, TypeOK
    <2>4. faults' \in 0..MaxFaults
      BY <1>2, BoundAssumption DEF SaveFocalPoint, TypeOK
    <2>5. QED
      BY <1>1, <1>2, <2>1, <2>2, <2>3, <2>4 DEF SaveFocalPoint, TypeOK
  <1>3. ASSUME NEW on \in BOOLEAN, SaveOverride(w, on)
        PROVE  TypeOK'
    <2>1. row' \in Row
      BY <1>3, RowFacts DEF SaveOverride, TypeOK
    <2>2. lost' \in BOOLEAN
      BY <1>3 DEF SaveOverride, TypeOK
    <2>3. QED
      BY <1>1, <1>3, <2>1, <2>2 DEF SaveOverride, TypeOK, slotVars
  <1>4. QED
    BY <1>2, <1>3 DEF Respond

LEMMA FinishTypeOK ==
  ASSUME TypeOK, NEW j \in Job, Finish(j)
  PROVE  /\ pc' \in [Job -> {"idle", "queued"} \cup Held]
         /\ mode' \in [Job -> {"task", "forced", "command"}]
         /\ tries' \in [Job -> 0..MaxRetries]
         /\ inst' \in [Job -> Row]
  BY NewRowType, BoundAssumption DEF Finish, TypeOK

LEMMA WorkTypeOK ==
  ASSUME TypeOK, NEW j \in Job, Work(j)
  PROVE  TypeOK'
  <1>1. CASE LoadOrSkip(j)
    <2>1. /\ pc' \in [Job -> {"idle", "queued"} \cup Held]
          /\ mode' \in [Job -> {"task", "forced", "command"}]
          /\ tries' \in [Job -> 0..MaxRetries]
          /\ inst' \in [Job -> Row]
      BY <1>1, FinishTypeOK DEF LoadOrSkip, TypeOK, Held
    <2>2. overlap' \in BOOLEAN
      BY <1>1 DEF LoadOrSkip, NoteOverlap, OthersHold, Busy, TypeOK
    <2>3. QED
      BY <1>1, <2>1, <2>2 DEF LoadOrSkip, TypeOK, webVars
  <1>2. CASE BeginProcessing(j)
    <2>1. row' \in Row /\ inst' \in [Job -> Row]
      BY <1>2 DEF BeginProcessing, TypeOK, Row
    <2>2. QED
      BY <1>2, <2>1 DEF BeginProcessing, TypeOK, webVars, Held
  <1>3. CASE ProcessImage(j)
    <2>1. inst[j] \in Row /\ FocalFor(inst[j]) \in Focal
      BY RowFacts DEF TypeOK
    <2>2. inst' \in [Job -> Row]
      BY <1>3, <2>1 DEF ProcessImage, TypeOK, Row
    <2>3. QED
      BY <1>3, <2>1, <2>2 DEF ProcessImage, TypeOK, webVars, Held
  <1>4. CASE Complete(j)
    <2>1. row' \in Row
      BY <1>4, RowFacts DEF Complete, TypeOK
    <2>2. QED
      BY <1>4, <2>1, FinishTypeOK DEF Complete, TypeOK, webVars
  <1>5. QED
    BY <1>1, <1>2, <1>3, <1>4 DEF Work

LEMMA FaultTypeOK ==
  ASSUME TypeOK, NEW j \in Job, Fail(j) \/ Crash(j)
  PROVE  TypeOK'
  <1>1. faults' \in 0..MaxFaults
    BY BoundAssumption DEF Fail, Crash, CountFault, TypeOK
  <1>2. ASSUME Requeue(j)
        PROVE  /\ pc' \in [Job -> {"idle", "queued"} \cup Held]
               /\ mode' \in [Job -> {"task", "forced", "command"}]
               /\ inst' \in [Job -> Row]
    BY <1>2, NewRowType DEF Requeue, TypeOK
  <1>3. CASE Fail(j)
    <2>1. row' \in Row
      BY <1>3, RowFacts DEF Fail, TypeOK
    <2>2. lost' \in BOOLEAN
      BY <1>3 DEF Fail, TypeOK
    <2>3. CASE MayRetry(j)
      <3>1. Requeue(j) /\ tries' = [tries EXCEPT ![j] = @ + 1]
        BY <1>3, <2>3 DEF Fail
      <3>2. tries' \in [Job -> 0..MaxRetries]
        BY <2>3, <3>1, BoundAssumption DEF MayRetry, TypeOK
      <3>3. QED
        BY <1>1, <1>2, <1>3, <2>1, <2>2, <3>1, <3>2 DEF Fail, TypeOK, webVars
    <2>4. CASE ~MayRetry(j)
      BY <1>1, <1>3, <2>1, <2>2, <2>4, FinishTypeOK DEF Fail, TypeOK, webVars
    <2>5. QED
      BY <2>3, <2>4
  <1>4. CASE Crash(j)
    <2>1. lost' \in BOOLEAN
      BY <1>4 DEF Crash, TypeOK
    <2>2. QED
      BY <1>1, <1>2, <1>4, <2>1, FinishTypeOK DEF Crash, TypeOK, webVars
  <1>5. QED
    BY <1>3, <1>4

LEMMA NextTypeOK == TypeOK /\ [Next]_vars => TypeOK'
  <1> SUFFICES ASSUME TypeOK, [Next]_vars PROVE TypeOK'
    OBVIOUS
  <1>1. CASE UNCHANGED vars
    BY <1>1 DEF vars, slotVars, webVars, TypeOK
  <1>2. CASE Next
    BY <1>2, RequestTypeOK, RespondTypeOK, WorkTypeOK, FaultTypeOK DEF Next
  <1>3. QED
    BY <1>1, <1>2

\* Every column, slot, request and counter has a value that TypeOK lists; a task
\* never retries more than max_retries times (tasks.py:16-22).
THEOREM PhotoTypeCorrect == Spec => []TypeOK
  BY InitTypeOK, NextTypeOK, PTL DEF Spec

-----------------------------------------------------------------------------
(* UnfinishedHasJob is inductive.  What matters of a step is whether it can *)
(* leave a photo pending or processing when it frees the last slot.         *)

LEMMA InitUnfinished == Init => UnfinishedHasJob
  BY DEF Init, UnfinishedHasJob

LEMMA NextUnfinished == TypeOK /\ UnfinishedHasJob /\ [Next]_vars => UnfinishedHasJob'
  <1> SUFFICES ASSUME TypeOK, UnfinishedHasJob, [Next]_vars PROVE UnfinishedHasJob'
    OBVIOUS
  <1> USE DEF UnfinishedHasJob
  <1>1. CASE UNCHANGED vars
    BY <1>1 DEF vars, slotVars
  <1>2. ASSUME NEW w \in Web, NEW kind \in {"focal", "form"}, LoadInstance(w, kind)
        PROVE  UnfinishedHasJob'
    BY <1>2 DEF LoadInstance, slotVars
  <1>3. CASE Reprocess
    BY <1>3 DEF Reprocess, QueueForced, TypeOK
  <1>4. ASSUME NEW w \in Web, NEW p \in Point, SaveFocalPoint(w, p)
        PROVE  UnfinishedHasJob'
    BY <1>4 DEF SaveFocalPoint, QueueForced, TypeOK
  <1>5. ASSUME NEW w \in Web, NEW on \in BOOLEAN, SaveOverride(w, on)
        PROVE  UnfinishedHasJob'
    <2>1. row'.status = held[w].status /\ UNCHANGED pc
          /\ lost' = (lost \/ held[w].status # row.status)
      BY <1>5 DEF SaveOverride, TypeOK, Row, slotVars
    <2>2. QED
      BY <2>1
  <1>6. ASSUME NEW j \in Job, ListForCommand(j)
        PROVE  UnfinishedHasJob'
    BY <1>6 DEF ListForCommand, TypeOK
  <1>7. ASSUME NEW j \in Job, LoadOrSkip(j)
        PROVE  UnfinishedHasJob'
    <2>1. CASE mode[j] = "task" /\ row.status = "complete"
      BY <1>7, <2>1 DEF LoadOrSkip
    <2>2. CASE ~(mode[j] = "task" /\ row.status = "complete")
      BY <1>7, <2>2 DEF LoadOrSkip, TypeOK
    <2>3. QED
      BY <2>1, <2>2
  <1>8. ASSUME NEW j \in Job, BeginProcessing(j) \/ ProcessImage(j)
        PROVE  UnfinishedHasJob'
    BY <1>8 DEF BeginProcessing, ProcessImage, TypeOK
  <1>9. ASSUME NEW j \in Job, Complete(j)
        PROVE  UnfinishedHasJob'
    BY <1>9 DEF Complete, TypeOK, Row
  <1>10. ASSUME NEW j \in Job, Fail(j)
         PROVE  UnfinishedHasJob'
    <2>1. CASE MayRetry(j)
      BY <1>10, <2>1 DEF Fail, Requeue, TypeOK
    <2>2. CASE ~MayRetry(j) /\ pc[j] = "loaded"
      BY <1>10, <2>2 DEF Fail
    <2>3. CASE pc[j] # "loaded"
      BY <1>10, <2>3 DEF Fail, TypeOK, Row
    <2>4. QED
      BY <2>1, <2>2, <2>3
  <1>11. ASSUME NEW j \in Job, Crash(j)
         PROVE  UnfinishedHasJob'
    BY <1>11 DEF Crash, Requeue, TypeOK
  <1>12. QED
    BY <1>1, <1>2, <1>3, <1>4, <1>5, <1>6, <1>7, <1>8, <1>9, <1>10, <1>11
    DEF Next, Respond, Work

\* However many tasks, commands and stale saves there are, a photo that is pending
\* or processing has someone to move it on, or a step named by "lost" happened
\* (tasks.py:16-52, models.py:199-209, admin.py:733-749).
THEOREM UnfinishedPhotoHasJob == Spec => []UnfinishedHasJob
  <1>1. Init => TypeOK /\ UnfinishedHasJob
    BY InitTypeOK, InitUnfinished
  <1>2. TypeOK /\ UnfinishedHasJob /\ [Next]_vars => (TypeOK /\ UnfinishedHasJob)'
    BY NextTypeOK, NextUnfinished
  <1>3. QED
    BY <1>1, <1>2, PTL DEF Spec

-----------------------------------------------------------------------------
(* CompleteHasFiles speaks of the row; to be inductive it must hold of every *)
(* instance that may yet be written over the row.                           *)

HasFiles(i) == i.variants /\ i.focal # NoPoint /\ files # NoPoint

InstancesHaveFiles ==
    /\ row.status = "complete" => HasFiles(row)
    /\ \A w \in Web : held[w].status = "complete" => HasFiles(held[w])
    /\ \A j \in Job : /\ inst[j].status = "complete" => HasFiles(inst[j])
                      /\ pc[j] = "processed" => HasFiles(inst[j])

LEMMA InitInstances == Init => InstancesHaveFiles
  BY DEF Init, InstancesHaveFiles, NewRow, Held

LEMMA NextInstances == TypeOK /\ InstancesHaveFiles /\ [Next]_vars => InstancesHaveFiles'
  <1> SUFFICES ASSUME TypeOK, InstancesHaveFiles, [Next]_vars PROVE InstancesHaveFiles'
    OBVIOUS
  <1> USE DEF InstancesHaveFiles, HasFiles
  <1>1. CASE UNCHANGED vars
    BY <1>1 DEF vars, slotVars, webVars
  <1>2. ASSUME NEW w \in Web, NEW kind \in {"focal", "form"}, LoadInstance(w, kind)
        PROVE  InstancesHaveFiles'
    BY <1>2 DEF LoadInstance, slotVars, TypeOK
  <1>3. CASE Reprocess
    BY <1>3 DEF Reprocess, QueueForced, webVars, slotVars, TypeOK, Row
  <1>4. ASSUME NEW w \in Web, NEW p \in Point, SaveFocalPoint(w, p)
        PROVE  InstancesHaveFiles'
    <2>1. /\ row' = [held[w] EXCEPT !.focal = p, !.override = TRUE]
          /\ held' = [held EXCEPT ![w] = NewRow]
          /\ UNCHANGED <<files, inst>>
          /\ \A j \in Job : pc'[j] = "processed" => pc[j] = "processed"
      BY <1>4 DEF SaveFocalPoint, Release, QueueForced, slotVars, TypeOK
    <2>2. row'.status = held[w].status /\ row'.variants = held[w].variants /\ row'.focal # NoPoint
      BY <2>1, PointAssumption DEF TypeOK, Row
    <2>3. QED
      BY <2>1, <2>2 DEF NewRow, TypeOK
  <1>5. ASSUME NEW w \in Web, NEW on \in BOOLEAN, SaveOverride(w, on)
        PROVE  InstancesHaveFiles'
    BY <1>5 DEF SaveOverride, Release, slotVars, TypeOK, Row, NewRow
  <1>6. ASSUME NEW j \in Job, ListForCommand(j)
        PROVE  InstancesHaveFiles'
    BY <1>6 DEF ListForCommand, webVars, TypeOK
  <1>7. ASSUME NEW j \in Job, LoadOrSkip(j)
        PROVE  InstancesHaveFiles'
    BY <1>7 DEF LoadOrSkip, Finish, webVars, TypeOK, NewRow
  <1>8. ASSUME NEW j \in Job, BeginProcessing(j)
        PROVE  InstancesHaveFiles'
    BY <1>8 DEF BeginProcessing, webVars, TypeOK, Row
  <1>9. ASSUME NEW j \in Job, ProcessImage(j)
        PROVE  InstancesHaveFiles'
    <2>1. inst[j] \in Row /\ FocalFor(inst[j]) # NoPoint
      BY RowFacts DEF TypeOK
    <2>2. /\ inst'[j].variants /\ inst'[j].focal = FocalFor(inst[j])
          /\ \A k \in Job : k # j => inst'[k] = inst[k] /\ pc'[k] = pc[k]
          /\ files' = FocalFor(inst[j])
      BY <1>9, <2>1 DEF ProcessImage, TypeOK, Row
    <2>3. QED
      BY <1>9, <2>1, <2>2 DEF ProcessImage, webVars
  <1>10. ASSUME NEW j \in Job, Complete(j)
         PROVE  InstancesHaveFiles'
    BY <1>10 DEF Complete, Finish, webVars, TypeOK, Row, NewRow
  <1>11. ASSUME NEW j \in Job, Fail(j)
         PROVE  InstancesHaveFiles'
    <2>1. UNCHANGED <<files, held>> /\ (row' = row \/ row' = [row EXCEPT !.status = "failed"])
      BY <1>11 DEF Fail, webVars
    <2>2. /\ inst' = [inst EXCEPT ![j] = NewRow]
          /\ \E s \in {"idle", "queued"} : pc' = [pc EXCEPT ![j] = s]
      BY <1>11 DEF Fail, Requeue, Finish
    <2>3. QED
      BY <2>1, <2>2 DEF TypeOK, Row, NewRow
  <1>12. ASSUME NEW j \in Job, Crash(j)
         PROVE  InstancesHaveFiles'
    BY <1>12 DEF Crash, Requeue, Finish, webVars, TypeOK, NewRow
  <1>13. QED
    BY <1>1, <1>2, <1>3, <1>4, <1>5, <1>6, <1>7, <1>8, <1>9, <1>10, <1>11, <1>12
    DEF Next, Respond, Work

\* Whatever instances are written over the row, and in whatever order, a row that
\* says "complete" names its files, which exist (models.py:199-205, views.py:219-225).
THEOREM CompletePhotoHasFiles == Spec => []CompleteHasFiles
  <1>1. Init => TypeOK /\ InstancesHaveFiles
    BY InitTypeOK, InitInstances
  <1>2. TypeOK /\ InstancesHaveFiles /\ [Next]_vars => (TypeOK /\ InstancesHaveFiles)'
    BY NextTypeOK, NextInstances
  <1>3. InstancesHaveFiles => CompleteHasFiles
    BY DEF InstancesHaveFiles, HasFiles, CompleteHasFiles
  <1>4. QED
    BY <1>1, <1>2, <1>3, PTL DEF Spec

-----------------------------------------------------------------------------
(* The chosen point.  While nothing overlaps, at most one instance of the    *)
(* row is about, so the one that will be written over the row is fresh.      *)

OneHolder ==
    /\ \A j, k \in Job : Busy(j) /\ Busy(k) => j = k
    /\ \A v, w \in Web : web[v] # "idle" /\ web[w] # "idle" => v = w
    /\ \A j \in Job, w \in Web : Busy(j) => web[w] = "idle"

\* A held instance has the row's focal point and override.
FreshInstance(w) ==
    web[w] # "idle" => held[w].focal = row.focal /\ held[w].override = row.override

\* So has a job's; once processed it has the point the row's choice leads to.
FreshJob(j) ==
    /\ pc[j] \in {"loaded", "processing"} =>
          inst[j].focal = row.focal /\ inst[j].override = row.override
    /\ pc[j] = "processed" =>
          /\ inst[j].override = row.override
          /\ inst[j].focal = FocalFor(row)
          /\ files = inst[j].focal
    /\ pc[j] \in {"processing", "processed"} => row.status # "complete"
    /\ pc[j] = "loaded" /\ mode[j] = "task" => row.status # "complete"

\* A job that will crop the thumbnail again, whatever the row's status says.
WillProcess(j) == (pc[j] = "queued" /\ mode[j] # "task") \/ pc[j] = "loaded"

Settled ==
    /\ OneHolder
    /\ \A w \in Web : FreshInstance(w)
    /\ \A j \in Job : FreshJob(j)
    /\ chosen # NoPoint => row.override /\ row.focal = chosen
    /\ row.status = "complete" => files = row.focal \/ \E j \in Job : WillProcess(j)

PointInv == ~overlap /\ ~lost => Settled

\* The row's columns after each way of writing it.
LEMMA RowColumns ==
  ASSUME NEW r \in Row
  PROVE  /\ \A p, b : /\ [r EXCEPT !.focal = p, !.override = b].focal = p
                      /\ [r EXCEPT !.focal = p, !.override = b].override = b
                      /\ [r EXCEPT !.focal = p, !.override = b].status = r.status
         /\ \A b : /\ [r EXCEPT !.override = b].focal = r.focal
                   /\ [r EXCEPT !.override = b].override = b
                   /\ [r EXCEPT !.override = b].status = r.status
         /\ \A s : /\ [r EXCEPT !.status = s].focal = r.focal
                   /\ [r EXCEPT !.status = s].override = r.override
                   /\ [r EXCEPT !.status = s].status = s
  BY DEF Row

LEMMA InitSettled == Init => PointInv
  <1> SUFFICES ASSUME Init PROVE Settled
    BY DEF PointInv
  <1>1. /\ \A j \in Job : pc[j] \in {"idle", "queued"}
        /\ \A w \in Web : web[w] = "idle"
        /\ row.status = "pending" /\ chosen = NoPoint
    BY DEF Init, NewRow
  <1>2. QED
    BY <1>1 DEF Settled, OneHolder, FreshInstance, FreshJob, Busy, Held

\* Taking an instance, by a request or by a job.
LEMMA TakeSettled ==
  ASSUME TypeOK, Settled, ~overlap', ~lost',
         \/ \E w \in Web, kind \in {"focal", "form"} : LoadInstance(w, kind)
         \/ \E j \in Job : ListForCommand(j) \/ LoadOrSkip(j)
  PROVE  Settled'
  <1> USE DEF Busy, Held
  <1>1. ASSUME NEW w \in Web, NEW kind \in {"focal", "form"}, LoadInstance(w, kind)
        PROVE  Settled'
    <2>1. ~OthersHold
      BY <1>1 DEF LoadInstance, NoteOverlap
    <2>2. /\ UNCHANGED <<row, files, pc, mode, inst, chosen>>
          /\ held'[w] = row
          /\ \A v \in Web : v # w => web'[v] = "idle" /\ held'[v] = held[v]
      BY <1>1, <2>1 DEF LoadInstance, OthersHold, slotVars, TypeOK
    <2>3. OneHolder'
      BY <2>1, <2>2 DEF OneHolder, OthersHold
    <2>4. QED
      BY <2>2, <2>3 DEF Settled, FreshInstance, FreshJob, WillProcess, FocalFor
  <1>2. ASSUME NEW j \in Job, ListForCommand(j)
        PROVE  Settled'
    <2>1. ~OthersHold
      BY <1>2 DEF ListForCommand, NoteOverlap
    <2>2. /\ UNCHANGED <<row, files, web, held, chosen>>
          /\ pc[j] = "idle" /\ pc'[j] = "loaded" /\ inst'[j] = row /\ mode'[j] = "command"
          /\ \A k \in Job : k # j => pc'[k] = pc[k] /\ inst'[k] = inst[k] /\ mode'[k] = mode[k]
      BY <1>2 DEF ListForCommand, webVars, TypeOK
    <2>3. OneHolder'
      BY <2>1, <2>2 DEF OneHolder, OthersHold
    <2>4. QED
      BY <2>2, <2>3 DEF Settled, FreshInstance, FreshJob, WillProcess, FocalFor
  <1>3. ASSUME NEW j \in Job, LoadOrSkip(j), mode[j] = "task" /\ row.status = "complete"
        PROVE  Settled'
    <2>1. /\ UNCHANGED <<row, files, web, held, chosen>>
          /\ pc[j] = "queued" /\ pc'[j] = "idle"
          /\ \A k \in Job : k # j => pc'[k] = pc[k] /\ inst'[k] = inst[k] /\ mode'[k] = mode[k]
      BY <1>3 DEF LoadOrSkip, Finish, webVars, TypeOK
    <2>2. QED
      BY <1>3, <2>1 DEF Settled, OneHolder, FreshInstance, FreshJob, WillProcess, FocalFor
  <1>4. ASSUME NEW j \in Job, LoadOrSkip(j), ~(mode[j] = "task" /\ row.status = "complete")
        PROVE  Settled'
    <2>1. ~OthersHold
      BY <1>4 DEF LoadOrSkip, NoteOverlap
    <2>2. /\ UNCHANGED <<row, files, web, held, chosen, mode>>
          /\ pc[j] = "queued" /\ pc'[j] = "loaded" /\ inst'[j] = row
          /\ \A k \in Job : k # j => pc'[k] = pc[k] /\ inst'[k] = inst[k]
      BY <1>4 DEF LoadOrSkip, webVars, TypeOK
    <2>3. OneHolder'
      BY <2>1, <2>2 DEF OneHolder, OthersHold
    <2>4. QED
      BY <1>4, <2>2, <2>3 DEF Settled, FreshInstance, FreshJob, WillProcess, FocalFor
  <1>5. QED
    BY <1>1, <1>2, <1>3, <1>4

\* Writing the row: an editor's save, an admin action, the end of a processing.
LEMMA WriteSettled ==
  ASSUME TypeOK, Settled, ~lost',
         \/ Reprocess
         \/ \E w \in Web : Respond(w)
         \/ \E j \in Job : BeginProcessing(j) \/ ProcessImage(j) \/ Complete(j)
  PROVE  Settled'
  <1> USE DEF Busy, Held
  <1>1. CASE Reprocess
    <2>1. PICK j \in Job : QueueForced(j)
      BY <1>1 DEF Reprocess
    <2>2. /\ UNCHANGED <<files, web, held, chosen>>
          /\ row' = [row EXCEPT !.status = "pending"]
          /\ pc[j] = "idle" /\ pc'[j] = "queued"
          /\ \A k \in Job : k # j => pc'[k] = pc[k] /\ inst'[k] = inst[k] /\ mode'[k] = mode[k]
      BY <1>1, <2>1 DEF Reprocess, QueueForced, webVars, TypeOK
    <2>3. row'.focal = row.focal /\ row'.override = row.override /\ row'.status = "pending"
      BY <2>2, RowColumns DEF TypeOK
    <2>4. QED
      BY <2>2, <2>3 DEF Settled, OneHolder, FreshInstance, FreshJob, WillProcess, FocalFor
  <1>2. ASSUME NEW w \in Web, NEW p \in Point, SaveFocalPoint(w, p)
        PROVE  Settled'
    <2>1. PICK j \in Job : QueueForced(j)
      BY <1>2 DEF SaveFocalPoint
    <2>2. /\ row' = [held[w] EXCEPT !.focal = p, !.override = TRUE]
          /\ chosen' = p /\ files' = files
          /\ web[w] # "idle" /\ web'[w] = "idle"
          /\ \A v \in Web : v # w => web'[v] = web[v] /\ held'[v] = held[v]
      BY <1>2 DEF SaveFocalPoint, Release, TypeOK
    <2>3. /\ pc'[j] = "queued" /\ mode'[j] = "forced"
          /\ \A k \in Job : k # j => pc'[k] = pc[k] /\ inst'[k] = inst[k] /\ mode'[k] = mode[k]
      BY <2>1 DEF QueueForced, TypeOK
    <2>4. row'.focal = p /\ row'.override = TRUE
      BY <2>2, RowColumns DEF TypeOK
    <2>5. /\ \A v \in Web : web'[v] = "idle"
          /\ \A k \in Job : pc'[k] \notin Held
      BY <2>2, <2>3 DEF Settled, OneHolder
    <2>6. WillProcess(j)'
      BY <2>3 DEF WillProcess
    <2>7. OneHolder' /\ (\A v \in Web : FreshInstance(v)') /\ (\A k \in Job : FreshJob(k)')
      BY <2>5 DEF OneHolder, FreshInstance, FreshJob
    <2>8. QED
      BY <2>2, <2>4, <2>6, <2>7 DEF Settled
  <1>3. ASSUME NEW w \in Web, NEW on \in BOOLEAN, SaveOverride(w, on)
        PROVE  Settled'
    <2>1. /\ row' = [held[w] EXCEPT !.override = on]
          /\ chosen' = (IF on THEN chosen ELSE NoPoint)
          /\ UNCHANGED <<files, pc, mode, inst>>
          /\ held[w].status = row.status
          /\ web[w] # "idle" /\ web'[w] = "idle"
          /\ \A v \in Web : v # w => web'[v] = web[v] /\ held'[v] = held[v]
      BY <1>3 DEF SaveOverride, Release, slotVars, TypeOK
    <2>2. /\ row'.focal = held[w].focal /\ row'.override = on
          /\ row'.status = held[w].status
      BY <2>1, RowColumns DEF TypeOK
    <2>3. held[w].focal = row.focal
      BY <2>1 DEF Settled, FreshInstance
    <2>4. /\ \A v \in Web : web'[v] = "idle"
          /\ \A k \in Job : pc'[k] \notin Held
      BY <2>1 DEF Settled, OneHolder
    <2>5. OneHolder' /\ (\A v \in Web : FreshInstance(v)') /\ (\A k \in Job : FreshJob(k)')
      BY <2>4 DEF OneHolder, FreshInstance, FreshJob
    <2>6. QED
      BY <2>1, <2>2, <2>3, <2>5 DEF Settled, WillProcess
  <1>4. ASSUME NEW j \in Job, BeginProcessing(j)
        PROVE  Settled'
    <2>1. /\ row' = [row EXCEPT !.status = "processing"]
          /\ UNCHANGED <<files, mode, web, held, chosen>>
          /\ pc[j] = "loaded" /\ pc'[j] = "processing"
          /\ inst'[j] = [inst[j] EXCEPT !.status = "processing"]
          /\ \A k \in Job : k # j => pc'[k] = pc[k] /\ inst'[k] = inst[k]
      BY <1>4 DEF BeginProcessing, webVars, TypeOK
    <2>2. /\ row'.focal = row.focal /\ row'.override = row.override
          /\ row'.status = "processing"
          /\ inst'[j].focal = inst[j].focal /\ inst'[j].override = inst[j].override
      BY <2>1, RowColumns DEF TypeOK
    <2>3. \A k \in Job : k # j => pc[k] \notin Held
      BY <2>1 DEF Settled, OneHolder
    <2>4. inst[j].focal = row.focal /\ inst[j].override = row.override
      BY <2>1 DEF Settled, FreshJob
    <2>5. \A k \in Job : FreshJob(k)'
      BY <2>1, <2>2, <2>3, <2>4 DEF FreshJob
    <2>6. QED
      BY <2>1, <2>2, <2>5 DEF Settled, OneHolder, FreshInstance
  <1>5. ASSUME NEW j \in Job, ProcessImage(j)
        PROVE  Settled'
    <2>1. /\ UNCHANGED <<row, mode, web, held, chosen>>
          /\ pc[j] = "processing" /\ pc'[j] = "processed"
          /\ files' = FocalFor(inst[j])
          /\ inst'[j].focal = FocalFor(inst[j]) /\ inst'[j].override = inst[j].override
          /\ \A k \in Job : k # j => pc'[k] = pc[k] /\ inst'[k] = inst[k]
      <3>1. inst[j] \in Row
        BY DEF TypeOK
      <3>2. QED
        BY <1>5, <3>1 DEF ProcessImage, webVars, TypeOK, Row
    <2>2. FocalFor(inst[j]) = FocalFor(row) /\ row.status # "complete"
      BY <2>1 DEF Settled, FreshJob, FocalFor
    <2>3. \A k \in Job : k # j => pc[k] \notin Held
      BY <2>1 DEF Settled, OneHolder
    <2>4. \A k \in Job : FreshJob(k)'
      BY <2>1, <2>2, <2>3 DEF Settled, FreshJob, FocalFor
    <2>5. QED
      BY <2>1, <2>2, <2>4 DEF Settled, OneHolder, FreshInstance
  <1>6. ASSUME NEW j \in Job, Complete(j)
        PROVE  Settled'
    <2>1. /\ row' = [inst[j] EXCEPT !.status = "complete"]
          /\ UNCHANGED <<files, web, held, chosen>>
          /\ pc[j] = "processed" /\ pc'[j] = "idle"
          /\ \A k \in Job : k # j => pc'[k] = pc[k] /\ inst'[k] = inst[k] /\ mode'[k] = mode[k]
      BY <1>6 DEF Complete, Finish, webVars, TypeOK
    <2>2. row'.focal = inst[j].focal /\ row'.override = inst[j].override
      BY <2>1, RowColumns DEF TypeOK
    <2>3. inst[j].override = row.override /\ inst[j].focal = FocalFor(row) /\ files = inst[j].focal
      BY <2>1 DEF Settled, FreshJob
    <2>4. /\ \A v \in Web : web'[v] = "idle"
          /\ \A k \in Job : pc'[k] \notin Held
      BY <2>1 DEF Settled, OneHolder
    <2>5. OneHolder' /\ (\A v \in Web : FreshInstance(v)') /\ (\A k \in Job : FreshJob(k)')
      BY <2>4 DEF OneHolder, FreshInstance, FreshJob
    <2>6. chosen # NoPoint => row'.override /\ row'.focal = chosen
      BY <2>2, <2>3 DEF Settled, FocalFor
    <2>7. QED
      BY <2>1, <2>2, <2>3, <2>5, <2>6 DEF Settled
  <1>7. QED
    BY <1>1, <1>2, <1>3, <1>4, <1>5, <1>6 DEF Respond

\* Giving an instance up: an exception or a dead worker.
LEMMA FaultSettled ==
  ASSUME TypeOK, Settled, ~lost', NEW j \in Job, Fail(j) \/ Crash(j)
  PROVE  Settled'
  <1> USE DEF Busy, Held
  <1>1. /\ pc[j] \in Held /\ pc'[j] \in {"idle", "queued"}
        /\ UNCHANGED <<files, web, held, chosen>>
        /\ \A k \in Job : k # j => pc'[k] = pc[k] /\ inst'[k] = inst[k] /\ mode'[k] = mode[k]
    BY DEF Fail, Crash, Requeue, Finish, webVars, TypeOK
  <1>2. \/ row' = row
        \/ row' = [row EXCEPT !.status = "failed"]
    BY DEF Fail, Crash
  <1>3. /\ row'.focal = row.focal /\ row'.override = row.override
        /\ row'.status \in {row.status, "failed"}
    <2>1. row \in Row
      BY DEF TypeOK
    <2>2. QED
      BY <1>2, <2>1 DEF Row
  <1>4. pc[j] = "loaded" => pc'[j] = "queued" /\ mode'[j] = mode[j]
    BY DEF Fail, Crash, Requeue, Finish, MayRetry, TypeOK
  <1>5. /\ \A v \in Web : web'[v] = "idle"
        /\ \A k \in Job : pc'[k] \notin Held
    BY <1>1 DEF Settled, OneHolder
  <1>6. OneHolder' /\ (\A v \in Web : FreshInstance(v)') /\ (\A k \in Job : FreshJob(k)')
    BY <1>5 DEF OneHolder, FreshInstance, FreshJob
  <1>7. ASSUME row'.status = "complete", files # row.focal
        PROVE  \E k \in Job : WillProcess(k)'
    <2>1. row.status = "complete"
      BY <1>3, <1>7
    <2>2. PICK k \in Job : WillProcess(k)
      BY <1>7, <2>1 DEF Settled
    <2>3. WillProcess(k)'
      BY <1>1, <1>4, <2>1, <2>2 DEF Settled, FreshJob, WillProcess
    <2>4. QED
      BY <2>3
  <1>8. QED
    BY <1>1, <1>3, <1>6, <1>7 DEF Settled

\* What came between stays noted.
LEMMA NotedForGood == TypeOK /\ [Next]_vars => (overlap => overlap') /\ (lost => lost')
  <1> SUFFICES ASSUME TypeOK, [Next]_vars PROVE (overlap => overlap') /\ (lost => lost')
    OBVIOUS
  <1> lost \in BOOLEAN /\ overlap \in BOOLEAN
    BY DEF TypeOK
  <1>1. CASE UNCHANGED vars
    BY <1>1 DEF vars
  <1>2. ASSUME NEW w \in Web, NEW kind \in {"focal", "form"}, LoadInstance(w, kind)
        PROVE  (overlap => overlap') /\ (lost => lost')
    BY <1>2 DEF LoadInstance, NoteOverlap
  <1>3. CASE Reprocess
    BY <1>3 DEF Reprocess
  <1>4. ASSUME NEW w \in Web, Respond(w)
        PROVE  (overlap => overlap') /\ (lost => lost')
    BY <1>4 DEF Respond, SaveFocalPoint, SaveOverride
  <1>5. ASSUME NEW j \in Job, ListForCommand(j) \/ Work(j)
        PROVE  (overlap => overlap') /\ (lost => lost')
    BY <1>5 DEF ListForCommand, Work, LoadOrSkip, BeginProcessing, ProcessImage, Complete, NoteOverlap
  <1>6. ASSUME NEW j \in Job, Fail(j) \/ Crash(j)
        PROVE  (overlap => overlap') /\ (lost => lost')
    BY <1>6 DEF Fail, Crash
  <1>7. QED
    BY <1>1, <1>2, <1>3, <1>4, <1>5, <1>6 DEF Next

LEMMA NextPointInv == TypeOK /\ PointInv /\ [Next]_vars => PointInv'
  <1> SUFFICES ASSUME TypeOK, PointInv, [Next]_vars, ~overlap', ~lost' PROVE Settled'
    BY DEF PointInv
  <1>1. Settled
    BY NotedForGood DEF PointInv
  <1>2. CASE UNCHANGED vars
    BY <1>1, <1>2 DEF vars, slotVars, webVars, Settled, OneHolder, FreshInstance, FreshJob,
                      WillProcess, Busy, FocalFor
  <1>3. CASE Next
    BY <1>1, <1>3, TakeSettled, WriteSettled, FaultSettled DEF Next, Work
  <1>4. QED
    BY <1>2, <1>3

\* When nothing overlapped and no step was lost, a complete photo that nobody works
\* on is cropped at the point its row names, which is the editor's choice if there is
\* one (admin.py:814-822, tasks.py:42, models.py:292-312).
THEOREM EditorsPointIsUsed == Spec => []ChosenPointIsUsed
  <1>1. PointInv => ChosenPointIsUsed
    BY DEF PointInv, Settled, ChosenPointIsUsed, Quiet, WillProcess
  <1>2. QED
    BY <1>1, InitTypeOK, NextTypeOK, InitSettled, NextPointInv, PTL DEF Spec

=============================================================================

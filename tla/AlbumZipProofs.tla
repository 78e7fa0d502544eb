--------------------------- MODULE AlbumZipProofs ---------------------------
(***************************************************************************)
(* Proofs about AlbumZip, for every set of photos and of task slots, every *)
(* debounce interval and every bound.                                      *)
(***************************************************************************)
EXTENDS AlbumZip, TLAPS

-----------------------------------------------------------------------------
(* Type correctness.                                                        *)

LEMMA ConstantFacts ==
  /\ NoKey \in Nat /\ NoKey \in 0..NoKey /\ 0 \in 0..NoKey
  /\ 0 \in 0..Delay /\ Delay \in 0..Delay
  /\ 0 \in 0..MaxEdits /\ 0 \in 0..MaxFaults
  /\ NewRow \in Row
  BY DebounceAssumption, BoundAssumption DEF NoKey, NewRow, Row

LEMMA InitTypeOK == Init => TypeOK
  <1> SUFFICES ASSUME Init PROVE TypeOK
    OBVIOUS
  <1>1. row \in Row
    <2>1. CASE row = NewRow
      BY <2>1, ConstantFacts
    <2>2. CASE row = [allow |-> TRUE, status |-> "ready", zip |-> TRUE, hash |-> photos]
      BY <2>2 DEF Init, Row
    <2>3. QED
      BY <2>1, <2>2 DEF Init
  <1>2. object \in {NoZip} \cup SUBSET Photo
    BY DEF Init
  <1>3. TaskTypeOK
    BY ConstantFacts DEF Init, TaskTypeOK, Step
  <1>4. QED
    BY <1>1, <1>2, <1>3, ConstantFacts DEF Init, TypeOK

\* The three ways in which actions change the task slots keep them typed.
LEMMA AnnounceTypeOK ==
  ASSUME TaskTypeOK, NEW js, Announce(js)
  PROVE  TaskTypeOK' /\ dropped' \in BOOLEAN
  BY DEF TaskTypeOK, Announce, Step

LEMMA FinishTypeOK ==
  ASSUME TaskTypeOK, NEW j \in Job, Finish(j)
  PROVE  TaskTypeOK'
  BY ConstantFacts DEF TaskTypeOK, Finish, Step

LEMMA SameTasksTypeOK ==
  ASSUME TaskTypeOK, UNCHANGED taskVars
  PROVE  TaskTypeOK'
  BY DEF TaskTypeOK, taskVars

LEMMA OneRowAwayType ==
  ASSUME TypeOK, NEW S \in OneRowAway
  PROVE  S \in SUBSET Photo
  BY DEF TypeOK, OneRowAway

LEMMA CountEditType ==
  ASSUME TypeOK, CountEdit
  PROVE  edits' \in 0..MaxEdits
  BY BoundAssumption DEF TypeOK, CountEdit

LEMMA RequestTypeOK ==
  ASSUME TypeOK, Request
  PROVE  TypeOK'
  <1>1. ASSUME NEW S \in OneRowAway, EditAlbumPhoto(S)
        PROVE  TypeOK'
    <2>1. S \in SUBSET Photo /\ edits' \in 0..MaxEdits
      BY <1>1, OneRowAwayType, CountEditType DEF EditAlbumPhoto
    <2>2. row' \in Row
      BY <1>1 DEF EditAlbumPhoto, TypeOK, Row
    <2>3. TaskTypeOK' /\ dropped' \in BOOLEAN
      BY <1>1, AnnounceTypeOK, SameTasksTypeOK DEF EditAlbumPhoto, TypeOK
    <2>4. QED
      BY <1>1, <2>1, <2>2, <2>3 DEF EditAlbumPhoto, TypeOK
  <1>2. ASSUME NEW S \in OneRowAway, LoseAnnouncement(S)
        PROVE  TypeOK'
    <2>1. S \in SUBSET Photo /\ edits' \in 0..MaxEdits
      BY <1>2, OneRowAwayType, CountEditType DEF LoseAnnouncement
    <2>2. row' \in Row
      BY <1>2 DEF LoseAnnouncement, TypeOK, Row
    <2>3. faults' \in 0..MaxFaults
      BY <1>2, BoundAssumption DEF LoseAnnouncement, TypeOK
    <2>4. QED
      BY <1>2, <2>1, <2>2, <2>3, SameTasksTypeOK
      DEF LoseAnnouncement, Drop, TypeOK
  <1>3. ASSUME NEW p \in Photo, UploadToAlbum(p)
        PROVE  TypeOK'
    <2>1. TaskTypeOK' /\ dropped' \in BOOLEAN
      BY <1>3, SameTasksTypeOK DEF UploadToAlbum, Drop, TypeOK
    <2>2. QED
      BY <1>3, <2>1, CountEditType DEF UploadToAlbum, TypeOK
  <1>4. CASE EnableDownloads
    <2>1. row' \in Row
      BY <1>4 DEF EnableDownloads, TypeOK, Row
    <2>2. TaskTypeOK' /\ dropped' \in BOOLEAN
      BY <1>4, AnnounceTypeOK, SameTasksTypeOK DEF EnableDownloads, TypeOK
    <2>3. QED
      BY <1>4, <2>1, <2>2, CountEditType DEF EnableDownloads, TypeOK
  <1>5. CASE DisableDownloads
    <2>1. row' \in Row /\ removing' \in BOOLEAN
      BY <1>5 DEF DisableDownloads, TypeOK, Row
    <2>2. QED
      BY <1>5, <2>1, SameTasksTypeOK, CountEditType DEF DisableDownloads, TypeOK
  <1>6. CASE AdminLoad
    BY <1>6, SameTasksTypeOK, CountEditType DEF AdminLoad, TypeOK, rowVars
  <1>7. CASE Regenerate
    <2>1. TaskTypeOK'
      BY <1>7, ConstantFacts DEF Regenerate, FreeSlots, TypeOK, TaskTypeOK, Step
    <2>2. QED
      BY <1>7, <2>1, CountEditType DEF Regenerate, TypeOK, rowVars
  <1>8. QED
    BY <1>1, <1>2, <1>3, <1>4, <1>5, <1>6, <1>7 DEF Request

LEMMA RespondTypeOK ==
  ASSUME TypeOK, Respond
  PROVE  TypeOK'
  <1>1. CASE ClearZipFields
    <2>1. row' \in Row
      BY <1>1 DEF ClearZipFields, TypeOK, Row
    <2>2. QED
      BY <1>1, <2>1, SameTasksTypeOK DEF ClearZipFields, TypeOK
  <1>2. ASSUME NEW allow \in BOOLEAN, NEW S \in SUBSET Photo, AdminSave(allow, S)
        PROVE  TypeOK'
    <2>1. form \in Row
      BY <1>2 DEF AdminSave, TypeOK
    <2>2. row' \in Row
      BY <1>2, <2>1 DEF AdminSave, Row
    <2>3. TaskTypeOK' /\ dropped' \in BOOLEAN
      BY <1>2, AnnounceTypeOK, SameTasksTypeOK DEF AdminSave, TypeOK
    <2>4. QED
      BY <1>2, <2>2, <2>3 DEF AdminSave, TypeOK
  <1>3. QED
    BY <1>1, <1>2 DEF Respond

LEMMA WorkTypeOK ==
  ASSUME TypeOK, NEW j \in Job, Work(j)
  PROVE  TypeOK'
  <1> USE DEF TypeOK, rowVars, webVars
  <1>1. CASE ScheduleZip(j)
    <2>1. TaskTypeOK'
      BY <1>1, ConstantFacts DEF ScheduleZip, Advance, TaskTypeOK, Step
    <2>2. QED
      BY <1>1, <2>1, ConstantFacts DEF ScheduleZip
  <1>2. CASE LoadAlbum(j)
    <2>1. TaskTypeOK'
      BY <1>2 DEF LoadAlbum, Advance, TaskTypeOK, Step
    <2>2. QED
      BY <1>2, <2>1 DEF LoadAlbum
  <1>3. CASE SkipDebounced(j)
    BY <1>3, FinishTypeOK DEF SkipDebounced
  <1>4. CASE SkipUnneeded(j)
    BY <1>4, FinishTypeOK DEF SkipUnneeded
  <1>5. CASE StartGenerating(j)
    <2>1. TaskTypeOK'
      BY <1>5 DEF StartGenerating, Advance, TaskTypeOK, Step
    <2>2. row' \in Row
      BY <1>5 DEF StartGenerating, Row
    <2>3. QED
      BY <1>5, <2>1, <2>2 DEF StartGenerating
  <1>6. CASE FindNoPhotos(j)
    <2>1. row' \in Row
      BY <1>6 DEF FindNoPhotos, Row
    <2>2. QED
      BY <1>6, <2>1, FinishTypeOK DEF FindNoPhotos
  <1>7. CASE PackPhotos(j)
    <2>1. TaskTypeOK'
      BY <1>7 DEF PackPhotos, Advance, TaskTypeOK, Step
    <2>2. QED
      BY <1>7, <2>1 DEF PackPhotos
  <1>8. CASE DeleteOldZip(j)
    <2>1. TaskTypeOK'
      BY <1>8 DEF DeleteOldZip, Advance, TaskTypeOK, Step
    <2>2. QED
      BY <1>8, <2>1 DEF DeleteOldZip
  <1>9. CASE UploadZip(j)
    <2>1. seen' \in [Job -> Row]
      BY <1>9 DEF UploadZip, TaskTypeOK, ContentHash, Row
    <2>2. TaskTypeOK'
      BY <1>9, <2>1 DEF UploadZip, Advance, TaskTypeOK, Step
    <2>3. object' \in SUBSET Photo
      BY <1>9 DEF UploadZip, TaskTypeOK
    <2>4. QED
      BY <1>9, <2>2, <2>3 DEF UploadZip
  <1>10. CASE SaveZip(j)
    <2>1. TaskTypeOK'
      BY <1>10 DEF SaveZip, Advance, TaskTypeOK, Step
    <2>2. row' \in Row
      BY <1>10 DEF SaveZip, TaskTypeOK, Row
    <2>3. QED
      BY <1>10, <2>1, <2>2 DEF SaveZip
  <1>11. CASE DeleteKey(j)
    BY <1>11, FinishTypeOK, ConstantFacts DEF DeleteKey
  <1>12. QED
    BY <1>1, <1>2, <1>3, <1>4, <1>5, <1>6, <1>7, <1>8, <1>9, <1>10, <1>11 DEF Work

LEMMA FaultTypeOK ==
  ASSUME TypeOK, NEW j \in Job, Fail(j) \/ Crash(j)
  PROVE  TypeOK'
  <1>1. faults' \in 0..MaxFaults
    BY BoundAssumption DEF Fail, Crash, CountFault, TypeOK
  <1>2. keyAge' \in 0..NoKey
    BY ConstantFacts DEF Fail, Crash, TypeOK
  <1>3. CASE Fail(j)
    <2>1. row' \in Row
      BY <1>3 DEF Fail, TypeOK, Row
    <2>2. TaskTypeOK' /\ dropped' \in BOOLEAN
      <3>1. CASE tries[j] < Retries(j)
        <4>1. ~(tries[j] >= Retries(j))
          BY <3>1, RetryAssumption DEF TypeOK, TaskTypeOK, Retries
        <4>2. /\ pc' = [pc EXCEPT ![j] = IF @ = "schedule" THEN @ ELSE "waiting"]
              /\ tries' = [tries EXCEPT ![j] = @ + 1]
              /\ seen' = [seen EXCEPT ![j] = NewRow]
              /\ packed' = [packed EXCEPT ![j] = {}]
              /\ UNCHANGED <<eta, force, dropped>>
          BY <1>3, <4>1 DEF Fail
        <4>3. QED
          BY <4>2, ConstantFacts DEF TypeOK, TaskTypeOK, Step
      <3>2. CASE tries[j] >= Retries(j)
        <4>1. ~(tries[j] < Retries(j))
          BY <3>2, RetryAssumption DEF TypeOK, TaskTypeOK, Retries
        <4>2. QED
          BY <1>3, <4>1, FinishTypeOK DEF Fail, TypeOK
      <3>3. QED
        BY <1>3, <3>1, <3>2 DEF Fail
    <2>3. QED
      BY <1>1, <1>2, <1>3, <2>1, <2>2 DEF Fail, TypeOK
  <1>4. CASE Crash(j)
    <2>1. TaskTypeOK'
      BY <1>4, ConstantFacts DEF Crash, TypeOK, TaskTypeOK, Step
    <2>2. QED
      BY <1>1, <1>2, <1>4, <2>1 DEF Crash, TypeOK, rowVars, webVars
  <1>5. QED
    BY <1>3, <1>4

LEMMA TickTypeOK ==
  ASSUME TypeOK, Tick
  PROVE  TypeOK'
  <1>1. keyAge' \in 0..NoKey
    BY ConstantFacts DEF Tick, TypeOK
  <1>2. eta' \in [Job -> 0..Delay]
    BY DebounceAssumption DEF Tick, TypeOK, TaskTypeOK
  <1>3. QED
    BY <1>1, <1>2 DEF Tick, TypeOK, TaskTypeOK, rowVars, webVars

LEMMA NextTypeOK == TypeOK /\ [Next]_vars => TypeOK'
  <1> SUFFICES ASSUME TypeOK, [Next]_vars PROVE TypeOK'
    OBVIOUS
  <1>1. CASE UNCHANGED vars
    BY <1>1 DEF vars, rowVars, webVars, taskVars, TypeOK, TaskTypeOK
  <1>2. CASE Next
    BY <1>2, RequestTypeOK, RespondTypeOK, WorkTypeOK, FaultTypeOK, TickTypeOK DEF Next
  <1>3. QED
    BY <1>1, <1>2

\* Every value a column, a task slot, a history variable or a counter takes is
\* one that TypeOK lists (models.py:398-447, tasks.py:95-224).
THEOREM TypeCorrect == Spec => []TypeOK
  BY InitTypeOK, NextTypeOK, PTL DEF Spec

-----------------------------------------------------------------------------
(* The inductive invariant.  StaleIsScheduled is not inductive: a task that *)
(* runs may skip, or may record a hash that is already out of date.  Each   *)
(* part below names the newer task that makes up for one such step.         *)

SomeLater == \E j \in Job : Later(j)

\* The generation in slot j is queued, or will be, until after the key's effect.
Outlasts(j) ==
    \/ pc[j] = "schedule"
    \/ pc[j] = "waiting" /\ eta[j] + keyAge >= Delay

\* A young key has a generation whose countdown the key cannot outlive.
KeyInv ==
    DebounceInProgress => (\E j \in Job : Outlasts(j)) \/ dropped

\* A hash that is about to be saved is the album's, or a later task will see that
\* it is not.
HashInv ==
    \A j \in Job : pc[j] = "uploaded" =>
        \/ seen[j].hash = photos
        \/ SomeLater \/ dropped
        \/ ~row.allow \/ photos = {}

\* The ZIP columns are about to be cleared, though downloads were enabled again.
RemovingInv ==
    (removing /\ row.allow /\ photos # {}) => SomeLater \/ dropped

\* The task in slot j, if nothing else happens, leaves the album up to date.
WillRegenerate(j) ==
    \/ pc[j] \in {"schedule", "waiting", "generating", "packed", "deleted"}
    \/ pc[j] = "loaded" /\ seen[j].allow /\ seen[j].hash # photos
    \/ pc[j] = "uploaded" /\ seen[j].hash = photos

CoverInv == Stale => (\E j \in Job : WillRegenerate(j)) \/ dropped

\* The same of the instance an admin request will write back.
FileInv ==
    /\ ReadyHasFile
    /\ (form # NoForm /\ form.status = "ready") => form.zip

Safe == KeyInv /\ HashInv /\ RemovingInv /\ CoverInv

IInv == TypeOK /\ Safe

LEMMA InitSafe == Init => Safe
  <1> SUFFICES ASSUME Init PROVE Safe
    OBVIOUS
  <1>1. ~DebounceInProgress
    BY DebounceAssumption DEF Init, DebounceInProgress, NoKey
  <1>2. ~Stale
    BY DEF Init, Stale, NeedsRegeneration, ContentHash, NewRow
  <1>3. \A j \in Job : pc[j] = "idle"
    BY DEF Init
  <1>4. ~removing
    BY DEF Init
  <1>5. QED
    BY <1>1, <1>2, <1>3, <1>4 DEF Safe, KeyInv, HashInv, RemovingInv, CoverInv

\* Three reasons for which a request leaves the invariant true: a task is queued,
\* the change counts as dropped, or the album asks for no archive.
LEMMA AnnouncedIsSafe ==
  ASSUME TypeOK, NEW j \in Job, NEW js, j \in js, Announce(js)
  PROVE  Safe'
  <1>1. pc'[j] = "schedule"
    BY DEF Announce
  <1>2. Later(j)' /\ Outlasts(j)' /\ WillRegenerate(j)'
    BY <1>1 DEF Later, Outlasts, WillRegenerate
  <1>3. QED
    BY <1>2 DEF Safe, KeyInv, HashInv, RemovingInv, CoverInv, SomeLater

LEMMA DroppedIsSafe ==
  ASSUME dropped'
  PROVE  Safe'
  BY DEF Safe, KeyInv, HashInv, RemovingInv, CoverInv

LEMMA UnwantedIsSafe ==
  ASSUME KeyInv, UNCHANGED <<taskVars, keyAge, dropped>>, ~row'.allow \/ photos' = {}
  PROVE  Safe'
  <1>1. KeyInv'
    BY DEF KeyInv, DebounceInProgress, Outlasts, taskVars
  <1>2. ~Stale'
    BY DEF Stale, NeedsRegeneration
  <1>3. HashInv' /\ RemovingInv'
    BY DEF HashInv, RemovingInv
  <1>4. QED
    BY <1>1, <1>2, <1>3 DEF Safe, CoverInv

\* What does not touch the state that the invariant speaks of keeps it.
LEMMA SameIsSafe ==
  ASSUME Safe, UNCHANGED <<row, photos, taskVars, keyAge, dropped, removing>>
  PROVE  Safe'
  BY DEF Safe, KeyInv, HashInv, RemovingInv, CoverInv, DebounceInProgress, Outlasts,
         SomeLater, Later, WillRegenerate, Stale, NeedsRegeneration, ContentHash, taskVars

LEMMA RequestIsSafe ==
  ASSUME TypeOK, Safe, Request
  PROVE  Safe'
  <1>1. ASSUME NEW S \in OneRowAway, EditAlbumPhoto(S)
        PROVE  Safe'
    BY <1>1, AnnouncedIsSafe, UnwantedIsSafe DEF EditAlbumPhoto, Safe
  <1>2. ASSUME NEW S \in OneRowAway, LoseAnnouncement(S)
        PROVE  Safe'
    BY <1>2, DroppedIsSafe DEF LoseAnnouncement, Drop
  <1>3. ASSUME NEW p \in Photo, UploadToAlbum(p)
        PROVE  Safe'
    BY <1>3, DroppedIsSafe, UnwantedIsSafe DEF UploadToAlbum, Drop, Safe
  <1>4. CASE EnableDownloads
    BY <1>4, AnnouncedIsSafe, UnwantedIsSafe DEF EnableDownloads, Safe
  <1>5. CASE DisableDownloads
    <2>1. ~row'.allow
      BY <1>5 DEF DisableDownloads, TypeOK, Row
    <2>2. QED
      BY <1>5, <2>1, UnwantedIsSafe DEF DisableDownloads, Safe
  <1>6. CASE AdminLoad
    BY <1>6, SameIsSafe DEF AdminLoad, rowVars
  <1>7. CASE Regenerate
    <2>1. PICK j \in FreeSlots :
             /\ pc' = [pc EXCEPT ![j] = "waiting"]
             /\ eta' = [eta EXCEPT ![j] = 0]
      BY <1>7 DEF Regenerate
    <2>2. /\ UNCHANGED <<row, photos, keyAge, removing, seen, dropped>>
          /\ j \in Job /\ pc[j] = "idle" /\ pc'[j] = "waiting"
      BY <1>7, <2>1 DEF Regenerate, rowVars, FreeSlots, TypeOK, TaskTypeOK
    <2>3. \A k \in Job : k # j => pc'[k] = pc[k] /\ eta'[k] = eta[k]
      BY <2>1 DEF TypeOK, TaskTypeOK
    <2>4. \A k \in Job : (Outlasts(k) => Outlasts(k)') /\ (Later(k) => Later(k)')
      BY <2>2, <2>3 DEF Outlasts, Later
    <2>5. KeyInv'
      BY <2>2, <2>4 DEF Safe, KeyInv, DebounceInProgress
    <2>6. HashInv' /\ RemovingInv'
      BY <2>2, <2>3, <2>4 DEF Safe, HashInv, RemovingInv, SomeLater
    <2>7. CoverInv'
      BY <2>2 DEF CoverInv, WillRegenerate
    <2>8. QED
      BY <2>5, <2>6, <2>7 DEF Safe
  <1>8. QED
    BY <1>1, <1>2, <1>3, <1>4, <1>5, <1>6, <1>7 DEF Request

LEMMA RespondIsSafe ==
  ASSUME TypeOK, Safe, Respond
  PROVE  Safe'
  <1>1. CASE ClearZipFields
    <2>1. UNCHANGED <<photos, keyAge, taskVars, dropped>>
      BY <1>1 DEF ClearZipFields
    <2>2. row'.allow = row.allow /\ removing /\ ~removing'
      BY <1>1 DEF ClearZipFields, TypeOK, Row
    <2>3. KeyInv'
      BY <2>1 DEF Safe, KeyInv, DebounceInProgress, Outlasts, taskVars
    <2>4. HashInv' /\ RemovingInv'
      BY <2>1, <2>2 DEF Safe, HashInv, RemovingInv, SomeLater, Later, taskVars
    <2>5. CoverInv'
      <3>1. SUFFICES ASSUME Stale' PROVE (\E j \in Job : WillRegenerate(j)') \/ dropped'
        BY DEF CoverInv
      <3>2. row.allow /\ photos # {}
        BY <2>1, <2>2, <3>1 DEF Stale, NeedsRegeneration
      <3>3. SomeLater \/ dropped
        BY <2>2, <3>2 DEF Safe, RemovingInv
      <3>4. QED
        BY <2>1, <3>3 DEF SomeLater, Later, WillRegenerate, taskVars
    <2>6. QED
      BY <2>3, <2>4, <2>5 DEF Safe
  <1>2. ASSUME NEW allow \in BOOLEAN, NEW S \in SUBSET Photo, AdminSave(allow, S)
        PROVE  Safe'
    <2>1. CASE allow /\ S # photos
      BY <1>2, <2>1, AnnouncedIsSafe DEF AdminSave
    <2>2. CASE ~(allow /\ S # photos)
      <3>1. /\ row' = [form EXCEPT !.allow = allow]
            /\ dropped' = (dropped \/ (allow /\ ~row.allow) \/ form # row)
            /\ form \in Row
            /\ photos' = S
            /\ UNCHANGED <<taskVars, keyAge, removing>>
        BY <1>2, <2>2 DEF AdminSave, TypeOK
      <3>2. CASE dropped'
        BY <3>2, DroppedIsSafe
      <3>3. CASE ~dropped'
        <4>1. form = row /\ dropped' = dropped /\ ~(allow /\ ~row.allow)
          BY <3>1, <3>3 DEF TypeOK
        <4>2. CASE allow
          <5>1. row' = row /\ photos' = photos
            BY <2>2, <3>1, <4>1, <4>2 DEF Row
          <5>2. QED
            BY <3>1, <4>1, <5>1, SameIsSafe
        <4>3. CASE ~allow
          <5>1. ~row'.allow
            BY <3>1, <4>3 DEF Row
          <5>2. QED
            BY <3>1, <4>1, <5>1, UnwantedIsSafe DEF Safe
        <4>4. QED
          BY <4>2, <4>3
      <3>4. QED
        BY <3>2, <3>3
    <2>3. QED
      BY <2>1, <2>2
  <1>3. QED
    BY <1>1, <1>2 DEF Respond

\* What a step of one task leaves alone, whichever step it is.
LEMMA WorkFrame ==
  ASSUME TypeOK, NEW j \in Job, Work(j)
  PROVE  /\ UNCHANGED <<photos, removing, dropped>>
         /\ row'.allow = row.allow
         /\ \A k \in Job : k # j => pc'[k] = pc[k] /\ eta'[k] = eta[k] /\ seen'[k] = seen[k]
         /\ pc[j] = "schedule" => pc'[j] = "waiting" /\ eta'[j] = Delay /\ keyAge' = 0
         /\ pc[j] = "waiting" => eta[j] = 0
         /\ keyAge' \in {keyAge, 0, NoKey}
         /\ keyAge' = 0 => pc[j] = "schedule" \/ keyAge = 0
         /\ pc'[j] = "uploaded" => pc[j] = "deleted" /\ seen'[j].hash = photos
  <1> USE DEF TypeOK, TaskTypeOK, rowVars, webVars, Step
  <1>1. CASE ScheduleZip(j)
    BY <1>1 DEF ScheduleZip, Advance
  <1>2. CASE LoadAlbum(j)
    BY <1>2 DEF LoadAlbum, Advance
  <1>3. CASE SkipDebounced(j)
    BY <1>3 DEF SkipDebounced, Finish
  <1>4. CASE SkipUnneeded(j)
    BY <1>4 DEF SkipUnneeded, Finish
  <1>5. CASE StartGenerating(j)
    BY <1>5 DEF StartGenerating, Advance, Row
  <1>6. CASE FindNoPhotos(j)
    BY <1>6 DEF FindNoPhotos, Finish, Row
  <1>7. CASE PackPhotos(j)
    BY <1>7 DEF PackPhotos, Advance
  <1>8. CASE DeleteOldZip(j)
    BY <1>8 DEF DeleteOldZip, Advance
  <1>9. CASE UploadZip(j)
    BY <1>9 DEF UploadZip, Advance, ContentHash, Row
  <1>10. CASE SaveZip(j)
    BY <1>10 DEF SaveZip, Advance, Row
  <1>11. CASE DeleteKey(j)
    BY <1>11, ConstantFacts, DebounceAssumption DEF DeleteKey, Finish, NoKey
  <1>12. QED
    BY <1>1, <1>2, <1>3, <1>4, <1>5, <1>6, <1>7, <1>8, <1>9, <1>10, <1>11 DEF Work

\* The slot that covers a stale album after a step of slot j.
LEMMA WorkKeepsCover ==
  ASSUME TypeOK, Safe, NEW j \in Job, Work(j)
  PROVE  CoverInv'
  <1> SUFFICES ASSUME Stale', ~dropped'
               PROVE  \E k \in Job : WillRegenerate(k)'
    BY DEF CoverInv
  <1>0. /\ UNCHANGED <<photos, dropped>> /\ row'.allow = row.allow /\ row.allow
        /\ photos # {} /\ photos # row'.hash
    BY WorkFrame DEF Stale, NeedsRegeneration, ContentHash
  <1>1. ASSUME NEW k \in Job, k # j, WillRegenerate(k)
        PROVE  WillRegenerate(k)'
    BY <1>0, <1>1, WorkFrame DEF WillRegenerate
  <1>2. SomeLater => \E k \in Job : WillRegenerate(k)'
    <2>1. ASSUME NEW k \in Job, Later(k)
          PROVE  WillRegenerate(k)'
      <3>1. CASE k # j
        BY <1>1, <2>1, <3>1 DEF Later, WillRegenerate
      <3>2. CASE k = j
        BY <2>1, <3>2, WorkFrame, DebounceAssumption
        DEF Later, WillRegenerate, TypeOK, TaskTypeOK
      <3>3. QED
        BY <3>1, <3>2
    <2>2. QED
      BY <2>1 DEF SomeLater
  <1>3. CASE SaveZip(j)
    <2>1. pc[j] = "uploaded" /\ row'.hash = seen[j].hash
      BY <1>3 DEF SaveZip, Advance, TypeOK, Row
    <2>2. SomeLater
      BY <1>0, <2>1 DEF Safe, HashInv
    <2>3. QED
      BY <1>2, <2>2
  <1>4. CASE ~SaveZip(j)
    <2>1. row'.hash = row.hash
      BY <1>4 DEF Work, ScheduleZip, LoadAlbum, SkipDebounced, SkipUnneeded, StartGenerating,
         FindNoPhotos, PackPhotos, DeleteOldZip, UploadZip, DeleteKey, rowVars, TypeOK, Row
    <2>2. PICK k \in Job : WillRegenerate(k)
      BY <1>0, <2>1 DEF Safe, CoverInv, Stale, NeedsRegeneration, ContentHash
    <2>3. CASE k # j
      BY <1>1, <2>2, <2>3
    <2>4. CASE k = j
      <3> USE <1>0, <2>2, <2>4 DEF WillRegenerate, TypeOK, TaskTypeOK, rowVars, webVars
      <3>1. CASE ScheduleZip(j)
        BY <3>1 DEF ScheduleZip, Advance
      <3>2. CASE LoadAlbum(j)
        <4>1. pc'[j] = "loaded" /\ seen'[j] = row
          BY <3>2 DEF LoadAlbum, Advance
        <4>2. row.hash # photos
          BY <2>1
        <4>3. QED
          BY <4>1, <4>2
      <3>3. CASE SkipDebounced(j)
        <4>1. PICK m \in Job : Outlasts(m)
          BY <3>3 DEF SkipDebounced, Safe, KeyInv
        <4>2. m # j /\ WillRegenerate(m)
          BY <3>3, <4>1 DEF SkipDebounced, Outlasts
        <4>3. QED
          BY <1>1, <4>2
      <3>4. CASE SkipUnneeded(j)
        BY <3>4 DEF SkipUnneeded, NeedsRegeneration, ContentHash
      <3>5. CASE StartGenerating(j)
        BY <3>5 DEF StartGenerating, Advance
      <3>6. CASE FindNoPhotos(j)
        BY <3>6 DEF FindNoPhotos
      <3>7. CASE PackPhotos(j)
        BY <3>7 DEF PackPhotos, Advance
      <3>8. CASE DeleteOldZip(j)
        BY <3>8 DEF DeleteOldZip, Advance
      <3>9. CASE UploadZip(j)
        <4>1. pc'[j] = "uploaded"
          BY <3>9 DEF UploadZip, Advance
        <4>2. seen'[j].hash = photos'
          BY <4>1, WorkFrame
        <4>3. QED
          BY <4>1, <4>2
      <3>10. CASE DeleteKey(j)
        BY <3>10 DEF DeleteKey
      <3>11. QED
        BY <1>4, <3>1, <3>2, <3>3, <3>4, <3>5, <3>6, <3>7, <3>8, <3>9, <3>10 DEF Work
    <2>5. QED
      BY <2>3, <2>4
  <1>5. QED
    BY <1>3, <1>4

LEMMA WorkIsSafe ==
  ASSUME TypeOK, Safe, NEW j \in Job, Work(j)
  PROVE  Safe'
  <1>1. SomeLater => SomeLater'
    <2>1. ASSUME NEW k \in Job, Later(k)
          PROVE  Later(k)'
      <3>1. CASE k # j
        BY <2>1, <3>1, WorkFrame DEF Later
      <3>2. CASE k = j
        BY <2>1, <3>2, WorkFrame, DebounceAssumption DEF Later
      <3>3. QED
        BY <3>1, <3>2
    <2>2. QED
      BY <2>1 DEF SomeLater
  <1>2. KeyInv'
    <2>1. SUFFICES ASSUME DebounceInProgress', ~dropped'
                   PROVE  \E k \in Job : Outlasts(k)'
      BY DEF KeyInv
    <2>2. keyAge' # NoKey
      BY <2>1, DebounceAssumption DEF DebounceInProgress, NoKey
    <2>3. CASE pc[j] = "schedule"
      BY <2>3, WorkFrame, DebounceAssumption DEF Outlasts
    <2>4. CASE pc[j] # "schedule"
      <3>1. keyAge' = keyAge
        BY <2>2, <2>4, WorkFrame
      <3>2. PICK k \in Job : Outlasts(k)
        BY <2>1, <3>1, WorkFrame DEF Safe, KeyInv, DebounceInProgress
      <3>3. CASE k = j
        <4>1. pc[j] = "waiting" /\ eta[j] = 0 /\ keyAge >= Delay
          BY <2>4, <3>2, <3>3, WorkFrame DEF Outlasts, TypeOK
        <4>2. QED
          BY <2>1, <3>1, <4>1, DebounceAssumption DEF DebounceInProgress, TypeOK
      <3>4. CASE k # j
        BY <3>1, <3>2, <3>4, WorkFrame DEF Outlasts
      <3>5. QED
        BY <3>3, <3>4
    <2>5. QED
      BY <2>3, <2>4
  <1>3. HashInv'
    BY <1>1, WorkFrame DEF Safe, HashInv
  <1>4. RemovingInv'
    BY <1>1, WorkFrame DEF Safe, RemovingInv
  <1>5. QED
    BY <1>2, <1>3, <1>4, WorkKeepsCover DEF Safe

\* A task that fails and is retried, or whose worker dies, is queued again.
LEMMA FaultIsSafe ==
  ASSUME TypeOK, Safe, NEW j \in Job, Fail(j) \/ Crash(j)
  PROVE  Safe'
  <1>1. CASE dropped'
    BY <1>1, DroppedIsSafe
  <1>2. CASE ~dropped'
    <2>1. /\ UNCHANGED <<photos, removing, eta, dropped>>
          /\ row'.allow = row.allow /\ row'.hash = row.hash
          /\ pc[j] \notin {"idle", "waiting"}
          /\ pc'[j] = IF pc[j] = "schedule" THEN "schedule" ELSE "waiting"
          /\ pc[j] # "schedule" => keyAge' = keyAge
          /\ \A k \in Job : k # j => pc'[k] = pc[k] /\ seen'[k] = seen[k]
      BY <1>2 DEF Fail, Crash, InTry, rowVars, webVars, TypeOK, TaskTypeOK, Row
    <2>2. \A k \in Job : Later(k) => Later(k)'
      BY <2>1 DEF Later
    <2>3. KeyInv'
      <3>1. CASE pc[j] = "schedule"
        BY <2>1, <3>1 DEF KeyInv, Outlasts
      <3>2. CASE pc[j] # "schedule"
        BY <2>1, <3>2 DEF Safe, KeyInv, DebounceInProgress, Outlasts
      <3>3. QED
        BY <3>1, <3>2
    <2>4. HashInv' /\ RemovingInv'
      BY <2>1, <2>2 DEF Safe, HashInv, RemovingInv, SomeLater
    <2>5. CoverInv'
      BY <2>1 DEF CoverInv, WillRegenerate
    <2>6. QED
      BY <2>3, <2>4, <2>5 DEF Safe
  <1>3. QED
    BY <1>1, <1>2

LEMMA TickIsSafe ==
  ASSUME TypeOK, Safe, Tick
  PROVE  Safe'
  <1>1. /\ UNCHANGED <<row, photos, removing, dropped, pc, seen>>
        /\ ~removing /\ \A k \in Job : pc[k] # "uploaded"
    BY DEF Tick, rowVars, webVars
  <1>2. HashInv' /\ RemovingInv'
    BY <1>1 DEF HashInv, RemovingInv
  <1>3. CoverInv'
    BY <1>1 DEF Safe, CoverInv, Stale, NeedsRegeneration, ContentHash, WillRegenerate
  <1>4. KeyInv'
    <2>1. SUFFICES ASSUME DebounceInProgress', ~dropped
                   PROVE  \E k \in Job : Outlasts(k)'
      BY <1>1 DEF KeyInv
    <2>2. keyAge' = keyAge + 1 /\ DebounceInProgress
      BY <2>1, DebounceAssumption DEF Tick, DebounceInProgress, NoKey, TypeOK
    <2>3. PICK k \in Job : Outlasts(k)
      BY <2>1, <2>2 DEF Safe, KeyInv
    <2>4. CASE pc[k] = "schedule"
      BY <1>1, <2>4 DEF Outlasts
    <2>5. CASE pc[k] = "waiting" /\ eta[k] + keyAge >= Delay
      <3>1. eta[k] \in Nat /\ keyAge \in Nat
        BY ConstantFacts, DebounceAssumption DEF TypeOK, TaskTypeOK
      <3>2. eta'[k] = IF eta[k] > 0 THEN eta[k] - 1 ELSE eta[k]
        BY <2>5 DEF Tick
      <3>3. eta'[k] + keyAge' >= Delay
        BY <2>2, <2>5, <3>1, <3>2, DebounceAssumption
      <3>4. QED
        BY <1>1, <2>5, <3>3 DEF Outlasts
    <2>6. QED
      BY <2>3, <2>4, <2>5 DEF Outlasts
  <1>5. QED
    BY <1>2, <1>3, <1>4 DEF Safe

LEMMA NextIsSafe == TypeOK /\ Safe /\ [Next]_vars => Safe'
  <1> SUFFICES ASSUME TypeOK, Safe, [Next]_vars PROVE Safe'
    OBVIOUS
  <1>1. CASE UNCHANGED vars
    BY <1>1, SameIsSafe DEF vars, rowVars, webVars
  <1>2. CASE Next
    BY <1>2, RequestIsSafe, RespondIsSafe, WorkIsSafe, FaultIsSafe, TickIsSafe DEF Next
  <1>3. QED
    BY <1>1, <1>2

\* The inductive invariant holds of every behaviour.
THEOREM InvariantHolds == Spec => []IInv
  <1>1. Init => IInv
    BY InitTypeOK, InitSafe DEF IInv
  <1>2. IInv /\ [Next]_vars => IInv'
    BY NextTypeOK, NextIsSafe DEF IInv
  <1>3. QED
    BY <1>1, <1>2, PTL DEF Spec

\* However many tasks, retries and crashes there are, and however tasks skip one
\* another's work, an album whose archive is out of date has a task to come
\* (signals.py:11-25, tasks.py:126-150).
THEOREM StaleAlbumIsScheduled == Spec => []StaleIsScheduled
  <1>1. IInv => StaleIsScheduled
    BY DEF IInv, Safe, CoverInv, StaleIsScheduled, WillRegenerate
  <1>2. QED
    BY <1>1, InvariantHolds, PTL

\* The last announcement of a burst is never the one that the debounce skips, for
\* every countdown, slack and lifetime of the key (tasks.py:55-57, 98-101, 126-135).
THEOREM DebounceCovered == Spec => []DebounceIsCovered
  <1>1. IInv => DebounceIsCovered
    <2> SUFFICES ASSUME TypeOK, KeyInv, DebounceInProgress, ~dropped
                 PROVE  \E j \in Job : Later(j)
      BY DEF IInv, Safe, DebounceIsCovered
    <2>1. PICK j \in Job : Outlasts(j)
      BY DEF KeyInv
    <2>2. eta[j] \in Nat /\ keyAge \in Nat
      BY ConstantFacts, DebounceAssumption DEF TypeOK, TaskTypeOK
    <2>3. Later(j)
      BY <2>1, <2>2, DebounceAssumption DEF Outlasts, Later, DebounceInProgress
    <2>4. QED
      BY <2>3
  <1>2. QED
    BY <1>1, InvariantHolds, PTL

-----------------------------------------------------------------------------
(* A ready row names a file: FileInv also says so of the instance that an   *)
(* admin request holds, and by itself it is inductive.                      *)

LEMMA InitFileInv == Init => FileInv
  BY DEF Init, FileInv, ReadyHasFile, NewRow

LEMMA NextFileInv == TypeOK /\ FileInv /\ [Next]_vars => FileInv'
  <1> SUFFICES ASSUME TypeOK, FileInv, [Next]_vars PROVE FileInv'
    OBVIOUS
  <1> USE DEF FileInv, ReadyHasFile, TypeOK, Row, rowVars, webVars
  <1>1. CASE UNCHANGED vars
    BY <1>1 DEF vars
  <1>2. CASE Request
    BY <1>2 DEF Request, EditAlbumPhoto, LoseAnnouncement, UploadToAlbum, EnableDownloads,
       DisableDownloads, AdminLoad, Regenerate
  <1>3. CASE ClearZipFields
    BY <1>3 DEF ClearZipFields
  <1>4. ASSUME NEW allow \in BOOLEAN, NEW S \in SUBSET Photo, AdminSave(allow, S)
        PROVE  FileInv'
    BY <1>4 DEF AdminSave
  <1>5. ASSUME NEW j \in Job, Work(j)
        PROVE  FileInv'
    BY <1>5 DEF Work, ScheduleZip, LoadAlbum, SkipDebounced, SkipUnneeded, StartGenerating,
       FindNoPhotos, PackPhotos, DeleteOldZip, UploadZip, SaveZip, DeleteKey
  <1>6. ASSUME NEW j \in Job, Fail(j) \/ Crash(j)
        PROVE  FileInv'
    BY <1>6 DEF Fail, Crash
  <1>7. CASE Tick
    BY <1>7 DEF Tick
  <1>8. QED
    BY <1>1, <1>2, <1>3, <1>4, <1>5, <1>6, <1>7 DEF Next, Respond

\* Whatever the ages of the instances that tasks and requests save columns of, a
\* row never says "ready" without naming a file (signals.py:22,46, tasks.py:152-202).
THEOREM ReadyAlbumHasFile == Spec => []ReadyHasFile
  <1>1. Init => TypeOK /\ FileInv
    BY InitTypeOK, InitFileInv
  <1>2. TypeOK /\ FileInv /\ [Next]_vars => (TypeOK /\ FileInv)'
    BY NextTypeOK, NextFileInv
  <1>3. TypeOK /\ FileInv => ReadyHasFile
    BY DEF FileInv
  <1>4. QED
    BY <1>1, <1>2, <1>3, PTL DEF Spec
=============================================================================

------------------------------ MODULE AlbumZip ------------------------------
(***************************************************************************)
(* The ZIP archive of one photo album (src/photos).  A change of the       *)
(* album's photos is announced by a signal handler, which marks the row    *)
(* "pending" and queues schedule_zip_generation; that Celery task stamps a *)
(* debounce key in the cache and queues generate_album_zip with a          *)
(* countdown; that task skips when a newer announcement is on its way,     *)
(* skips when the recorded content hash equals the album's, and otherwise  *)
(* rebuilds the archive and records the hash.                              *)
(*                                                                         *)
(* Several processes hold copies of the album's row: every task loads an   *)
(* instance when it begins and writes columns of it later, and so does a   *)
(* web request.  The model keeps those copies apart from the row.          *)
(*                                                                         *)
(* Time is counted in units of a few seconds; only the order of the three  *)
(* debounce limits (countdown minus slack, countdown, key lifetime)        *)
(* matters.  The content hash is taken as collision free: it is the set of *)
(* photos it was computed from, and the empty set is the empty string.     *)
(***************************************************************************)
EXTENDS Integers, FiniteSets

CONSTANTS
    Photo,            \* photos that may be in the album
    Job,              \* task slots: a chain of schedule, then generate, holds one
    Delay,            \* DEBOUNCE_DELAY_SECONDS, in time units
    Slack,            \* the 5 seconds taken off when the key's age is tested
    Grace,            \* the 10 seconds a key outlives the countdown
    ScheduleRetries,  \* max_retries of schedule_zip_generation
    GenerateRetries,  \* max_retries of generate_album_zip
    MaxEdits,         \* bound: requests of editors and visitors
    MaxFaults,        \* bound: crashes and exceptions
    NoZip,            \* no archive in the storage
    NoForm            \* no admin form being saved

ASSUME DebounceAssumption ==
    /\ Slack \in Nat /\ Grace \in Nat /\ Delay \in Nat
    /\ 0 < Slack /\ Slack < Delay /\ 0 < Grace

ASSUME RetryAssumption == ScheduleRetries \in Nat /\ GenerateRetries \in Nat

ASSUME BoundAssumption == MaxEdits \in Nat /\ MaxFaults \in Nat

VARIABLES
    row,       \* the album's row: allow, status, zip (a file is named), hash
    photos,    \* the photos AlbumPhoto links to the album
    object,    \* the archive in the storage: NoZip or the photos packed in it
    keyAge,    \* age of the debounce key; NoKey when absent
    form,      \* the instance an admin request loaded and has yet to save
    removing,  \* a request deleted the archive and has yet to save the row
    pc,        \* pc[j]: how far the tasks in slot j have come
    eta,       \* eta[j]: time left before a queued task may start
    tries,     \* tries[j]: retries used by the task in slot j
    force,     \* force[j]: the task was queued with force=True
    seen,      \* seen[j]: the instance the task loaded
    packed,    \* packed[j]: the photos in the task's temporary archive
    dropped,   \* history: since the last announcement, a change went unannounced
    edits,     \* requests so far
    faults     \* faults so far

rowVars == <<row, photos, object>>
webVars == <<form, removing, dropped, edits>>
taskVars == <<pc, eta, tries, force, seen, packed>>
vars == <<rowVars, webVars, taskVars, keyAge, faults>>

Row == [allow : BOOLEAN,
        status : {"none", "pending", "generating", "ready", "failed"},
        zip : BOOLEAN,
        hash : SUBSET Photo]

NewRow == [allow |-> FALSE, status |-> "none", zip |-> FALSE, hash |-> {}]

NoKey == Delay + Grace

Step == {"idle", "schedule", "waiting", "loaded", "generating", "packed",
         "deleted", "uploaded", "saved"}

\* The points after generate_album_zip wrote "generating": its try block.
InTry == {"generating", "packed", "deleted", "uploaded", "saved"}

-----------------------------------------------------------------------------

\* compute_zip_content_hash, of the photos now in the album.
ContentHash == photos

\* needs_zip_regeneration, of an instance that may be older than the row.
NeedsRegeneration(inst) ==
    /\ inst.allow
    /\ photos # {}
    /\ ContentHash # inst.hash

\* Mutant: the key counts for as long as it lives.
DebounceWhileKeyLives == keyAge < NoKey

\* The key is younger than the countdown less its slack.
DebounceInProgress == keyAge < Delay - Slack

FreeSlots == {j \in Job : pc[j] = "idle"}

-----------------------------------------------------------------------------
(* Requests.  Each is an edit, counted against MaxEdits.                    *)

CountEdit == edits < MaxEdits /\ edits' = edits + 1

\* schedule_zip_generation.delay(album.id), once for each slot of js.
Announce(js) ==
    /\ js \subseteq FreeSlots
    /\ pc' = [j \in Job |-> IF j \in js THEN "schedule" ELSE pc[j]]
    /\ tries' = [j \in Job |-> IF j \in js THEN 0 ELSE tries[j]]
    /\ force' = [j \in Job |-> IF j \in js THEN FALSE ELSE force[j]]
    /\ dropped' = FALSE
    /\ UNCHANGED <<eta, seen, packed>>

\* The photos change and, though downloads are on, no task is queued.
Drop == dropped' = TRUE /\ UNCHANGED taskVars

\* The album after one AlbumPhoto row is saved (a new one or not) or deleted.
OneRowAway == {photos} \cup {photos \cup {p} : p \in Photo} \cup {photos \ {p} : p \in Photo}

\* An AlbumPhoto row is saved or deleted through the ORM: album_photo_changed.
\* S = photos is a save that leaves the membership alone.
EditAlbumPhoto(S) ==
    /\ CountEdit
    /\ photos' = S
    /\ \/ /\ row.allow
          /\ row' = [row EXCEPT !.status = "pending"]
          /\ \E j \in Job : Announce({j})
       \/ /\ ~row.allow
          /\ UNCHANGED <<row, taskVars, dropped>>
    /\ UNCHANGED <<object, keyAge, form, removing, faults>>

\* The request dies, or the broker refuses the message, after the AlbumPhoto row
\* is written: before the status is, or before delay() queues the task.
LoseAnnouncement(S) ==
    /\ CountEdit
    /\ faults < MaxFaults
    /\ faults' = faults + 1
    /\ row.allow
    /\ photos' = S
    /\ row' \in {row, [row EXCEPT !.status = "pending"]}
    /\ Drop
    /\ UNCHANGED <<object, keyAge, form, removing>>

\* album.photos.add(photo) of the upload API: bulk_create, so no post_save.
UploadToAlbum(p) ==
    /\ CountEdit
    /\ p \notin photos
    /\ photos' = photos \cup {p}
    /\ IF row.allow THEN Drop ELSE UNCHANGED <<taskVars, dropped>>
    /\ UNCHANGED <<row, object, keyAge, form, removing, faults>>

\* album.save(update_fields=[.., "allow_downloads"]) with the flag set.
EnableDownloads ==
    /\ CountEdit
    /\ \/ /\ photos # {}
          /\ row' = [row EXCEPT !.allow = TRUE, !.status = "pending"]
          /\ \E j \in Job : Announce({j})
       \/ /\ photos = {}
          /\ row' = [row EXCEPT !.allow = TRUE]
          /\ UNCHANGED <<taskVars, dropped>>
    /\ UNCHANGED <<photos, object, keyAge, form, removing, faults>>

\* The same with the flag cleared: the file is deleted here, the columns that
\* describe it are saved by ClearZipFields.
DisableDownloads ==
    /\ CountEdit
    /\ ~removing
    /\ row' = [row EXCEPT !.allow = FALSE]
    /\ removing' = row.zip
    /\ object' = IF row.zip THEN NoZip ELSE object
    /\ UNCHANGED <<photos, keyAge, form, taskVars, dropped, faults>>

ClearZipFields ==
    /\ removing
    /\ row' = [row EXCEPT !.zip = FALSE, !.hash = {}, !.status = "none"]
    /\ removing' = FALSE
    /\ UNCHANGED <<photos, object, keyAge, form, taskVars, dropped, edits, faults>>

\* The admin change form loads its instance ...
AdminLoad ==
    /\ CountEdit
    /\ form = NoForm
    /\ form' = row
    /\ UNCHANGED <<rowVars, keyAge, removing, taskVars, dropped, faults>>

\* ... and saves every column of it: no update_fields, so the handler of
\* allow_downloads returns early.  The inlines announce a changed membership by
\* the AlbumPhoto signal, and save_related does so again.
AdminSave(allow, S) ==
    /\ form # NoForm
    /\ form' = NoForm
    /\ photos' = S
    /\ LET saved == [form EXCEPT !.allow = allow] IN
       \/ /\ allow
          /\ S # photos
          /\ row' = [saved EXCEPT !.status = "pending"]
          /\ \E j, k \in Job : (j = k <=> S = {}) /\ Announce({j, k})
       \/ /\ ~(allow /\ S # photos)
          /\ row' = saved
          /\ dropped' = (dropped \/ (allow /\ ~row.allow) \/ form # row)
          /\ UNCHANGED taskVars
    /\ UNCHANGED <<object, keyAge, removing, edits, faults>>

\* The regenerate_zip admin action: force, and no countdown.
Regenerate ==
    /\ CountEdit
    /\ row.allow
    /\ \E j \in FreeSlots :
          /\ pc' = [pc EXCEPT ![j] = "waiting"]
          /\ eta' = [eta EXCEPT ![j] = 0]
          /\ tries' = [tries EXCEPT ![j] = 0]
          /\ force' = [force EXCEPT ![j] = TRUE]
    /\ UNCHANGED <<rowVars, keyAge, form, removing, seen, packed, dropped, faults>>

-----------------------------------------------------------------------------
(* Tasks.                                                                   *)

Advance(j, from, to) == pc[j] = from /\ pc' = [pc EXCEPT ![j] = to]

\* The task in slot j ends, and the slot is free again.
Finish(j) ==
    /\ pc' = [pc EXCEPT ![j] = "idle"]
    /\ seen' = [seen EXCEPT ![j] = NewRow]
    /\ packed' = [packed EXCEPT ![j] = {}]
    /\ UNCHANGED <<eta, tries, force>>

\* schedule_zip_generation: stamp the key, then queue the generation.
ScheduleZip(j) ==
    /\ Advance(j, "schedule", "waiting")
    /\ keyAge' = 0
    /\ eta' = [eta EXCEPT ![j] = Delay]
    /\ tries' = [tries EXCEPT ![j] = 0]
    /\ UNCHANGED <<rowVars, webVars, force, seen, packed, faults>>

\* generate_album_zip begins: PhotoAlbum.objects.get.
LoadAlbum(j) ==
    /\ eta[j] = 0
    /\ Advance(j, "waiting", "loaded")
    /\ seen' = [seen EXCEPT ![j] = row]
    /\ UNCHANGED <<rowVars, webVars, keyAge, eta, tries, force, packed, faults>>

\* A newer announcement is on its way: "Debounce in progress".
SkipDebounced(j) ==
    /\ pc[j] = "loaded"
    /\ ~force[j]
    /\ DebounceInProgress
    /\ Finish(j)
    /\ UNCHANGED <<rowVars, webVars, keyAge, faults>>

\* "Content unchanged", which needs_zip_regeneration also answers for an album
\* without photos or downloads, and "Downloads disabled".
SkipUnneeded(j) ==
    /\ pc[j] = "loaded"
    /\ IF force[j]
       THEN ~seen[j].allow
       ELSE ~DebounceInProgress /\ ~NeedsRegeneration(seen[j])
    /\ Finish(j)
    /\ UNCHANGED <<rowVars, webVars, keyAge, faults>>

StartGenerating(j) ==
    /\ Advance(j, "loaded", "generating")
    /\ IF force[j]
       THEN seen[j].allow
       ELSE ~DebounceInProgress /\ NeedsRegeneration(seen[j])
    /\ row' = [row EXCEPT !.status = "generating"]
    /\ UNCHANGED <<photos, object, webVars, keyAge, eta, tries, force, seen, packed, faults>>

\* The photos went in the meantime: "No photos in album".
FindNoPhotos(j) ==
    /\ pc[j] = "generating"
    /\ photos = {}
    /\ row' = [row EXCEPT !.status = "none"]
    /\ Finish(j)
    /\ UNCHANGED <<photos, object, webVars, keyAge, faults>>

\* The photos are listed and streamed into the temporary archive, without those
\* whose file cannot be read.
PackPhotos(j) ==
    /\ Advance(j, "generating", "packed")
    /\ photos # {}
    /\ \E readable \in SUBSET photos : packed' = [packed EXCEPT ![j] = readable]
    /\ UNCHANGED <<rowVars, webVars, keyAge, eta, tries, force, seen, faults>>

\* The archive the loaded instance names is deleted.
DeleteOldZip(j) ==
    /\ Advance(j, "packed", "deleted")
    /\ object' = IF seen[j].zip THEN NoZip ELSE object
    /\ UNCHANGED <<row, photos, webVars, keyAge, eta, tries, force, seen, packed, faults>>

\* The new archive is stored under the same name, and the content hash computed.
UploadZip(j) ==
    /\ Advance(j, "deleted", "uploaded")
    /\ object' = packed[j]
    /\ seen' = [seen EXCEPT ![j].hash = ContentHash]
    /\ UNCHANGED <<row, photos, webVars, keyAge, eta, tries, force, packed, faults>>

\* Mutant: zip_file is missing from update_fields.
SaveZipUnnamed(j) ==
    /\ Advance(j, "uploaded", "saved")
    /\ row' = [row EXCEPT !.hash = seen[j].hash, !.status = "ready"]
    /\ UNCHANGED <<photos, object, webVars, keyAge, eta, tries, force, seen, packed, faults>>

\* The five ZIP columns are saved ...
SaveZip(j) ==
    /\ Advance(j, "uploaded", "saved")
    /\ row' = [row EXCEPT !.zip = TRUE, !.hash = seen[j].hash, !.status = "ready"]
    /\ UNCHANGED <<photos, object, webVars, keyAge, eta, tries, force, seen, packed, faults>>

\* ... and the debounce key is deleted, whoever stamped it.
DeleteKey(j) ==
    /\ pc[j] = "saved"
    /\ keyAge' = NoKey
    /\ Finish(j)
    /\ UNCHANGED <<rowVars, webVars, faults>>

-----------------------------------------------------------------------------
(* Faults and time.                                                         *)

CountFault == faults < MaxFaults /\ faults' = faults + 1

Retries(j) == IF pc[j] = "schedule" THEN ScheduleRetries ELSE GenerateRetries

\* A task raises: inside the try block the row says "failed"; autoretry queues
\* it again until max_retries.  schedule_zip_generation may have stamped its key.
Fail(j) ==
    /\ pc[j] \in {"schedule", "loaded"} \cup InTry
    /\ CountFault
    /\ row' = IF pc[j] \in InTry THEN [row EXCEPT !.status = "failed"] ELSE row
    /\ keyAge' \in IF pc[j] = "schedule" THEN {0, keyAge} ELSE {keyAge}
    /\ \/ /\ tries[j] < Retries(j)
          /\ pc' = [pc EXCEPT ![j] = IF @ = "schedule" THEN @ ELSE "waiting"]
          /\ tries' = [tries EXCEPT ![j] = @ + 1]
          /\ seen' = [seen EXCEPT ![j] = NewRow]
          /\ packed' = [packed EXCEPT ![j] = {}]
          /\ UNCHANGED <<eta, force, dropped>>
       \/ /\ tries[j] >= Retries(j)
          /\ Finish(j)
          /\ dropped' = TRUE
    /\ UNCHANGED <<photos, object, form, removing, edits>>

\* Mutant: tasks are acknowledged when they start.
CrashLosesTask(j) ==
    /\ pc[j] \in {"schedule", "loaded"} \cup InTry
    /\ CountFault
    /\ Finish(j)
    /\ UNCHANGED <<rowVars, webVars, keyAge>>

\* The worker dies; acks_late and reject_on_worker_lost deliver the task again.
Crash(j) ==
    /\ pc[j] \in {"schedule", "loaded"} \cup InTry
    /\ CountFault
    /\ keyAge' \in IF pc[j] = "schedule" THEN {0, keyAge} ELSE {keyAge}
    /\ pc' = [pc EXCEPT ![j] = IF @ = "schedule" THEN @ ELSE "waiting"]
    /\ seen' = [seen EXCEPT ![j] = NewRow]
    /\ packed' = [packed EXCEPT ![j] = {}]
    /\ UNCHANGED <<rowVars, webVars, eta, tries, force>>

\* A time unit passes.  Timing assumption: no unit passes between the hash and
\* the save that follows it, nor within the request that removes the archive.
Tick ==
    /\ \A j \in Job : pc[j] # "uploaded"
    /\ ~removing
    /\ keyAge' = IF keyAge < NoKey THEN keyAge + 1 ELSE NoKey
    /\ eta' = [j \in Job |-> IF pc[j] = "waiting" /\ eta[j] > 0 THEN eta[j] - 1 ELSE eta[j]]
    /\ UNCHANGED <<rowVars, webVars, pc, tries, force, seen, packed, faults>>

-----------------------------------------------------------------------------

\* The album is new, with downloads off, or its archive is up to date.
Init ==
    /\ photos \in SUBSET Photo
    /\ \/ /\ row = NewRow
          /\ object = NoZip
       \/ /\ photos # {}
          /\ row = [allow |-> TRUE, status |-> "ready", zip |-> TRUE, hash |-> photos]
          /\ object = photos
    /\ keyAge = NoKey
    /\ form = NoForm
    /\ removing = FALSE
    /\ pc = [j \in Job |-> "idle"]
    /\ eta = [j \in Job |-> 0]
    /\ tries = [j \in Job |-> 0]
    /\ force = [j \in Job |-> FALSE]
    /\ seen = [j \in Job |-> NewRow]
    /\ packed = [j \in Job |-> {}]
    /\ dropped = FALSE
    /\ edits = 0
    /\ faults = 0

Request ==
    \/ \E S \in OneRowAway : EditAlbumPhoto(S) \/ LoseAnnouncement(S)
    \/ \E p \in Photo : UploadToAlbum(p)
    \/ EnableDownloads
    \/ DisableDownloads
    \/ AdminLoad
    \/ Regenerate

\* What a request that has begun still has to do.
Respond ==
    \/ ClearZipFields
    \/ \E allow \in BOOLEAN, S \in SUBSET Photo : AdminSave(allow, S)

Work(j) ==
    \/ ScheduleZip(j)
    \/ LoadAlbum(j)
    \/ SkipDebounced(j)
    \/ SkipUnneeded(j)
    \/ StartGenerating(j)
    \/ FindNoPhotos(j)
    \/ PackPhotos(j)
    \/ DeleteOldZip(j)
    \/ UploadZip(j)
    \/ SaveZip(j)
    \/ DeleteKey(j)

Next ==
    \/ Request
    \/ Respond
    \/ \E j \in Job : Work(j) \/ Fail(j) \/ Crash(j)
    \/ Tick

Spec == Init /\ [][Next]_vars

\* Workers run what is queued, requests that began end, and time passes.
Fairness ==
    /\ \A j \in Job : WF_vars(Work(j))
    /\ WF_vars(Respond)
    /\ WF_vars(Tick)

FairSpec == Spec /\ Fairness

-----------------------------------------------------------------------------
(* Properties.                                                              *)

TaskTypeOK ==
    /\ pc \in [Job -> Step]
    /\ eta \in [Job -> 0..Delay]
    /\ tries \in [Job -> Nat]
    /\ force \in [Job -> BOOLEAN]
    /\ seen \in [Job -> Row]
    /\ packed \in [Job -> SUBSET Photo]

TypeOK ==
    /\ TaskTypeOK
    /\ row \in Row
    /\ photos \in SUBSET Photo
    /\ object \in {NoZip} \cup SUBSET Photo
    /\ keyAge \in 0..NoKey
    /\ form \in {NoForm} \cup Row
    /\ removing \in BOOLEAN
    /\ dropped \in BOOLEAN
    /\ edits \in 0..MaxEdits
    /\ faults \in 0..MaxFaults

\* The row's content is not the archive's: a non-forced task would rebuild it.
Stale == NeedsRegeneration(row)

\* A task that still waits for its countdown, so that what it will read is newer.
Later(j) == pc[j] = "schedule" \/ (pc[j] = "waiting" /\ eta[j] > 0)

\* A row that says "ready" names a file, though tasks and requests write the
\* status alone, the file alone, and both, from instances of different ages
\* (signals.py:22, tasks.py:152-202; download_album_zip tests both).
ReadyHasFile == row.status = "ready" => row.zip

\* While the debounce key makes generations skip, a generation is queued whose
\* countdown outlasts the key's effect, or the task that queues it is: the last
\* announcement of a burst is never the one that is skipped (tasks.py:126-135).
DebounceIsCovered ==
    DebounceInProgress =>
        \/ \E j \in Job : Later(j)
        \/ dropped

\* An album whose photos are not those of the recorded hash has a task to come
\* or under way, unless the change was never announced in one of the ways that
\* "dropped" names (signals.py:11-25, tasks.py:126-150).
StaleIsScheduled ==
    Stale => (\E j \in Job : pc[j] # "idle") \/ dropped

\* A stale album is rebuilt, or ceases to need it, or its change is lost in one
\* of the ways "dropped" names: retries, crashes and debouncing never leave it.
StaleIsRegenerated ==
    (Stale /\ ~dropped) ~> (~Stale \/ dropped)

=============================================================================

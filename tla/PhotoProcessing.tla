-------------------------- MODULE PhotoProcessing --------------------------
(***************************************************************************)
(* The processing of one uploaded photo (src/photos).  process_photo_async *)
(* loads an instance of the row, writes "processing", stores a thumbnail   *)
(* cropped at the focal point, and saves the whole instance back.  The     *)
(* admin's focal point editor and change form load and save whole          *)
(* instances too, and a management command processes instances it listed   *)
(* earlier.  A full save writes back columns as they were when loaded.     *)
(*                                                                         *)
(* The files keep their names (they are made of the photo's uuid), so what *)
(* is stored last is what is served.  A variant is told apart by the focal *)
(* point it was cropped at; metadata and hashes are left out.              *)
(***************************************************************************)
EXTENDS Integers

CONSTANTS
    Job,          \* slots for tasks and runs of the command
    Web,          \* admin requests that may be half done at the same time
    Point,        \* focal points an editor may choose
    Detected,     \* the focal point that detection finds
    NoPoint,      \* no focal point, or no file
    MaxRetries,   \* max_retries of process_photo_async
    MaxRequests,  \* bound: requests and runs of the command
    MaxFaults     \* bound: crashes and exceptions

ASSUME PointAssumption == Detected # NoPoint /\ NoPoint \notin Point

ASSUME BoundAssumption == MaxRetries \in Nat /\ MaxRequests \in Nat /\ MaxFaults \in Nat

VARIABLES
    row,      \* the photo's row: status, focal, override, variants (files are named)
    files,    \* the focal point that the stored thumbnail was cropped at
    pc,       \* pc[j]: how far slot j has come
    mode,     \* mode[j]: "task", "forced" (force=True) or "command"
    tries,    \* tries[j]: retries used
    inst,     \* inst[j]: the instance slot j works on
    web,      \* web[w]: what a request does with the instance held in held[w]
    held,     \* held[w]: that instance
    chosen,   \* history: the point last chosen, while the override is on
    lost,     \* history: a step that should lead to a processing led to none
    overlap,  \* history: two holders of instances overlapped
    requests, \* requests so far
    faults    \* faults so far

slotVars == <<pc, mode, tries, inst>>
webVars == <<web, held, chosen>>
vars == <<row, files, slotVars, webVars, lost, overlap, requests, faults>>

Focal == Point \cup {Detected, NoPoint}

Row == [status : {"pending", "processing", "complete", "failed"},
        focal : Focal,
        override : BOOLEAN,
        variants : BOOLEAN]

NewRow == [status |-> "pending", focal |-> NoPoint, override |-> FALSE, variants |-> FALSE]

Held == {"loaded", "processing", "processed"}

Busy(j) == pc[j] \in Held

\* An instance is taken while someone else holds one.
NoteOverlap(others) == overlap' = (overlap \/ others)

OthersHold == (\E j \in Job : Busy(j)) \/ (\E w \in Web : web[w] # "idle")

-----------------------------------------------------------------------------
(* Requests of the admin.                                                   *)

CountRequest == requests < MaxRequests /\ requests' = requests + 1

\* process_photo_async.delay(photo.pk, force=True); slot j takes the task.
QueueForced(j) ==
    /\ pc[j] = "idle"
    /\ pc' = [pc EXCEPT ![j] = "queued"]
    /\ mode' = [mode EXCEPT ![j] = "forced"]
    /\ tries' = [tries EXCEPT ![j] = 0]
    /\ UNCHANGED inst

\* A request loads the photo: the focal point editor ("focal") or the change
\* form, whose one editable column is the override ("form").
LoadInstance(w, kind) ==
    /\ CountRequest
    /\ web[w] = "idle"
    /\ web' = [web EXCEPT ![w] = kind]
    /\ held' = [held EXCEPT ![w] = row]
    /\ NoteOverlap(OthersHold)
    /\ UNCHANGED <<row, files, slotVars, chosen, lost, faults>>

Release(w) ==
    /\ web' = [web EXCEPT ![w] = "idle"]
    /\ held' = [held EXCEPT ![w] = NewRow]

\* Mutant: the editor queues a task that a complete photo makes skip.
SaveFocalPointUnforced(w, p) ==
    /\ web[w] = "focal"
    /\ Release(w)
    /\ row' = [held[w] EXCEPT !.focal = p, !.override = TRUE]
    /\ chosen' = p
    /\ \E j \in Job :
          /\ pc[j] = "idle"
          /\ pc' = [pc EXCEPT ![j] = "queued"]
          /\ UNCHANGED <<mode, tries, inst>>
    /\ UNCHANGED <<files, lost, overlap, requests, faults>>

\* update_focal_point_view: the whole instance is saved, and the task queued,
\* unless the broker refuses it.
SaveFocalPoint(w, p) ==
    /\ web[w] = "focal"
    /\ Release(w)
    /\ row' = [held[w] EXCEPT !.focal = p, !.override = TRUE]
    /\ chosen' = p
    /\ \/ /\ \E j \in Job : QueueForced(j)
          /\ UNCHANGED <<lost, faults>>
       \/ /\ faults < MaxFaults
          /\ faults' = faults + 1
          /\ lost' = TRUE
          /\ UNCHANGED slotVars
    /\ UNCHANGED <<files, overlap, requests>>

\* The change form saves the whole instance.  The status it brings back may be
\* one that no task will move on from.
SaveOverride(w, on) ==
    /\ web[w] = "form"
    /\ Release(w)
    /\ row' = [held[w] EXCEPT !.override = on]
    /\ chosen' = IF on THEN chosen ELSE NoPoint
    /\ lost' = (lost \/ held[w].status # row.status)
    /\ UNCHANGED <<files, slotVars, overlap, requests, faults>>

\* The reprocess_images admin action: the status alone is saved.
Reprocess ==
    /\ CountRequest
    /\ row' = [row EXCEPT !.status = "pending"]
    /\ \/ /\ \E j \in Job : QueueForced(j)
          /\ UNCHANGED <<lost, faults>>
       \/ /\ faults < MaxFaults
          /\ faults' = faults + 1
          /\ lost' = TRUE
          /\ UNCHANGED slotVars
    /\ UNCHANGED <<files, webVars, overlap>>

\* The reprocess_photos command lists the photos: it has an instance of each
\* from then on, whenever its turn comes.
ListForCommand(j) ==
    /\ CountRequest
    /\ pc[j] = "idle"
    /\ pc' = [pc EXCEPT ![j] = "loaded"]
    /\ mode' = [mode EXCEPT ![j] = "command"]
    /\ inst' = [inst EXCEPT ![j] = row]
    /\ NoteOverlap(OthersHold)
    /\ UNCHANGED <<row, files, tries, webVars, lost, faults>>

-----------------------------------------------------------------------------
(* Processing.                                                              *)

\* A processing ends, and its slot is free again.
Finish(j) ==
    /\ pc' = [pc EXCEPT ![j] = "idle"]
    /\ mode' = [mode EXCEPT ![j] = "task"]
    /\ tries' = [tries EXCEPT ![j] = 0]
    /\ inst' = [inst EXCEPT ![j] = NewRow]

\* Mutant: a photo that is being processed is skipped as well.
LoadOrSkipBusy(j) ==
    /\ pc[j] = "queued"
    /\ \/ /\ mode[j] = "task" /\ row.status \in {"processing", "complete"}
          /\ Finish(j)
          /\ UNCHANGED overlap
       \/ /\ ~(mode[j] = "task" /\ row.status \in {"processing", "complete"})
          /\ pc' = [pc EXCEPT ![j] = "loaded"]
          /\ inst' = [inst EXCEPT ![j] = row]
          /\ NoteOverlap(OthersHold)
          /\ UNCHANGED <<mode, tries>>
    /\ UNCHANGED <<row, files, webVars, lost, requests, faults>>

\* process_photo_async loads the photo, and skips one that is complete unless
\* it was queued with force.
LoadOrSkip(j) ==
    /\ pc[j] = "queued"
    /\ \/ /\ mode[j] = "task" /\ row.status = "complete"
          /\ Finish(j)
          /\ UNCHANGED overlap
       \/ /\ ~(mode[j] = "task" /\ row.status = "complete")
          /\ pc' = [pc EXCEPT ![j] = "loaded"]
          /\ inst' = [inst EXCEPT ![j] = row]
          /\ NoteOverlap(OthersHold)
          /\ UNCHANGED <<mode, tries>>
    /\ UNCHANGED <<row, files, webVars, lost, requests, faults>>

\* process_image_async writes the status, and only the status.
BeginProcessing(j) ==
    /\ pc[j] = "loaded"
    /\ pc' = [pc EXCEPT ![j] = "processing"]
    /\ row' = [row EXCEPT !.status = "processing"]
    /\ inst' = [inst EXCEPT ![j].status = "processing"]
    /\ UNCHANGED <<files, mode, tries, webVars, lost, overlap, requests, faults>>

\* The focal point that _process_image crops at: the instance's own when it is
\* an override and has a value, else the detected one.
FocalFor(i) == IF i.override /\ i.focal # NoPoint THEN i.focal ELSE Detected

\* _process_image: the files are stored, and the instance updated.
ProcessImage(j) ==
    /\ pc[j] = "processing"
    /\ pc' = [pc EXCEPT ![j] = "processed"]
    /\ inst' = [inst EXCEPT ![j].focal = FocalFor(inst[j]), ![j].variants = TRUE]
    /\ files' = FocalFor(inst[j])
    /\ UNCHANGED <<row, mode, tries, webVars, lost, overlap, requests, faults>>

\* The whole instance is saved as complete, over whatever the row holds by now.
Complete(j) ==
    /\ pc[j] = "processed"
    /\ row' = [inst[j] EXCEPT !.status = "complete"]
    /\ Finish(j)
    /\ UNCHANGED <<files, webVars, lost, overlap, requests, faults>>

-----------------------------------------------------------------------------
(* Faults.                                                                  *)

CountFault == faults < MaxFaults /\ faults' = faults + 1

\* Back in the queue: a retry, or a redelivery.
Requeue(j) ==
    /\ pc' = [pc EXCEPT ![j] = "queued"]
    /\ inst' = [inst EXCEPT ![j] = NewRow]
    /\ UNCHANGED mode

\* autoretry_for, with max_retries; the command has no retries.
MayRetry(j) == mode[j] # "command" /\ tries[j] < MaxRetries

\* An exception: within process_image_async's try block the row says "failed".
\* A task is retried until max_retries; the command goes on to the next photo.
Fail(j) ==
    /\ Busy(j)
    /\ CountFault
    /\ row' = IF pc[j] = "loaded" THEN row ELSE [row EXCEPT !.status = "failed"]
    /\ \/ /\ MayRetry(j)
          /\ Requeue(j)
          /\ tries' = [tries EXCEPT ![j] = @ + 1]
          /\ UNCHANGED lost
       \/ /\ ~MayRetry(j)
          /\ Finish(j)
          /\ lost' = (lost \/ pc[j] = "loaded")
    /\ UNCHANGED <<files, webVars, overlap, requests>>

\* The worker dies: acks_late delivers the task again; nobody restarts a command.
Crash(j) ==
    /\ Busy(j)
    /\ CountFault
    /\ \/ /\ mode[j] # "command"
          /\ Requeue(j)
          /\ UNCHANGED <<tries, lost>>
       \/ /\ mode[j] = "command"
          /\ Finish(j)
          /\ lost' = TRUE
    /\ UNCHANGED <<row, files, webVars, overlap, requests>>

-----------------------------------------------------------------------------

\* The photo was just inserted: its task is queued, unless the broker refused it.
Init ==
    /\ row = NewRow
    /\ files = NoPoint
    /\ \/ \E j \in Job :
             /\ pc = [k \in Job |-> IF k = j THEN "queued" ELSE "idle"]
             /\ lost = FALSE
       \/ /\ pc = [k \in Job |-> "idle"]
          /\ lost = TRUE
    /\ mode = [j \in Job |-> "task"]
    /\ tries = [j \in Job |-> 0]
    /\ inst = [j \in Job |-> NewRow]
    /\ web = [w \in Web |-> "idle"]
    /\ held = [w \in Web |-> NewRow]
    /\ chosen = NoPoint
    /\ overlap = FALSE
    /\ requests = 0
    /\ faults = 0

Respond(w) ==
    \/ \E p \in Point : SaveFocalPoint(w, p)
    \/ \E on \in BOOLEAN : SaveOverride(w, on)

Work(j) ==
    \/ LoadOrSkip(j)
    \/ BeginProcessing(j)
    \/ ProcessImage(j)
    \/ Complete(j)

Next ==
    \/ \E w \in Web, kind \in {"focal", "form"} : LoadInstance(w, kind)
    \/ Reprocess
    \/ \E w \in Web : Respond(w)
    \/ \E j \in Job : ListForCommand(j) \/ Work(j) \/ Fail(j) \/ Crash(j)

Spec == Init /\ [][Next]_vars

\* Workers run what is queued, and the command what it listed.
Fairness == \A j \in Job : WF_vars(Work(j))

FairSpec == Spec /\ Fairness

-----------------------------------------------------------------------------
(* Properties.                                                              *)

TypeOK ==
    /\ row \in Row
    /\ files \in Focal
    /\ pc \in [Job -> {"idle", "queued"} \cup Held]
    /\ mode \in [Job -> {"task", "forced", "command"}]
    /\ tries \in [Job -> 0..MaxRetries]
    /\ inst \in [Job -> Row]
    /\ web \in [Web -> {"idle", "focal", "form"}]
    /\ held \in [Web -> Row]
    /\ chosen \in Point \cup {NoPoint}
    /\ lost \in BOOLEAN
    /\ overlap \in BOOLEAN
    /\ requests \in 0..MaxRequests
    /\ faults \in 0..MaxFaults

Quiet == (\A j \in Job : pc[j] = "idle") /\ (\A w \in Web : web[w] = "idle")

\* A complete photo names its files, has a focal point, and its files exist,
\* though instances of every age are written over the row (models.py:199-205,
\* admin.py:814-817, photo_status_api).
CompleteHasFiles ==
    row.status = "complete" => row.variants /\ row.focal # NoPoint /\ files # NoPoint

\* A photo that is pending or processing has a task, or a run of the command, that
\* will move it on, unless one of the steps that "lost" names came in between
\* (tasks.py:16-52, models.py:199-209).
UnfinishedHasJob ==
    row.status \in {"pending", "processing"} => (\E j \in Job : pc[j] # "idle") \/ lost

\* When nothing overlapped, an editor's point is what the row and the thumbnail end
\* with: saving it, forcing a processing and skipping complete photos fit together
\* (admin.py:814-822, tasks.py:42, models.py:292-312).
ChosenPointIsUsed ==
    (Quiet /\ ~overlap /\ ~lost /\ row.status = "complete") =>
        /\ files = row.focal
        /\ chosen # NoPoint => row.focal = chosen

\* An unfinished photo becomes complete or failed, through retries, crashes,
\* redeliveries and skips, unless a step that "lost" names intervenes.
UnfinishedIsProcessed ==
    (row.status \in {"pending", "processing"} /\ ~lost)
        ~> (row.status \in {"complete", "failed"} \/ lost)

=============================================================================

---------------------------- MODULE PhotoUpload ----------------------------
(***************************************************************************)
(* Uploading photos and looking at them (src/photos).  An upload stores    *)
(* the file, looks for duplicates by hash, inserts the row, queues the     *)
(* processing and puts the photo in an album: five steps, in an order that *)
(* depends on the way in, without a transaction.  Admins delete and move   *)
(* photos and change the album meanwhile, a worker processes, visitors     *)
(* read the album first and its photos afterwards.                         *)
(*                                                                         *)
(* A file is told apart by its content; hashes are taken to be injective.  *)
(* There is one album.  How a photo's columns change while it is processed *)
(* is the module PhotoProcessing; here it matters that the worker holds an *)
(* instance, and saves it.                                                 *)
(***************************************************************************)
EXTENDS Integers, Sequences, FiniteSets, SequencesExt, FiniteSetsExt

CONSTANTS
    Photo,       \* uuids
    Content,     \* contents of files
    Distance,    \* Distance[c][d]: bits in which the perceptual hashes differ
    Size,        \* Size[c]: width and height
    Unreadable,  \* contents that are not an image to Pillow
    Sending,     \* the uploads that may come: how, content, add (to the album)
    Client,      \* uploads at once
    Worker,      \* workers that process
    Visitor,     \* visits at once
    None,        \* no row, no upload, no visit
    NoHash,      \* the empty hash
    Near,        \* threshold of similarity
    NearShown,   \* the one of the detail page
    MaxUploads,  \* bound: uploads
    MaxEdits,    \* bound: operations of admins
    MaxVisits,   \* bound: visits
    MaxFaults    \* bound: errors of storage, database and broker

ASSUME BoundAssumption ==
    /\ {Near, NearShown, MaxUploads, MaxEdits, MaxVisits, MaxFaults} \subseteq Nat
    /\ Near <= NearShown

ASSUME ContentAssumption ==
    /\ Distance \in [Content -> [Content -> Nat]]
    /\ \A c \in Content : Distance[c][c] = 0
    /\ \A c, d \in Content : Distance[c][d] = Distance[d][c]
    /\ Size \in [Content -> (Nat \ {0}) \X (Nat \ {0})]
    /\ Unreadable \subseteq Content /\ NoHash \notin Content

Status == {"pending", "processing", "complete", "failed"}

Row == [image : Content, file_hash : Content \cup {NoHash},
        perceptual_hash : Content \cup {NoHash}, status : Status]

\* The API; the bulk form with a task, and without.
Way == {"api", "bulk", "sync"}

ASSUME SendingAssumption == Sending \subseteq [how : Way, content : Content, add : BOOLEAN]

Stage == {"check", "insert", "queue", "add"}

\* partly: the form lists the photo as created, and the file among the errors.
Answer == {"created", "partly", "duplicate", "error"}

Held == [photo : Photo, row : Row]

UploadType == [how : Way, content : Content, photo : Photo, add : BOOLEAN,
               file_hash : Content \cup {NoHash}, perceptual_hash : Content \cup {NoHash},
               at : Stage]

AnswerType == [content : Content, add : BOOLEAN, queued : BOOLEAN, answer : Answer]

ASSUME SentinelAssumption == None \notin Row \cup Held \cup UploadType \cup AnswerType

\* A token is the album's share_token; a stranger has none.
Kind == {"stranger", "token", "staff"}

VARIABLES
    rows,     \* rows of Photo
    stored,   \* photos whose original file is in the storage
    members,  \* photos in the album
    album,    \* its columns
    queue,    \* photos with a process_photo_async task
    held,     \* held[w]: the photo and the instance that a worker processes
    up,       \* up[u]: an upload in progress
    visit,    \* visit[v]: a request that has read the album
    answers,  \* history: what the upload of a photo was answered
    excused,  \* history: photos whose check could not see a twin
    deleted,  \* history: photos that were deleted
    moved,    \* history: photos that an admin took out of the album
    exposed,  \* history: photos in the album while it was public
    sent,     \* history: photos that a stranger was sent
    uploads, edits, visits, faults

tables == <<rows, stored, members, album>>
work == <<queue, held>>
history == <<answers, excused, deleted, moved, exposed, sent>>
counters == <<uploads, edits, visits, faults>>
vars == <<tables, work, up, visit, history, counters>>

Fault == faults < MaxFaults /\ faults' = faults + 1

Edit == edits < MaxEdits /\ edits' = edits + 1

\* What strangers may see after a step.
Expose(private, ms) == exposed' = IF private THEN exposed ELSE exposed \cup ms

-----------------------------------------------------------------------------
(* Hashes and duplicates.                                                   *)

Rows == {p \in Photo : rows[p] # None}

PerceptualHash(c) == IF c \in Unreadable THEN NoHash ELSE c

\* compare_hashes: an empty hash is an error, and not similar.
CompareHashes(g, h, threshold) ==
    g # NoHash /\ h # NoHash /\ Distance[g][h] <= threshold

\* The two halves of find_duplicates' answer, over some of the rows.
ExactDuplicates(hash, ps) == {p \in ps : hash # NoHash /\ rows[p].file_hash = hash}

SimilarImages(c, ps) ==
    {p \in ps : CompareHashes(PerceptualHash(c), rows[p].perceptual_hash, Near)}
        \ ExactDuplicates(c, ps)

GetSimilarImages(p, threshold) ==
    {q \in Rows \ {p} :
        CompareHashes(rows[p].perceptual_hash, rows[q].perceptual_hash, threshold)}

\* The column "Duplicates" of the list of photos.
HasDuplicates(p) ==
    IF ExactDuplicates(rows[p].file_hash, Rows \ {p}) # {} THEN "exact"
    ELSE IF GetSimilarImages(p, Near) # {} THEN "similar" ELSE "unique"

\* Mutant: the filter counts equal hashes among the photos listed.
DuplicateIdsListed(listed) ==
    {p \in listed : ExactDuplicates(rows[p].file_hash, listed \ {p}) # {}}

\* Those of the photos listed whose hash more than one row has.
ExactDuplicateIds(listed) ==
    {p \in listed :
        /\ rows[p].file_hash # NoHash
        /\ Cardinality({q \in Rows : rows[q].file_hash = rows[p].file_hash}) > 1}

SimilarOnlyIds(listed) ==
    {p \in listed \ ExactDuplicateIds(listed) : GetSimilarImages(p, Near) # {}}

DuplicateFilter(value, listed) ==
    CASE value = "exact"   -> ExactDuplicateIds(listed)
      [] value = "similar" -> SimilarOnlyIds(listed)
      [] value = "unique"  -> listed \ (ExactDuplicateIds(listed) \cup SimilarOnlyIds(listed))

\* The action on the photos selected: their hashes that occur more than once.
FindDuplicates(selected) ==
    {h \in Content :
        Cardinality({p \in selected : rows[p].file_hash # NoHash /\ rows[p].file_hash = h}) > 1}

\* What the detail page lists: equal files, and similar images from afar.
DuplicateInfo(p) == ExactDuplicates(rows[p].file_hash, Rows \ {p})

SimilarImagesDisplay(p) == GetSimilarImages(p, NearShown)

-----------------------------------------------------------------------------
(* The thumbnail: the largest part of the image with the aspect of the      *)
(* target, as near to the focal point as the edges allow.                   *)

TargetSize == <<4, 3>>  \* in units of 100 pixels

\* A focal point is in Grid-ths of the width and of the height.
Grid == 4

NewSize(w, h) ==
    LET tw == TargetSize[1]
        th == TargetSize[2]
    IN IF w * th > h * tw THEN <<(h * tw) \div th, h>> ELSE <<w, (w * th) \div tw>>

\* Mutant: the left edge is kept inside the image, the right one is not.
ClampedLow(at, length, whole) == IF at < 0 THEN 0 ELSE IF at > whole THEN whole ELSE at

Clamped(at, length, whole) ==
    LET low == IF at < whole - length THEN at ELSE whole - length
    IN IF low < 0 THEN 0 ELSE low

\* left, top, right, bottom
SmartCrop(w, h, x, y) ==
    LET new == NewSize(w, h)
        left == Clamped(((x * w) \div Grid) - (new[1] \div 2), new[1], w)
        top == Clamped(((y * h) \div Grid) - (new[2] \div 2), new[2], h)
    IN <<left, top, left + new[1], top + new[2]>>

\* Where the detection, or an editor, may put the focal point; the centre if
\* there is no detection.
FocalPoints == (0..Grid) \X (0..Grid)

\* The preview is the whole image, the thumbnail the part around the focal point.
Variants(c, focal) ==
    [preview |-> <<0, 0, Size[c][1], Size[c][2]>>,
     thumbnail |-> SmartCrop(Size[c][1], Size[c][2], focal[1], focal[2])]

\* An empty part cannot be resized: the image cannot be processed.
Croppable(c) ==
    LET new == NewSize(Size[c][1], Size[c][2])
    IN c \notin Unreadable /\ new[1] > 0 /\ new[2] > 0

-----------------------------------------------------------------------------
(* Uploads.                                                                 *)

\* Mutant: the task is queued before the row is there.
StagesQueueFirst(how) ==
    IF how = "sync" THEN <<"check", "insert", "add">>
    ELSE <<"check", "queue", "insert", "add">>

Stages(how) ==
    IF how = "sync" THEN <<"check", "insert", "add">>
    ELSE <<"check", "insert", "queue", "add">>

NextStage(how, at) ==
    LET s == Stages(how) IN s[(CHOOSE i \in DOMAIN s : s[i] = at) + 1]

\* Every upload makes a Photo with a new uuid.
Fresh == {p \in Photo : rows[p] = None /\ answers[p] = None /\ p \notin deleted
                        /\ \A u \in Client : up[u] = None \/ up[u].photo # p}

\* The API stores the file first; the form leaves that to the insertion.
BeginUpload(u, s) ==
    /\ up[u] = None
    /\ uploads < MaxUploads /\ uploads' = uploads + 1
    /\ \E p \in Fresh :
          /\ up' = [up EXCEPT ![u] =
                      [how |-> s.how, content |-> s.content, photo |-> p, add |-> s.add,
                       file_hash |-> NoHash, perceptual_hash |-> NoHash, at |-> "check"]]
          /\ stored' = IF s.how = "api" THEN stored \cup {p} ELSE stored
    /\ UNCHANGED <<rows, members, album, work, visit, history, edits, visits, faults>>

AtStage(u, at) == up[u] # None /\ up[u].at = at

Proceed(u) == up' = [up EXCEPT ![u].at = NextStage(up[u].how, @)]

GiveAnswer(u, answer) ==
    /\ up' = [up EXCEPT ![u] = None]
    /\ answers' = [answers EXCEPT ![up[u].photo] =
                     [content |-> up[u].content, add |-> up[u].add,
                      queued |-> up[u].how # "sync", answer |-> answer]]

\* Mutant: an image that is only similar is refused as well.
IsDuplicateOrSimilar(c) == ExactDuplicates(c, Rows) # {} \/ SimilarImages(c, Rows) # {}

\* Mutant: photos that are not processed yet are not compared.
IsDuplicateOfComplete(c) == \E p \in ExactDuplicates(c, Rows) : rows[p].status = "complete"

IsDuplicate(c) == ExactDuplicates(c, Rows) # {}

\* Someone else uploads the same content.
TwinUnderWay(u) == \E o \in Client \ {u} : up[o] # None /\ up[o].content = up[u].content

\* _check_for_duplicates, or find_duplicates in the form.
CheckForDuplicates(u) ==
    /\ AtStage(u, "check")
    /\ IF IsDuplicate(up[u].content)
       THEN GiveAnswer(u, "duplicate") /\ UNCHANGED excused
       ELSE /\ up' = [up EXCEPT ![u].file_hash = up[u].content,
                                ![u].perceptual_hash = PerceptualHash(up[u].content),
                                ![u].at = NextStage(up[u].how, "check")]
            /\ excused' = IF TwinUnderWay(u) THEN excused \cup {up[u].photo} ELSE excused
            /\ UNCHANGED answers
    /\ UNCHANGED <<tables, work, visit, deleted, moved, exposed, sent, counters>>

\* Errors are printed: the hashes stay empty, or the rows are not looked at.
CheckFails(u) ==
    /\ AtStage(u, "check") /\ Fault
    /\ \E hash \in {NoHash, up[u].content} :
          up' = [up EXCEPT ![u].file_hash = hash,
                           ![u].perceptual_hash =
                               IF hash = NoHash THEN NoHash ELSE PerceptualHash(hash),
                           ![u].at = NextStage(up[u].how, "check")]
    /\ excused' = excused \cup {up[u].photo}
    /\ UNCHANGED <<tables, work, visit, answers, deleted, moved, exposed, sent, uploads, edits, visits>>

\* The form passes on the hashes as they are, and the columns take no NULL.
\* Without a task the image is processed first, which computes them again.
Inserted(u) ==
    [image |-> up[u].content, status |-> "pending",
     file_hash |-> IF up[u].how = "sync" THEN up[u].content ELSE up[u].file_hash,
     perceptual_hash |-> IF up[u].how = "sync" THEN PerceptualHash(up[u].content)
                         ELSE up[u].perceptual_hash]

HashMissing(u) ==
    up[u].how = "bulk" /\ NoHash \in {up[u].file_hash, up[u].perceptual_hash}

InsertPhoto(u) ==
    /\ AtStage(u, "insert")
    /\ IF HashMissing(u)
       THEN GiveAnswer(u, "error") /\ UNCHANGED rows
       ELSE /\ rows' = [rows EXCEPT ![up[u].photo] = Inserted(u)]
            /\ Proceed(u)
            /\ UNCHANGED answers
    /\ stored' = stored \cup {up[u].photo}
    /\ UNCHANGED <<members, album, work, visit,
                   excused, deleted, moved, exposed, sent, counters>>

QueueProcessing(u) ==
    /\ AtStage(u, "queue")
    /\ Proceed(u)
    /\ queue' = queue \cup {up[u].photo}
    /\ UNCHANGED <<tables, held, visit, history, counters>>

\* The form has listed the photo as created when it comes to the album; the API
\* answers at the end.
AlbumFailure(u) == IF up[u].how = "api" THEN "error" ELSE "partly"

\* A photo that was deleted meanwhile cannot be added.
AddToAlbum(u) ==
    /\ AtStage(u, "add")
    /\ IF up[u].add /\ up[u].photo \notin Rows
       THEN GiveAnswer(u, AlbumFailure(u)) /\ UNCHANGED members
       ELSE /\ members' = IF up[u].add THEN members \cup {up[u].photo} ELSE members
            /\ GiveAnswer(u, "created")
    /\ Expose(album.private, members')
    /\ UNCHANGED <<rows, stored, album, work, visit, excused, deleted, moved, sent, counters>>

\* Storage, database or broker raise: what was done stays.
UploadFails(u) ==
    /\ up[u] # None /\ up[u].at # "check" /\ Fault
    /\ up[u].at = "add" => up[u].add
    /\ GiveAnswer(u, IF up[u].at = "add" THEN AlbumFailure(u) ELSE "error")
    /\ UNCHANGED <<tables, work, visit, excused, deleted, moved, exposed, sent,
                   uploads, edits, visits>>

Upload ==
    \E u \in Client :
        \/ \E s \in Sending : BeginUpload(u, s)
        \/ CheckForDuplicates(u) \/ CheckFails(u) \/ InsertPhoto(u)
        \/ QueueProcessing(u) \/ AddToAlbum(u) \/ UploadFails(u)

-----------------------------------------------------------------------------
(* Processing, as far as the row's existence goes.                          *)

TaskFindsNoPhoto(p) ==
    /\ p \in queue \ Rows
    /\ queue' = queue \ {p}
    /\ UNCHANGED <<tables, held, up, visit, history, counters>>

BeginProcessing(w, p) ==
    /\ held[w] = None /\ p \in queue \cap Rows
    /\ queue' = queue \ {p}
    /\ rows' = [rows EXCEPT ![p].status = "processing"]
    /\ held' = [held EXCEPT ![w] = [photo |-> p, row |-> rows[p]]]
    /\ UNCHANGED <<stored, members, album, up, visit, history, counters>>

\* The instance with both hashes.
Processed(row) ==
    [row EXCEPT !.status = "complete", !.file_hash = row.image,
                !.perceptual_hash = PerceptualHash(row.image)]

Release(w) == held' = [held EXCEPT ![w] = None]

\* process_image_async saves the instance; if the row is gone, that inserts it
\* again, unless another photo has its content by now.
CompleteProcessing(w) ==
    /\ held[w] # None /\ Croppable(held[w].row.image)
    /\ LET p == held[w].photo
           twin == p \notin Rows /\ IsDuplicate(held[w].row.image)
       IN /\ rows' = IF twin THEN rows ELSE [rows EXCEPT ![p] = Processed(held[w].row)]
          /\ excused' = IF p \in Rows THEN excused ELSE excused \cup {p}
    /\ Release(w)
    /\ UNCHANGED <<stored, members, album, queue, up, visit,
                   answers, deleted, moved, exposed, sent, counters>>

\* An exception: the status is saved, if there is a row, and the task retried
\* a limited number of times.
ProcessingFails(w) ==
    /\ held[w] # None
    /\ IF Croppable(held[w].row.image) THEN Fault ELSE UNCHANGED faults
    /\ LET p == held[w].photo
       IN /\ rows' = IF p \in Rows THEN [rows EXCEPT ![p].status = "failed"] ELSE rows
          /\ queue' \in IF Croppable(held[w].row.image) THEN {queue, queue \cup {p}} ELSE {queue}
    /\ Release(w)
    /\ UNCHANGED <<stored, members, album, up, visit, history, uploads, edits, visits>>

Process ==
    \/ \E p \in Photo : TaskFindsNoPhoto(p)
    \/ \E w \in Worker :
          CompleteProcessing(w) \/ ProcessingFails(w) \/ \E p \in Photo : BeginProcessing(w, p)

-----------------------------------------------------------------------------
(* The admin.                                                               *)

\* The files stay in the storage; tasks stay in the queue.
DeletePhoto(p) ==
    /\ Edit /\ p \in Rows
    /\ rows' = [rows EXCEPT ![p] = None]
    /\ members' = members \ {p}
    /\ deleted' = deleted \cup {p}
    /\ UNCHANGED <<stored, album, work, up, visit, answers, excused, moved, exposed, sent,
                   uploads, visits, faults>>

EditAlbumPhotos(p) ==
    /\ Edit /\ p \in Rows
    /\ members' = IF p \in members THEN members \ {p} ELSE members \cup {p}
    /\ moved' = moved \cup {p}
    /\ Expose(album.private, members')
    /\ UNCHANGED <<rows, stored, album, work, up, visit, answers, excused, deleted, sent,
                   uploads, visits, faults>>

EditAlbum(private, downloads) ==
    /\ Edit
    /\ album' = [album EXCEPT !.private = private, !.downloads = downloads]
    /\ Expose(private, members)
    \* A request that has read the album goes on with what it read.
    /\ visit' = [v \in Visitor |-> IF visit[v] = None THEN None
                                   ELSE [visit[v] EXCEPT !.changed = TRUE]]
    /\ UNCHANGED <<rows, stored, members, work, up, answers, excused, deleted, moved, sent,
                   uploads, visits, faults>>

Administer ==
    \/ \E p \in Photo : DeletePhoto(p) \/ EditAlbumPhotos(p)
    \/ \E private, downloads \in BOOLEAN : EditAlbum(private, downloads)

-----------------------------------------------------------------------------
(* Visits.                                                                  *)

\* A token is looked up among private albums only.
Opens(kind) ==
    CASE kind = "token"    -> album.private
      [] kind = "staff"    -> TRUE
      [] kind = "stranger" -> ~ album.private

\* album_detail, photo_exif_api; download_photo, which asks for more.
Page == {"album", "exif", "download"}

OpenAlbum(v, kind, page) ==
    /\ visit[v] = None /\ visits < MaxVisits
    /\ visits' = visits + 1
    /\ Opens(kind) /\ (page = "download" => album.downloads)
    /\ visit' = [visit EXCEPT ![v] =
                   [kind |-> kind, page |-> page, count |-> album.count, changed |-> FALSE]]
    /\ UNCHANGED <<tables, work, up, history, uploads, edits, faults>>

\* Only views of the album's page with the token are counted.
CountAccess(v) ==
    /\ visit[v] # None /\ visit[v].kind = "token" /\ visit[v].page = "album"
    /\ visit[v].count # None
    /\ album' = [album EXCEPT !.count = visit[v].count + 1]
    /\ visit' = [visit EXCEPT ![v].count = None]
    /\ UNCHANGED <<rows, stored, members, work, up, history, counters>>

\* Mutant: any photo can be had through any open album.
SentToAny(page, p) ==
    IF page = "album" THEN members ELSE Rows \cap {p}

\* The page shows all photos; one photo must be a member by now.
Sent(page, p) ==
    IF page = "album" THEN members ELSE Rows \cap members \cap {p}

SendPhotos(v, p) ==
    /\ visit[v] # None
    /\ visit[v].kind = "token" /\ visit[v].page = "album" => visit[v].count = None
    /\ sent' = IF visit[v].kind # "stranger" THEN sent
               ELSE sent \cup {[photo |-> q, late |-> visit[v].changed] : q \in Sent(visit[v].page, p)}
    /\ visit' = [visit EXCEPT ![v] = None]
    /\ UNCHANGED <<tables, work, up, answers, excused, deleted, moved, exposed, counters>>

Visit ==
    \E v \in Visitor :
        \/ \E kind \in Kind, page \in Page : OpenAlbum(v, kind, page)
        \/ CountAccess(v)
        \/ \E p \in Photo : SendPhotos(v, p)

-----------------------------------------------------------------------------
Init ==
    /\ rows = [p \in Photo |-> None] /\ stored = {} /\ members = {}
    /\ \E private \in BOOLEAN : album = [private |-> private, downloads |-> TRUE, count |-> 0]
    /\ queue = {} /\ held = [w \in Worker |-> None]
    /\ up = [u \in Client |-> None] /\ visit = [v \in Visitor |-> None]
    /\ answers = [p \in Photo |-> None]
    /\ excused = {} /\ deleted = {} /\ moved = {} /\ exposed = {} /\ sent = {}
    /\ uploads = 0 /\ edits = 0 /\ visits = 0 /\ faults = 0

Next == Upload \/ Process \/ Administer \/ Visit

Spec == Init /\ [][Next]_vars

-----------------------------------------------------------------------------
(* Properties.                                                              *)

VisitType == [kind : Kind, page : Page, count : Nat \cup {None}, changed : BOOLEAN]

\* Every variable keeps its type.
TypeOK ==
    /\ rows \in [Photo -> Row \cup {None}]
    /\ {stored, members, queue, excused, deleted, moved, exposed} \subseteq SUBSET Photo
    /\ album \in [private : BOOLEAN, downloads : BOOLEAN, count : Nat]
    /\ held \in [Worker -> Held \cup {None}]
    /\ up \in [Client -> UploadType \cup {None}]
    /\ visit \in [Visitor -> VisitType \cup {None}]
    /\ answers \in [Photo -> AnswerType \cup {None}]
    /\ sent \subseteq [photo : Photo, late : BOOLEAN]
    /\ {uploads, edits, visits, faults} \subseteq Nat

\* Two photos of one content come only from uploads that overlapped, from a
\* check that failed, or from an instance saved after its row was deleted
\* (no column is unique: _check_for_duplicates, Photo.save).
TwinsOverlapped ==
    \A p, q \in Rows : p # q /\ rows[p].image = rows[q].image => {p, q} \cap excused # {}

\* Whatever an upload that was answered "created" or "duplicate" brought is in
\* the library: a photo has that content, unless one of it was deleted, whether its
\* upload had been answered by then or not.
AcceptedIsKept ==
    \A p \in Photo :
        answers[p] # None /\ answers[p].answer # "error" =>
            \/ \E q \in Rows : rows[q].image = answers[p].content
            \/ \E q \in deleted :
                  \/ answers[q] # None /\ answers[q].content = answers[p].content
                  \/ \E u \in Client : /\ up[u] # None /\ up[u].photo = q
                                       /\ up[u].content = answers[p].content

\* A photo that an answer lists as created has its file and a row, and will be
\* processed if a task was to do it.  It is in the album it was sent to, unless the
\* answer has the file among the errors as well (forms.py appends the photo to
\* "created" before it links it to the album).
CreatedIsWhole ==
    \A p \in Photo \ deleted :
        answers[p] # None /\ answers[p].answer \in {"created", "partly"} =>
            /\ p \in Rows \cap stored
            /\ answers[p].add /\ answers[p].answer = "created" => p \in members \cup moved
            /\ answers[p].queued /\ rows[p].status \in {"pending", "processing"} =>
                  p \in queue \/ \E w \in Worker : held[w] # None /\ held[w].photo = p

\* A stranger is sent only photos that were in the album while it was public,
\* unless the album was changed while the request was served (views.py).
SentWasExposed == \A s \in sent : s.photo \in exposed \/ s.late

\* The filter and the column of the list agree on every photo, whichever
\* photos are listed; the detail page and the action show what it announces.
FilterMatchesColumn ==
    /\ FindDuplicates(Rows) = {rows[p].file_hash : p \in DuplicateFilter("exact", Rows)}
    /\ \A listed \in SUBSET Rows, p \in Rows :
          p \in listed =>
             \A value \in {"exact", "similar", "unique"} :
                p \in DuplicateFilter(value, listed) <=> HasDuplicates(p) = value
    /\ \A p \in Rows :
          /\ HasDuplicates(p) = "exact" <=> DuplicateInfo(p) # {}
          /\ HasDuplicates(p) = "similar" => SimilarImagesDisplay(p) # {}

\* The thumbnail of a complete photo is a part of the image that is not empty
\* and holds the focal point, wherever that is (SmartCrop.smart_crop).
CompleteIsCropped ==
    \A p \in Rows : rows[p].status = "complete" =>
        \A focal \in FocalPoints :
            LET whole == Variants(rows[p].image, focal).preview
                part == Variants(rows[p].image, focal).thumbnail
                x == (focal[1] * whole[3]) \div Grid
                y == (focal[2] * whole[4]) \div Grid
            IN /\ 0 <= part[1] /\ part[1] < part[3] /\ part[3] <= whole[3]
               /\ 0 <= part[2] /\ part[2] < part[4] /\ part[4] <= whole[4]
               /\ part[1] <= x /\ x <= part[3] /\ part[2] <= y /\ y <= part[4]
=============================================================================

# TLA+ models of aaronspindler.com

The repository is a personal site written with Django, Celery, PostgreSQL and
Redis. Web requests answer from the database; whatever takes long goes to Celery
workers. Most of what can go wrong lies between the two: a request or a task
loads an instance of a row, works for a while, and saves some or all of its
columns; signals queue tasks; tasks are retried when they raise and delivered
again when their worker dies. The models below are about that.

## How the code runs

- `config/settings.py` sets `CELERY_TASK_ACKS_LATE` and
  `CELERY_TASK_REJECT_ON_WORKER_LOST`: a task whose worker dies is delivered
  again. `autoretry_for=(Exception,)` with `max_retries` runs a task again when it
  raises. There is no `ATOMIC_REQUESTS`: each save commits on its own, so every
  line between two saves is a place where other processes may step in.
- `Model.save()` without `update_fields` writes every column as it was when the
  instance was loaded, and inserts the row again when it is gone.
  `save(update_fields=...)` writes those columns alone.
- `post_save` and `post_delete` handlers run inside the request or the task that
  saves; bulk operations send none.

## Inventory

| component | state | operations | hard parts | model |
|---|---|---|---|---|
| Album ZIP archives (`photos/tasks.py`, `signals.py`, `admin.py`) | ZIP columns of the album, archive file, debounce key in the cache, queued tasks | edit of the album's photos, upload, downloads on or off, admin form, `schedule_zip_generation`, `generate_album_zip`, regenerate action | debounce against countdown, hash read after packing, stale instances, redelivery | `AlbumZip` |
| Photo processing (`photos/tasks.py`, `models.py`, `admin.py`, command) | status, focal point and variants of the row, stored files | task, forced task, command, focal point editor, change form | full saves of old instances, files shared by runs, retries | `PhotoProcessing` |
| Email verification and sending (`utils/views.py`, `tasks.py`, `models/notification.py`) | address row, messages, their tasks, configuration | add, verify, delete, unsubscribe, `send_email` | a row that is saved after it was removed, crash between sending and recording | `EmailVerification` |
| Photo upload and galleries (`photos/views.py`, `forms.py`, `models.py`, `image_utils.py`, `admin.py`) | photo rows with two hashes, stored originals, the album, task queue | upload API, bulk form, admin form, processing, deletion, album pages, duplicate filter and pages of the admin, smart crop | check then insert of duplicates, five steps of one upload, saves of deleted rows, privacy read before photos, rounding at borders | `PhotoUpload` |
| Comments and votes (`blog/`) | comments, votes, cached counts, moderation status, threads | post, reply, vote, edit, delete, moderate | counting and saving in two steps, votes saved after their removal, full saves by the admin, cascades | `Comments` |
| File ingestion (`feefifofunds/services/sequential_ingestor.py`, command) | files in two directories, rows in QuestDB | discover, check, delete, send, move | rows passed over and rows that raise, failure between sending and moving, two runs over one file, overwriting in the archive | `FileIngestion` |
| Coverage and gaps (`feefifofunds/services/coverage_tracker.py`, `gap_detector.py`, `completeness_reporter.py`, `tasks.py`, command `backfill_kraken_gaps`) | coverage ranges with their record counts, gap records, candles from files and from the API | update and merge of ranges, integrity check, incremental task, command, clean-up | a merge without a transaction, times with and without a zone, records left in a status or beyond the limit of a list, whole days of UTC against local midnight and a number of candles | `Coverage` |
| Uptime monitoring (`projects/ActionsUptime`) | monitors, statuses, requests handed to a Lambda function, notifications | task of each interval, check of a workflow, webhook, `ingest_requests`, the API's check | previous status read before the new one is stored, repeated and late deliveries, handler of exceptions | `Uptime` |
| Request tracking and bans (`utils/middleware.py`, `models/security.py`, `admin.py`, `tasks.py`) | addresses, fingerprints, bans, tracked requests, locations | `process_request` statement by statement, ban and unban actions, edits of a ban's targets, deletions, `geolocate_missing_ips` | several bans of one target, bans edited while a request is checked, two first requests, overlapping runs | `RequestTracking` |
| Knowledge graph (`blog/knowledge_graph.py`, commands, `tasks.py`) | links, graphs and neighbourhoods in the cache, stored pictures | build, look up, clear, rebuild, take a picture | two keys written apart, two releases on one cache, old picture deleted first | `KnowledgeGraph` |
| Pages, sitemaps, search, audits (`pages/`, `photos/sitemaps.py`, `utils/search.py`, `rebuild_search_index`, `utils/tasks.py`) | cached lists in layers, search rows and vectors, audits, badge | render, rebuild, `--clear`, search, audit with fallback and retries | lists cached from cached lists, `update_or_create` without a unique column | `SitePages` |
| Price sources (`feefifofunds/services/data_sources`, `kraken.py`, `data_source_router.py`, `decorators.py`, price commands) | time of the last request, remembered assets, cached results | paced requests with retries, commands over assets, days and gaps, plan of an ingestion | pacing against retries, ids remembered across databases, day arithmetic | `PriceSources` |
| Accounts, static pages, deployment, scripts | none of their own | | | not modelled |

The parts meet in few places. An upload ends in the task of
`PhotoProcessing`, and its change of the album is an announcement (or its loss) of
`AlbumZip`; the three look at one photo or album from three sides and each has the others'
steps as its inputs. Files that `FileIngestion` stores are the candles of `Coverage`, and the
assets it asks for are those of `PriceSources`. `EmailVerification` sends what `Uptime`
decides to say. Everything else meets through the database and the cache only.

## Modules

Each component has a module with its specification, an `MC` module with the
symmetry sets TLC uses, and a `.cfg` file with the instance. The proofs are in eight
modules: `AlbumZipProofs`, `PhotoProcessingProofs`, `PhotoUploadProofs` and `CoverageProofs` for
one component each, `BlogProofs` (`Comments`, `KnowledgeGraph`), `SiteProofs` (`EmailVerification`,
`SitePages`), `FundsProofs` (`FileIngestion`, `PriceSources`) and `MonitoringProofs`
(`RequestTracking`, `Uptime`) for two. Those four extend two specifications at once, so their second
has names of its own: `GraphInit`, `GraphNext`, `GraphSpec`, `GraphTypeOK` in `KnowledgeGraph`,
`Pages...` in `SitePages`, `Prices...` in `PriceSources`, `Uptime...` in `Uptime`.

Operators named in a comment as "Mutant" are not part of any specification: each is
the form an action would have with a plausible bug, kept beside the action to show
that the properties would notice.

### AlbumZip

One album. The row holds `allow`, `status`, `zip` (a file is named) and `hash`;
`photos` is what `AlbumPhoto` links; `object` is what the stored archive holds.
A slot of `Job` holds one chain of tasks: `schedule` (queued
`schedule_zip_generation`), `waiting` (queued `generate_album_zip` with `eta` left
of its countdown), then the points between the I/O operations of that task. `seen`
is the instance a task loaded, `form` the one an admin request loaded; every
`save(update_fields=...)` writes only its columns into `row`, and `AdminSave` writes
the whole `form`.

The content hash is the set it was computed from. This takes SHA-256 as free of
collisions and a photo's own `file_hash` as fixed. Time is a counter: `Delay`, `Slack`
and `Grace` stand for 30, 5 and 10 seconds, and only their order matters, which
`DebounceAssumption` states. The one timing assumption is in `Tick`: no time unit (some
seconds) passes between the hash and the save that follows it, nor inside the
request that removes the archive.

Some ways of losing a change are plain in the code: the broker refuses a message,
the upload API adds photos with a bulk insert that sends no signal, the admin's list
form switches downloads on without `update_fields`, retries run out. The history
variable `dropped` records that one of them happened since the last announcement,
and the properties say what holds otherwise. `DisableDownloads` and `EnableDownloads`
model the handler for saves with `update_fields`; they are entry points of the code that
nothing in the repository uses: neither a caller nor a test passes `allow_downloads` there, and
no hazard or mutant rests on them.

### PhotoProcessing

One photo, from the moment `upload_photo_api` inserted it. `Job` slots hold queued
or running tasks and runs of the command; `Web` requests hold instances in the focal
point editor or the change form. A stored file is told apart by the focal point it
was cropped at. `lost` names the steps after which no task moves the photo on: the
broker refused it, the command was killed, retries ran out before the row said
"failed", a form brought an old status back. `overlap` records that two holders of
instances overlapped.

### EmailVerification

One address, several users. A row is known by its number, and so is the one message
written for it. A request has two steps, load (or insert) and save (or delete, or
queue). `SaveVerified` inserts the row again when it is gone. `lost` names messages
that will not go out: the request died, the mail server's refusal was swallowed
(`fail_silently`), emails were off, retries ran out. `delivered` and `interrupted` count
what happened to each message.

### Comments

Comments with their status, parent and cached counts, and the rows of `CommentVote`.
`Web` requests are cut at every statement of `vote_comment`: load the comment
(`LoadComment`), look for the user's vote (`LookUp`), then `RemoveVote`, `Change` or `Create`
it, then count and save (`CountVotes`, `WriteCounts`): twice when the vote was saved,
as `CommentVote.save` counts and the view counts again, once when it was removed. `held`
is the vote instance, `seen` the counts about to be saved. The admin form (`LoadForm`,
`SaveForm`) saves the whole instance, with any status and any parent, and inserts the
comment again when it was deleted in between. Moderation and deletion are one
statement that matters each, and so one step. `Cascade` is the least set
closed under replies; it is defined without recursion, and also when the parents form
a cycle. `disturbed` names the comments whose last writer left wrong counts: it had
counted earlier votes, was cut off, or was the deletion of a user.

### FileIngestion and IngestionPromise

`IngestionPromise` is what the ingestion of candle files owes to its user: a file is new,
waiting, archived or deleted (or overwritten by another), it is archived only
when all of its rows of six fields or more were stored, and deleted only when it counts as
empty. Of shorter rows it promises nothing: the code passes over them (`len(row) < 6`,
`sequential_ingestor.py:240`), archives the file, and says nothing, so `Row` does the same
(`short`), and only a row of six fields that cannot be read raises (`BadRow`). `FileIngestion`
has the runs of `ingest_sequential` that keep it: `Start` is `discover_files`; `Take` and
`Abort` read the size of the next file in the command's loop; `Check`, `Delete`, `Open`,
`Row`, `Close`, `BadRow`, `Target` and `Move` are the file system and QuestDB operations of
`process_file`, in the order of the code; `Fail` is the handler around it. `PlaceOf` is the
refinement mapping: where a file is, read off the directories.

`inbox` is the directory of new files by name, `archive` that of ingested ones, whose names
may have the second of the move added. A file keeps its identity when its name
changes, so that a run may open one file and move another: `rushed` names the files
deposited under a name that a run was working on, and neither the promise nor the
invariants speak about those. The order in which a run takes its files (by ticker and
size) and the order of rows in a file are left open. A flushed row counts as stored:
what QuestDB does with it is outside this repository. Files appear in one step; a
copy that is still being written is not modelled.

### PhotoUpload

Photos of one library, an album they may be put in, and who meets them. `up[u]` is an
upload by one of three ways (API, bulk form, admin form), cut at each of its steps: hash,
look for duplicates, store the original, insert the row, put it in the album, queue the task.
`held[w]` is the instance a worker processes and saves whole; `visit[v]` a request that
has read the album and has yet to read the photos. A content stands for its SHA-256;
perceptual hashes lie at given distances (`Distance`), on both sides of the two limits the
code uses. `Variants` is the crop in integers, checked for images at the extremes of their
proportions and a grid of focal points. The history variables say what was answered,
deleted and exposed, and `excused` names the photos whose check could not have seen their
twin. The form lists a photo as created before it links it to the album, and when the link fails it
lists the file among the errors, too: that answer is "partly" (`AlbumFailure`), and counts as
accepted, but not as a promise that the photo is in the album.

### Coverage

One asset and interval over a few candles. `rows` are `DataCoverageRange`s with their record
counts, `tracker` is an update of them cut at each row that it writes or deletes, `gaps` are
`GapRecord`s, `work` the runs of `backfill_gaps_incremental`, `command` one of
`backfill_kraken_gaps`. `csv` and `api` are the candles in QuestDB by their source, so that a
candle from both counts twice. The integrity check is an operator over the same candles.

Two things about time are in the model because the code does not agree with itself about
them. Whether QuestDB's timestamps come back with a zone depends on the driver and the server
behind it, so `aware` is chosen in `Init`. With `USE_TZ` Django takes a time without a zone for local
time (`TIME_ZONE`, `AsLocal`): ranges are then stored `Behind` candles later, an
update of a row that exists raises (`UpdateRaises`), and only without a zone can the task
compare the last candle with `datetime.now()` at all (`BackfillGapsIncremental`). The command
takes days of UTC and asks Kraken for the candles since local midnight, as `.timestamp()` of a
time without a zone is that of local time (`Since`).

`get_fillable_gaps` lists the newest hundred records: `Offered` is that limit and `Ahead` what is
listed before a record. `IntegratedGapDetector`'s detection is left out, since nothing calls it and
it raises at the first gap (see below). `CutOff` is the step in which a merge dies with what it
holds, and `stranded` names the records whose task died: no code repairs the latter; what
the former forgot, the next update that completes covers again, which is what `UpdateRepairs` says.

### Uptime

One monitor, a plain endpoint or a workflow, with its statuses. A check is a task, its call
of the Lambda function, and one or more deliveries of the answer to the webhook; `web[h]`
is a webhook request cut at its statements, with the handler of exceptions. `alert` is what
the owner was told last. The Lambda function is external: it answers late, twice or with no
start time, and never answers if it fails. `disturbed` and `twice` record that answers
overtook each other, that one was handled twice, or that something failed. The webhook takes the
dates of certificates and domains as the text they were sent as, and an alert calls `strftime` on them:
with such a date `AlertFails` is what always happens, at no cost in failures; the
response is saved with a request that was deleted, and `ingest_requests` makes a second status of it. A
request that another delivery deleted between `exists()` and `first()` makes an error of
the server, and changes nothing.

### RequestTracking

`req[w]` goes through `process_request`: three checks of bans, then the rows of address and
fingerprint by `get_or_create`, then the tracked request. `banning[a]` is an admin action that
looks for a ban of each selected target before it makes one; deletions cascade as the foreign
keys say. `task[t]` is `geolocate_missing_ips` between its queries, with the answers of its
batches. A ban has one column for each kind of target, and `EditBan` is the admin's form, which may
change any of them. So a ban may begin and cease to be about a request while it is served:
`against` keeps pairs of a ban and a target that held when the request came and hold
still. A fingerprint is a function (`Sha256`) of the headers that count, without the address.

### KnowledgeGraph

`Site[release]` is what the posts of a release link to. `cache` holds links, the file's time they
were read at, complete graphs and neighbourhoods, each with its age. `job[w]` is a process
that builds one of these step by step, of whichever release its image has; a picture
is taken, its hash looked up, its row updated and its file replaced (`ScreenshotTask`), and
`ScreenshotView` is what visitors get. Errors of Redis and of reading a file that is there are
left out. A deploy goes forward
or back. A tick is longer than any build, and files of a release carry the time of its build.

### SitePages

Layers of caches (a list, and a page or sitemap rendered from it) over an album, a post and
the audits; `since` counts the ticks since each changed. The search index has rows and their
vectors, which `rebuild_search_index` writes in separate statements (`command`). The rebuild of
photos fails at the first photo, as their vectors need columns that migration 0020 removed; that of
albums succeeds (`RebuildGallery`). The nightly task that asks for the sitemaps has no action: its
test client names the host "testserver", which `ALLOWED_HOSTS` does not have, and every request of it is
refused before a cache is touched. The audit is
a task that tries one way to run Lighthouse, then another, then again.

### PriceSources

`doing[p]` is a command that fetches from Kraken, Massive or Finnhub, a function wrapped by
`api_call`, or a run of the ingestion that looks up assets; `wait`, `since` and `recent` are
its sleeping and its pacing; `known` what it remembers of `assets`. `plan` is a plan of
`DataSourceRouter` over the files and the reach of the API. Answers are data or not: prices
are left out, since none of these commands saves one (see below).

## Runs

Each module has one run.

| run | instance | distinct states | checks |
|---|---|---|---|
| `album_zip` | 1 photo, 2 slots, no retry of the scheduling and 1 of the generation, 2 requests, 1 fault, fair | 336,349 | `ReadyHasFile`, `DebounceIsCovered`, `StaleIsScheduled`, `StaleIsRegenerated` |
| `photo_processing` | 2 slots, 1 request at once, 2 points, 2 faults, fair | 236,679 | `UnfinishedHasJob`, `ChosenPointIsUsed`, `UnfinishedIsProcessed` |
| `upload_safety` | 2 photos, 3 contents, 2 clients, 1 worker, 1 visitor, 2 uploads, 1 edit, 1 visit, 1 fault | 815,405 | `TwinsOverlapped`, `AcceptedIsKept`, `CreatedIsWhole`, `SentWasExposed`, `FilterMatchesColumn`, `CompleteIsCropped` |
| `email_safety` | 2 users, 2 requests at once, 2 rows, 4 requests, 2 faults, fair | 66,875 | `NoNeedlessDuplicate`, `UnverifiedIsMailed`, `VerifiedWasMailed`, `QueuedIsSent` |
| `comments_safety` | 3 comments, 2 users, 2 requests at once, 5 requests, 1 fault | 549,690 | `OneVotePerUser`, `SettledCounts` |
| `ingest_safety` | 3 files, 2 names, 2 runs (one strict), 2 candles, 2 seconds, 1 fault | 2,510,064 | `ArchivedIsStored`, `OriginalsStay`, `KeepsPromise` |
| `coverage_safety` | 7 candles, 2 to a day, local midnight 1 later, Kraken serves 3, 1 record offered, 3 ranges, 2 records, 1 worker, 2 operations, 1 fault | 696,603 | `MergeKeepsCoverage`, `UpdateRepairs`, `RecordsAreOffered`, `FilledDaysAreWhole` |
| `uptime_safety` | 4 checks, 2 at once, 2 deliveries at once, 1 fault | 685,705 | `AnswerIsKeptOnce`, `OwnerKnows` |
| `requests_safety` | 1 address, 1 fingerprint, 1 agent and 1 pattern, 2 workers, 1 admin, 2 tasks, 2 bans, 2 requests, 2 edits, 1 fault | 1,619,902 | `BannedIsNotServed`, `LocationIsKept` |
| `knowledge_safety` | 2 processes, caches of 2 ticks, 1 deploy, 3 events | 2,181,288 | `DeploysShowUp`, `NeighbourhoodIsWhole`, `LatestPictureIsServed` |
| `pages_safety` | 1 request at once, 2 commands, 1 retry, 3 events | 3,018,978 | `ListsCatchUp`, `IndexIsWhole` |
| `prices_safety` | 2 processes, 2 tickers, 3 pairs, 2 intervals, 3 days, 3 attempts, 4 events | 176,790 | `RequestsArePaced`, `CommandsEnd`, `KnownIdsAreRows`, `PlanIsWhole` |

What the properties say, in the order of the table:

- An album whose photos are not those of its archive has a task to come, and is rebuilt, or
  its change was lost in a way `dropped` names; the debounce never swallows the last
  announcement; a row that says ready names a file.
- An unfinished photo has a task and is processed, or was lost in a way `lost` names; when
  nothing overlapped, the editor's focal point is what the thumbnail shows.
- Two photos of one content come from uploads that overlapped; an accepted upload is in the
  library and a created one is whole, unless it is listed as an error, too; strangers see what was
  public; filter, column and
  pages of the admin agree about duplicates; each thumbnail holds the focal point.
- A message repeats only after an interruption and goes out unless lost in a named way;
  whoever verifies an address had the message of this registration.
- One vote for each user and comment; the counts of a comment that rests are those of its
  votes, unless the last writer was late or cut off, or a voter was deleted.
- Of what is archived every row of six fields or more was stored; no archived original is replaced; the
  runs implement `IngestionPromise`.
- Merging forgets and invents no day; an update that completes covers all it found, whatever a merge
  that died has forgotten before, and leaves the integrity check only the count to complain of; every
  record is offered to somebody or waits for its turn; a gap reported as filled holds whole days, but
  for the first, which has what is left of it after local midnight.
- An accepted answer is kept, once; what the owner heard last is the present state.
- A ban that held against a request when it came, and holds against it still, keeps it out, however its
  targets are edited; a location once found stays.
- After a deploy every cache catches up in one period, or in two if it went back or met
  a process of the other release; a neighbourhood is whole; the last picture has its file.
- Each list follows its source once its layers could expire; each item is listed once and found
  by its present words.
- Of two requests within a source's delay the first was a retry, and there are never three; commands end;
  remembered ids are rows or were deleted; a plan covers each date asked for by one source.

### Bounds

Two slots, requests, workers or commands let one overtake another, which is what stale
instances, the debounce key, shared files and inserts without a unique column need; a third
only repeats it. Two users tell the owner of a row from its next owner, and two
rows of one address tell a registration from the one before. Three comments make a
reply to a reply; five requests are enough to post a comment,
cast a vote, remove it, cast another and save the first again. Three
files under two names fill a place in the archive, overwrite one there, and leave one
for a run to abort at; one candle is read, held by the `Sender` and flushed in separate
steps, and a second is on a row that is too short. Seven candles make ranges that overlap, touch and
lie in each other, days that are half covered, of UTC and of local time, and a past out of
Kraken's reach; of two records one is within what is offered and the other waits. Four checks are two
rounds, so that an answer of the first
may come after the second. Two bans let one expire while the other holds. Three
events of the knowledge graph are a deploy (two) and a build or picture; of the pages, an edit of the
album (two) and another, or an audit (three). Album, clock and caches take the smallest
values with the order of the real ones (`Delay`, `Slack` and `Grace` for 30, 5 and 10
seconds). One or two faults put a crash or a retry anywhere. The theorems hold without these bounds.

One photo in `album_zip` suffices for what it checks, as only "the same
photos or others" and "none or some" matter to a hash; two photos make the
liveness check too large.

`CHECK_DEADLOCK FALSE` stands where requests or operations are bounded and everything may
come to rest. `album_zip` checks deadlock: its clock always ticks.

### Fairness

A Celery worker runs what is queued and a command goes on (weak fairness of `Work` and of
`Step(p)`), a request that began ends (`Respond`), and time passes (`Tick`, `PassTime`). Nothing
obliges a user to act or a fault to happen. Weak fairness is enough: a queued task whose
countdown is over has a step to take until it takes it.

## Proofs

TLAPS proves these for every value of the constants, under the assumptions named in
the modules.

- `AlbumZipProofs`: `TypeOK`; `StaleIsScheduled` and `DebounceIsCovered` from the inductive
  `IInv`, which adds to the types: the debounce key is younger than its limit only
  while a task waits whose countdown outlasts it (`KeyInv`); a task that loaded
  an instance and found it current, found it so for the row (`HashInv`); a pending
  removal has cleared what it must (`RemovingInv`); and a stale row is covered
  (`CoverInv`). `StaleIsScheduled` alone is not inductive: whether a task
  may skip depends on the instance it loaded earlier and on the key's age.
  `ReadyHasFile` follows from `FileInv`, which extends it to every instance a form or
  a task holds.
- `PhotoProcessingProofs`: `TypeOK`, `UnfinishedHasJob`, `CompleteHasFiles`;
  `ChosenPointIsUsed` from `PointInv`: while nothing overlapped and nothing was lost, at most
  one request or job holds an instance, it is the row as it stands, and the point of
  the files is the row's unless a task is going to crop again. The property speaks of
  a photo at rest only, and so could not be carried from step to step by itself.
- `SiteProofs`, of `EmailVerification`: `TypeOK`; `NoNeedlessDuplicate` from `MailInv` (numbers above the
  last row are unused, one writer for each message, and the count agrees with the
  record at each point of the task); `VerifiedWasMailed`; `UnverifiedIsMailed` from
  `MailedInv`, which adds that a message that was transmitted, or is recorded as sent, went
  out or its loss is noted (`Accounted`); `OwnerIsKept`, an action property, from `OwnerInv`: all copies of
  one row name one owner.
- `BlogProofs`, of `Comments`: `TypeOK`, every invariant of the run and `VotesAreTheUsers`. `IInv` adds that a
  request writes a vote of its own user on its own comment (`RequestsKnow`), and
  that a number, in a row or in an instance a request still holds, stands for one user and
  comment (`RowsAreKnown`): without it a removed vote that is saved again could be
  somebody else's. `NoMoreVotesThanUsers` rests on an injection from the votes on a comment
  to the users. `SettledCounts` follows from `CountsFollow`: wrong counts are about
  to be written or noted.
- `FundsProofs`, of `FileIngestion`: every invariant of the run, `OriginalsStay`, and that `FileIngestion`
  implements `IngestionPromise` (`PromiseIsKept`: initial states map to initial states, each
  step to a step of the promise or to none). `IInv` adds what a run knows of the file it
  works on (`RunOK`): unless it is rushed, the file under the name is the one that was
  opened; each of its rows that is not short is unread, held by the `Sender` or stored; the plain name was
  free if it was chosen. `BystanderOK` shows that this survives the steps of others.
  `ArchivedIsStored` alone is not inductive, as a move says nothing about what was
  sent before it.

- `PhotoUploadProofs`: `TypeOK` and every invariant of the run, for any number of photos,
  contents, clients, workers and visitors. `StepKind` sums up what a step does to uploads, rows
  and instances, each action is shown to be of one kind, and the invariants are
  carried over kinds. `UploadInv`: a photo belongs to one upload, and its row, its instances and its
  answer agree on its content. `TwinInv`: an upload about to insert, and not excused, has
  its hash and sees no twin, in a row or in another upload at the same point.
  `AcceptedIsKept` follows from `Placed` and `Accepted`, which speak of any content an upload
  was answered for; `CreatedIsWhole` from `Scheduled` and `Created`: what was
  queued is awaited (`Awaited`) by the queue or a worker until it is processed.
  `CompleteIsCropped` rests on facts about the division that rounds the crop down
  (`NewSizeFits`, `ClampedFacts`, `FocalFits`), for images of all sizes, and on `CropInv`: an image
  that leaves nothing to crop never becomes complete. `SentWasExposed` follows from `ShownInv`.
  `FilterMatchesColumn` compares four ways of asking for duplicates, and holds in every
  state whose rows are finitely many, which is an invariant of its own.
- `MonitoringProofs`, of `RequestTracking`: `TypeOK` from `TypeInv`: a request whose address or fingerprint was
  not deleted meanwhile refers to rows that are there (`HoldsRows`), and a run of
  the task has something left to do (`HasWork`). `BannedIsNotServed` from `BansKeepOut`: each
  ban that `against` names holds still, the target it is named with is one of the request, and is not
  among those whose checks the request has passed. `LocationIsKept`, an action property, step by step.
- `CoverageProofs`: `TypeOK`, every invariant of the run, `MergeKeepsCoverage` and `UpdateRepairs`.
  `TrackerKnows` and `TaskHolds` strengthen the types: a task works on a record that is there, could be
  filled, and is nobody else's, which `RecordsAreOffered` needs. `FilledDaysAreWhole` follows from
  `Fetched`: for each claim the candles in Kraken's reach are stored from local midnight of its first
  day on, which makes every later day whole, for any length of day and any zone behind UTC.
  `MergeKeepsCoverage` and `UpdateRepairs` come from `MergeInv`: what the tracker holds has
  grown from the row it will be saved in, the rows on its list are as the table has them
  and start later, and what the update is about is covered, by rows or by what is held, from
  the upsert on. Without the first a deleted row could be one that was written since.
- `MonitoringProofs`, of `Uptime`: `UptimeTypeOK` from `UptimeTypes`, which has what the steps of
  a check, a delivery and a row know of each other (`ChecksFit`, `DeliveriesFit`, `StatusesFit`,
  `RequestsFit`): no more fetches begin than there are checks because those that began and those
  to come are counted together (`FetchesLeft`).
  `OwnerKnows` speaks of moments when no alert is on its way, and `OwnerInv` of all: the owner was told
  the most recent status (`Told`), or the task or delivery that found the difference has its
  alert before it (`Pending`). That alert must still say what the most recent row says, so
  rows have the outcome of their check (`StatusSame`), and one about to alert has a row
  (`AlertsHaveRow`). `AnswerIsKeptOnce` follows from `KeptInv` (an answer is a status, or its
  request is there, with the response once the function was told "accepted") and `OnceInv`: unless
  deliveries overlapped or one died, an answer is in one of four states, by its row,
  its request and the delivery at work (`Awaited`, `RowMade`, `RowOnly`, `RequestOnly`). Both
  hold until the monitor is deleted. `ingest_requests` moves every answered request
  at once, and the proof takes the order of the new rows as any that is one to one.
- `BlogProofs`, of `KnowledgeGraph`: `GraphTypeOK`, from jobs that have the shape their step needs
  (`TypeInv`). `LatestPictureIsServed` from `ShotInv`: of a hash that was not torn there are one row and one
  process storing a picture, and who is to create a row found none. `DeploysShowUp` from
  `FreshInv`, which dates everything by the last deploy: a process that follows the deploy reads
  links of the release (`JobsSound`), entries younger than the deploy are of the release
  (`EntriesFollow`), and a complete graph built from them is right a period later
  (`GraphsFollow`); while nothing is disturbed a time kept of the release vouches for the links kept
  with it at once (`NewestMetas`). `NeighbourhoodIsWhole` from `WalkInv`, for every depth
  and every site: with a distance for each post that was expanded, the queue is in the
  order of distances and spans two of them, each post in it was reached over one that is one
  step nearer, and each link of an expanded post is expanded, queued or at the border (`Walks`).
  The posts within a depth (`Within`) are a recursive function; that it is what the walk finds,
  level by level, is shown by a least counterexample (`WithinIs`).
- `SiteProofs`, of `SitePages`: `PagesTypeOK`. `ListsCatchUp` from `ListsInv`, for all times to live: what a
  cache holds was true within its age and the time the layer under it may keep what was true before
  (`Slack`), and so was what a request is about to store. `IndexIsWhole` from `IndexInv`: an
  item has one row, whoever is to insert it has no rival unless two had looked for it at
  once, and a row whose vector is not that of its content has it due, or was cut off.
- `FundsProofs`, of `PriceSources`: `PricesTypeOK`. `RequestsArePaced` from `PaceInv`, for every delay
  and number of
  attempts: what remains to sleep and what passed since the last request make a delay, and in
  a back-off every remembered request will be out of the delay when it ends. `KnownIdsAreRows` from
  `IdsInv`: a row has the id its ticker has come to. `PlanIsWhole` compares the periods of a plan
  date by date, for all periods and limits of the API.

What attempts at these proofs showed about the models:

- A history variable said for good that some merge had been cut off, and `MergeKeepsCoverage`
  was stated beside it; a second cut-off merge left it as it was, so with two faults the formula was
  false. The exception is now the step itself (`CutOff`).
- A merge that was cut off needs no repair of its own: the next update that completes takes the whole
  stretch from the
  first candle to the last. The proof of `UpdateRepairs` shows that this holds however the update and
  the ranges left behind lie to each other, and that the count is what stays wrong.
- `TwinsOverlapped` excused an instance of a worker as a twin under way, which it never has to be;
  `AcceptedIsKept` could be said of refused duplicates, too. Both were made stronger.
- `FilterMatchesColumn` needs the limit of the pages to be at least that of the filter
  (`Near <= NearShown`; the code has 5 and 10, `photos/admin.py:67` and `:677`).
- The badge task of a private workflow could store a status in `Uptime`, between its reading of the
  previous status and its end; the code returns before (`actions/tasks.py:14`). `CreateStatus` has
  the guard now (`Unseen`).
- The value for "none" must not be a row, a range or a record: `SentinelAssumption` says so for
  `PhotoUpload` and `Coverage`, as it did elsewhere.

Several theorems are about properties that no run lists: the type invariants of the twelve modules,
`CompleteHasFiles`, `OwnerIsKept`, `NothingDangles`, `NoMoreVotesThanUsers`,
`VotesAreTheUsers`, `OneEntryEach`. TLC found each of them to hold before it was proved, and the
strengthenings `MergeInv`, `TwinInv` and `BansKeepOut` on the instances of the runs.

Only model-checked: the four liveness properties `StaleIsRegenerated`, `UnfinishedIsProcessed`,
`QueuedIsSent` and `CommandsEnd`; liveness under fairness is out of the prover's reach. All safety
properties of all twelve modules are proved. The library's induction theorems take an operator,
which the provers cannot instantiate; the proofs take a least counterexample instead (`Least`, from
`WFMin` of `WellFoundedInduction`), for the least and the largest element of a set and for what
the recursive functions `MissingAmong` and `Within` return.

## What the code does not keep

While the models were written, the code was seen to differ from what its comments,
help texts or documentation say, or from what its callers need. The models have all of this as it is,
and the properties are stated so that they hold beside it.

Albums and photos
- A photo taken out of an album while its archive is packed stays in the archive, and the
  hash computed afterwards records it as current (`photos/tasks.py:191`; `photos/admin.py:963`:
  "regenerates automatically when photos change").
- An announcement whose generation finds the content unchanged leaves the status "pending" with no
  task (`photos/tasks.py:144`; `photos/models.py:441`: "Current status"), and
  downloads stay refused.
- A processing that began before the editor saved a focal point writes its own back
  (`photos/models.py:205`; `docs/apps/photos/photo-management.md:388`: "persist").
- A photo deleted while a worker processes it is inserted again by the worker's save. Refused
  duplicates leave their originals in the storage. The bulk form computes no hash
  for a file it could not read; a failure to link a photo lists it as created and as error. The
  synchronous way leaves a photo pending with no task when processing fails. An image one pixel
  wide is never processed. Links with a token answer 404 for public albums.
- `PhotoSitemap.priority` reads `obj.title`, which `Photo` does not have: the sitemap fails while
  the sitemap index does not (`photos/sitemaps.py:93`). The similarity shown is a share of 64 bits
  while the hash has 256.

Email, comments, requests
- A removed address is inserted again by a verification that had loaded it
  (`utils/views.py:111`, `:123`: "unsubscribed from all notifications"). A refused message counts
  as sent (`fail_silently`, `utils/tasks.py:50`).
- Two votes at once leave counts that are of neither (`blog/models.py:213`-`221`). The admin
  form accepts a parent below the comment itself.
- A ban that expired stays active and blocks a new one (`utils/admin.py:164`). Deleting a
  target deletes a ban with two targets. A check that fails lets the request in. More than 500
  addresses that cannot be located starve the older ones (`utils/tasks.py:149`). A path of more
  than 2048 characters is not tracked.

Monitoring
- Two checks that overlap alert twice in a row (README of ActionsUptime, line 32). A workflow
  in error is announced as recovered; private workflows are never announced; a conclusion of more than seven
  characters fails the insert. An alert about an answer with the date at which a certificate or a domain
  expires always raises, after the status was stored (`web/models.py:72`, `:73`); the handler inserts
  the request again, and `ingest_requests` stores the status a second time. `ingest_requests` fails as
  a whole while one request has no start time.

Funds
- The loop of `ingest_sequential` ends at a file that is gone (`ingest_sequential.py:149`;
  `docs/apps/feefifofunds/OPERATIONS.md:190`). A file of fewer than 100 bytes is deleted with its candles. Files
  of one name archived within one second overwrite each other. Rows of fewer than six fields are passed
  over without a word, and the file is archived as ingested (`sequential_ingestor.py:240`).
- `feefifofunds/tasks.py:188` calls a method that `KrakenDataSource` does not have: every
  fillable gap becomes failed (`OPERATIONS.md:547`). A filled record is never made again, a
  worker that dies leaves its record in backfilling. Records beyond the newest hundred are listed only
  after those before them have gone (`gap_detector.py:294`).
- A merge adds up the counts of ranges that share days, and `verify_coverage_integrity` reports a
  count mismatch from then on (`coverage_tracker.py:368`). A merge that is cut off forgets days
  until the next update that completes. If QuestDB's answers have no zone, an update of a range that
  exists raises and is logged; if they have one, the incremental task does.
- `IntegratedGapDetector` compares `datetime.now()`, which has no zone, with dates that have one
  (`gap_detector.py:200`, `models/ingestion.py:385`), and raises for each gap it finds.
- `backfill_kraken_gaps` asks for a day's candles from local midnight on (`kraken.py:101`): the first hours
  of the first day of a gap are never fetched, and the next run finds the same gap.
- Retries of a source are not paced, and `backfill_prices` makes a source for each asset, so
  Massive's delay never applies. `AssetPrice` has no field `asset`: the first price ends the
  command. The router makes parsers from a pair, which they do not take. An asset once
  remembered stays unclassified.

Site
- A post looked up by another spelling is cached as one without links; `_clear_caches` deletes
  keys made of dictionaries; graphs with errors are cached; `knowledge_graph_data` is never read.
- The nightly task that is to keep the sitemaps cached is refused: it asks as host "testserver"
  (`pages/tasks.py:18`; "This ensures the sitemap is always cached and fresh"). An empty album list
  counts as not cached. The rebuild of "all" ends at the first photo, whose vector names the columns title and
  description that photos no longer have, and after `--clear` books and projects are gone from the
  search; a removed post stays until then. Two audits share a directory.

## Not modelled

- Accounts and static pages are templates and settings of third-party packages. Deployment and
  scripts build and start the site; the Celery settings are in the models as crash and retry.
- Albums: deletion, names of archives by calendar day. Photos: replacing the image file.
- EXIF, decoding and encoding of images, the search for a focal point (the model takes any), the
  bits of a perceptual hash (distances are given), HTML and Markdown, ranking of results.
- SMS: `add_phone` is not reached on this site. Subscriptions, regions and timelines of
  ActionsUptime. The parsing of addresses and user agents. Prices and their formats.
- `IntegratedGapDetector`'s detection, which nothing calls and which raises for each gap it finds, and the
  completeness reporter, which only counts. The nightly task of the sitemaps, which is refused.
- `CacheManager`, the settings of connection pools, and the other decorators (rate limits, circuit
  breaker) are not called by the site; the progress reporter only prints.

## Plan

Every component that keeps state of its own has its module, and every safety property that a run
checks is proved for all values of the constants. What would come next:

1. More than one album, photo, monitor or asset in a model. The properties are about one each, and
   the theorems say nothing of steps that change two in one request (a photo in two albums).
2. Abstract specifications beside `IngestionPromise`: the answers of `Uptime` as a set to which each is
   added once, the archive of `AlbumZip` as what is rebuilt after each change. `OnceInv` and `CoverInv`
   are most of what a refinement would need.
3. What the models leave out, as listed above, when the code comes to use it: subscriptions and
   regions of ActionsUptime, `CacheManager`, text messages.

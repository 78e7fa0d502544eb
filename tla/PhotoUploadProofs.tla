-------------------------- MODULE PhotoUploadProofs --------------------------
(***************************************************************************)
(* Proofs about PhotoUpload, for any number of photos, clients, workers    *)
(* and visitors, and any contents, distances and sizes.                    *)
(***************************************************************************)
EXTENDS PhotoUpload, FiniteSetTheorems, TLAPS

-----------------------------------------------------------------------------
(* Types, one variable at a time.                                           *)

RowsOK == rows \in [Photo -> Row \cup {None}]

SetsOK ==
    /\ stored \subseteq Photo /\ members \subseteq Photo /\ queue \subseteq Photo
    /\ excused \subseteq Photo /\ deleted \subseteq Photo /\ moved \subseteq Photo
    /\ exposed \subseteq Photo

AlbumOK == album \in [private : BOOLEAN, downloads : BOOLEAN, count : Nat]

HeldOK == held \in [Worker -> Held \cup {None}]

UpOK == up \in [Client -> UploadType \cup {None}]

VisitOK == visit \in [Visitor -> VisitType \cup {None}]

AnswersOK == answers \in [Photo -> AnswerType \cup {None}]

SentOK == sent \subseteq [photo : Photo, late : BOOLEAN]

CountsOK == uploads \in Nat /\ edits \in Nat /\ visits \in Nat /\ faults \in Nat

LEMMA TypeParts ==
  /\ TypeOK <=> /\ RowsOK /\ SetsOK /\ AlbumOK /\ HeldOK /\ UpOK
                /\ VisitOK /\ AnswersOK /\ SentOK /\ CountsOK
  /\ TypeOK' <=> /\ RowsOK' /\ SetsOK' /\ AlbumOK' /\ HeldOK' /\ UpOK'
                 /\ VisitOK' /\ AnswersOK' /\ SentOK' /\ CountsOK'
  BY DEF TypeOK, RowsOK, SetsOK, AlbumOK, HeldOK, UpOK, VisitOK, AnswersOK, SentOK, CountsOK

LEMMA Sentinels ==
  /\ None \notin Row /\ None \notin Held /\ None \notin UploadType /\ None \notin AnswerType
  /\ NoHash \notin Content
  BY SentinelAssumption, ContentAssumption

-----------------------------------------------------------------------------
(* The stages of an upload.                                                 *)

LEMMA NextIs ==
  ASSUME NEW how, NEW i \in DOMAIN Stages(how),
         \A j \in DOMAIN Stages(how) : Stages(how)[j] = Stages(how)[i] => j = i
  PROVE  NextStage(how, Stages(how)[i]) = Stages(how)[i + 1]
  <1> DEFINE s == Stages(how)
             k == CHOOSE j \in DOMAIN s : s[j] = s[i]
  <1>1. k \in DOMAIN s /\ s[k] = s[i]
    OBVIOUS
  <1>2. k = i
    BY <1>1
  <1>3. QED
    BY <1>2 DEF NextStage

\* Only a task has a stage between the insertion and the album.
LEMMA NextStageFacts ==
  ASSUME NEW how \in Way
  PROVE  /\ NextStage(how, "check") = "insert"
         /\ NextStage(how, "insert") = IF how = "sync" THEN "add" ELSE "queue"
         /\ how # "sync" => NextStage(how, "queue") = "add"
  <1>1. CASE how = "sync"
    <2> DEFINE s == Stages(how)
    <2>1. s = <<"check", "insert", "add">>
      BY <1>1 DEF Stages
    <2>2. /\ DOMAIN s = 1..3 /\ s[1] = "check" /\ s[2] = "insert" /\ s[3] = "add"
      BY <2>1
    <2> HIDE DEF s
    <2>3. \A i, j \in DOMAIN s : s[i] = s[j] => i = j
      BY <2>2
    <2>4. \A i \in DOMAIN s : NextStage(how, s[i]) = s[i + 1]
      BY <2>3, NextIs DEF s
    <2>5. NextStage(how, s[1]) = s[1 + 1] /\ NextStage(how, s[2]) = s[2 + 1]
      BY <2>2, <2>4
    <2>6. QED
      BY <1>1, <2>2, <2>5
  <1>2. CASE how # "sync"
    <2> DEFINE s == Stages(how)
    <2>1. s = <<"check", "insert", "queue", "add">>
      BY <1>2 DEF Stages
    <2>2. /\ DOMAIN s = 1..4 /\ s[1] = "check" /\ s[2] = "insert"
          /\ s[3] = "queue" /\ s[4] = "add"
      BY <2>1
    <2> HIDE DEF s
    <2>3. \A i, j \in DOMAIN s : s[i] = s[j] => i = j
      BY <2>2
    <2>4. \A i \in DOMAIN s : NextStage(how, s[i]) = s[i + 1]
      BY <2>3, NextIs DEF s
    <2>5. /\ NextStage(how, s[1]) = s[1 + 1] /\ NextStage(how, s[2]) = s[2 + 1]
          /\ NextStage(how, s[3]) = s[3 + 1]
      BY <2>2, <2>4
    <2>6. QED
      BY <1>2, <2>2, <2>5
  <1>3. QED
    BY <1>1, <1>2

\* An upload that is answered is over; its photo has the answer, for good.
LEMMA AnswerFacts ==
  ASSUME UpOK, AnswersOK, NEW u \in Client, up[u] # None, NEW answer \in Answer,
         GiveAnswer(u, answer)
  PROVE  /\ UpOK' /\ AnswersOK'
         /\ up'[u] = None /\ \A v \in Client : v # u => up'[v] = up[v]
         /\ up[u].photo \in Photo
         /\ answers'[up[u].photo] # None
         /\ answers'[up[u].photo].content = up[u].content
         /\ answers'[up[u].photo].add = up[u].add
         /\ answers'[up[u].photo].queued = (up[u].how # "sync")
         /\ answers'[up[u].photo].answer = answer
         /\ \A p \in Photo : p # up[u].photo => answers'[p] = answers[p]
  <1> DEFINE new == [content |-> up[u].content, add |-> up[u].add,
                     queued |-> up[u].how # "sync", answer |-> answer]
  <1>1. up[u] \in UploadType
    BY DEF UpOK
  <1>2. /\ up[u].photo \in Photo /\ up[u].content \in Content /\ up[u].add \in BOOLEAN
    BY <1>1 DEF UploadType
  <1>3. new \in AnswerType
    BY <1>2 DEF AnswerType
  <1>4. /\ new.content = up[u].content /\ new.add = up[u].add
        /\ new.queued = (up[u].how # "sync") /\ new.answer = answer
    OBVIOUS
  <1>5. answers' = [answers EXCEPT ![up[u].photo] = new] /\ up' = [up EXCEPT ![u] = None]
    BY DEF GiveAnswer
  <1> HIDE DEF new
  <1>6. new # None
    BY <1>3, Sentinels
  <1>7. QED
    BY <1>2, <1>3, <1>4, <1>5, <1>6 DEF UpOK, AnswersOK

\* An upload goes on.
LEMMA UploadFacts ==
  ASSUME UpOK, NEW u \in Client, NEW new \in UploadType, up' = [up EXCEPT ![u] = new]
  PROVE  UpOK' /\ up'[u] = new /\ up'[u] # None /\ \A v \in Client : v # u => up'[v] = up[v]
  BY Sentinels DEF UpOK

\* An upload goes on to the next stage.
LEMMA ProceedFacts ==
  ASSUME UpOK, NEW u \in Client, up[u] # None, Proceed(u),
         up[u].at \in {"check", "insert"} \/ (up[u].at = "queue" /\ up[u].how # "sync")
  PROVE  /\ UpOK' /\ up'[u] # None /\ \A v \in Client : v # u => up'[v] = up[v]
         /\ up'[u].at = NextStage(up[u].how, up[u].at)
         /\ up'[u].how = up[u].how /\ up'[u].content = up[u].content
         /\ up'[u].photo = up[u].photo /\ up'[u].add = up[u].add
         /\ up'[u].file_hash = up[u].file_hash
         /\ up'[u].perceptual_hash = up[u].perceptual_hash
  <1>1. up[u] \in UploadType /\ up[u].how \in Way
    BY DEF UpOK, UploadType
  <1> DEFINE next == NextStage(up[u].how, up[u].at)
             new == [up[u] EXCEPT !.at = next]
  <1>2. next \in Stage
    BY <1>1, NextStageFacts DEF Stage
  <1>3. up' = [up EXCEPT ![u] = new]
    BY DEF Proceed
  <1> HIDE DEF next
  <1>4. /\ new \in UploadType /\ new.at = next
        /\ new.how = up[u].how /\ new.content = up[u].content /\ new.photo = up[u].photo
        /\ new.add = up[u].add /\ new.file_hash = up[u].file_hash
        /\ new.perceptual_hash = up[u].perceptual_hash
    BY <1>1, <1>2 DEF UploadType
  <1> HIDE DEF new
  <1>5. UpOK' /\ up'[u] = new /\ up'[u] # None /\ \A v \in Client : v # u => up'[v] = up[v]
    BY <1>3, <1>4, UploadFacts
  <1>6. QED
    BY <1>4, <1>5 DEF next

\* A check is over without a duplicate, or failed.
LEMMA CheckedFacts ==
  ASSUME UpOK, NEW u \in Client, up[u] # None,
         NEW hash \in Content \cup {NoHash}, NEW phash \in Content \cup {NoHash},
         up' = [up EXCEPT ![u].file_hash = hash, ![u].perceptual_hash = phash,
                          ![u].at = NextStage(up[u].how, "check")]
  PROVE  /\ UpOK' /\ up'[u] # None /\ \A v \in Client : v # u => up'[v] = up[v]
         /\ up'[u].at = "insert"
         /\ up'[u].how = up[u].how /\ up'[u].content = up[u].content
         /\ up'[u].photo = up[u].photo /\ up'[u].add = up[u].add
         /\ up'[u].file_hash = hash /\ up'[u].perceptual_hash = phash
  <1>1. up[u] \in UploadType /\ up[u].how \in Way
    BY DEF UpOK, UploadType
  <1>2. NextStage(up[u].how, "check") = "insert"
    BY <1>1, NextStageFacts
  <1> DEFINE new == [up[u] EXCEPT !.file_hash = hash, !.perceptual_hash = phash, !.at = "insert"]
  <1>3. up' = [up EXCEPT ![u] = new]
    BY <1>2
  <1>4. /\ new \in UploadType /\ new.at = "insert"
        /\ new.how = up[u].how /\ new.content = up[u].content /\ new.photo = up[u].photo
        /\ new.add = up[u].add /\ new.file_hash = hash /\ new.perceptual_hash = phash
    BY <1>1 DEF UploadType, Stage
  <1> HIDE DEF new
  <1>5. UpOK' /\ up'[u] = new /\ up'[u] # None /\ \A v \in Client : v # u => up'[v] = up[v]
    BY <1>3, <1>4, UploadFacts
  <1>6. QED
    BY <1>4, <1>5

LEMMA PerceptualHashType ==
  ASSUME NEW c \in Content \cup {NoHash}
  PROVE  PerceptualHash(c) \in Content \cup {NoHash}
  BY DEF PerceptualHash

\* The row that an upload inserts.
LEMMA InsertedFacts ==
  ASSUME UpOK, NEW u \in Client, up[u] # None
  PROVE  /\ Inserted(u) \in Row /\ Inserted(u) # None
         /\ Inserted(u).image = up[u].content /\ Inserted(u).status = "pending"
         /\ Inserted(u).file_hash = IF up[u].how = "sync" THEN up[u].content ELSE up[u].file_hash
  <1>1. up[u] \in UploadType
    BY DEF UpOK
  <1> DEFINE hash == IF up[u].how = "sync" THEN up[u].content ELSE up[u].file_hash
             phash == IF up[u].how = "sync" THEN PerceptualHash(up[u].content)
                      ELSE up[u].perceptual_hash
  <1>2. up[u].content \in Content /\ hash \in Content \cup {NoHash} /\ phash \in Content \cup {NoHash}
    BY <1>1, PerceptualHashType DEF UploadType
  <1> HIDE DEF hash, phash
  <1> DEFINE new == [image |-> up[u].content, status |-> "pending", file_hash |-> hash,
                     perceptual_hash |-> phash]
  <1>3. new \in Row /\ new.image = up[u].content /\ new.status = "pending" /\ new.file_hash = hash
    BY <1>2 DEF Row, Status
  <1>4. Inserted(u) = new
    BY DEF Inserted, hash, phash
  <1> HIDE DEF new
  <1>5. QED
    BY <1>3, <1>4, Sentinels DEF hash

\* The instance that a worker saves.
LEMMA ProcessedFacts ==
  ASSUME NEW row \in Row
  PROVE  /\ Processed(row) \in Row /\ Processed(row) # None
         /\ Processed(row).image = row.image /\ Processed(row).status = "complete"
         /\ Processed(row).file_hash = row.image
  <1>1. row.image \in Content /\ PerceptualHash(row.image) \in Content \cup {NoHash}
    BY PerceptualHashType DEF Row
  <1> DEFINE new == [row EXCEPT !.status = "complete", !.file_hash = row.image,
                                !.perceptual_hash = PerceptualHash(row.image)]
  <1>2. /\ new \in Row /\ new.image = row.image /\ new.status = "complete"
        /\ new.file_hash = row.image
    BY <1>1 DEF Row, Status
  <1>3. Processed(row) = new
    BY DEF Processed
  <1> HIDE DEF new
  <1>4. QED
    BY <1>2, <1>3, Sentinels

\* A row changes its status.
LEMMA StatusFacts ==
  ASSUME RowsOK, NEW p \in Photo, rows[p] # None, NEW status \in Status,
         rows' = [rows EXCEPT ![p].status = status]
  PROVE  /\ RowsOK' /\ \A q \in Photo : q # p => rows'[q] = rows[q]
         /\ rows'[p] # None /\ rows'[p].image = rows[p].image /\ rows'[p].status = status
         /\ rows'[p].file_hash = rows[p].file_hash
  <1>1. rows[p] \in Row
    BY DEF RowsOK
  <1> DEFINE new == [rows[p] EXCEPT !.status = status]
  <1>2. /\ new \in Row /\ new.image = rows[p].image /\ new.status = status
        /\ new.file_hash = rows[p].file_hash
    BY <1>1 DEF Row
  <1>3. rows' = [rows EXCEPT ![p] = new]
    OBVIOUS
  <1> HIDE DEF new
  <1>4. QED
    BY <1>2, <1>3, Sentinels DEF RowsOK

\* A row is written.
LEMMA WriteFacts ==
  ASSUME RowsOK, NEW p \in Photo, NEW row \in Row, rows' = [rows EXCEPT ![p] = row]
  PROVE  RowsOK' /\ rows'[p] = row /\ rows'[p] # None /\ \A q \in Photo : q # p => rows'[q] = rows[q]
  BY Sentinels DEF RowsOK

LEMMA ReleaseFacts ==
  ASSUME HeldOK, NEW w \in Worker, held[w] # None
  PROVE  /\ held[w].photo \in Photo /\ held[w].row \in Row
         /\ Release(w) => /\ HeldOK' /\ held'[w] = None
                          /\ \A v \in Worker : v # w => held'[v] = held[v]
  <1>1. held[w] \in Held
    BY DEF HeldOK
  <1>2. held[w].photo \in Photo /\ held[w].row \in Row
    BY <1>1 DEF Held
  <1>3. QED
    BY <1>2 DEF HeldOK, Release

\* A worker takes an instance.
LEMMA TakeFacts ==
  ASSUME HeldOK, RowsOK, NEW w \in Worker, NEW p \in Photo, rows[p] # None,
         held' = [held EXCEPT ![w] = [photo |-> p, row |-> rows[p]]]
  PROVE  /\ HeldOK' /\ \A v \in Worker : v # w => held'[v] = held[v]
         /\ held'[w] # None /\ held'[w].photo = p /\ held'[w].row = rows[p]
  <1> DEFINE new == [photo |-> p, row |-> rows[p]]
  <1>1. rows[p] \in Row
    BY DEF RowsOK
  <1>2. new \in Held /\ new.photo = p /\ new.row = rows[p]
    BY <1>1 DEF Held
  <1> HIDE DEF new
  <1>3. held' = [held EXCEPT ![w] = new]
    BY DEF new
  <1>4. QED
    BY <1>2, <1>3, Sentinels DEF HeldOK

-----------------------------------------------------------------------------
(* The kinds of steps: what each does to the rows, the instances that are   *)
(* held, the uploads, their answers and the histories, photo by photo.      *)

OthersGoOn(u) == \A v \in Client : v # u => up'[v] = up[v]

SameUpload(u) ==
    /\ up'[u] # None /\ up'[u].photo = up[u].photo /\ up'[u].content = up[u].content
    /\ up'[u].how = up[u].how /\ up'[u].add = up[u].add

Starts(u, p) ==
    /\ up[u] = None /\ p \in Fresh
    /\ up'[u] # None /\ up'[u].photo = p /\ up'[u].at = "check" /\ OthersGoOn(u)
    /\ stored \subseteq stored'
    /\ UNCHANGED <<rows, members, queue, held, answers, excused, deleted, moved>>

Passes(u) ==
    /\ up[u] # None /\ up[u].at = "check"
    /\ SameUpload(u) /\ up'[u].at = "insert" /\ OthersGoOn(u)
    /\ excused \subseteq excused'
    /\ \/ up[u].photo \in excused' /\ up'[u].file_hash \in {NoHash, up[u].content}
       \/ /\ ~ IsDuplicate(up[u].content) /\ up'[u].file_hash = up[u].content
          /\ TwinUnderWay(u) => up[u].photo \in excused'
    /\ UNCHANGED <<rows, stored, members, queue, held, answers, deleted, moved>>

Inserts(u) ==
    /\ up[u] # None /\ up[u].at = "insert"
    /\ SameUpload(u) /\ OthersGoOn(u)
    /\ up'[u].at = IF up[u].how = "sync" THEN "add" ELSE "queue"
    /\ rows'[up[u].photo] # None
    /\ rows'[up[u].photo].image = up[u].content /\ rows'[up[u].photo].status = "pending"
    /\ rows'[up[u].photo].file_hash =
          IF up[u].how = "sync" THEN up[u].content ELSE up[u].file_hash
    /\ \A q \in Photo : q # up[u].photo => rows'[q] = rows[q]
    /\ stored \subseteq stored' /\ up[u].photo \in stored'
    /\ UNCHANGED <<members, queue, held, answers, excused, deleted, moved>>

Queues(u) ==
    /\ up[u] # None /\ up[u].at = "queue" /\ up[u].how # "sync"
    /\ SameUpload(u) /\ up'[u].at = "add" /\ OthersGoOn(u)
    /\ queue' = queue \cup {up[u].photo}
    /\ UNCHANGED <<rows, stored, members, held, answers, excused, deleted, moved>>

Ends(u, answer) ==
    /\ up[u] # None /\ up'[u] = None /\ OthersGoOn(u)
    /\ answers'[up[u].photo] # None
    /\ answers'[up[u].photo].content = up[u].content
    /\ answers'[up[u].photo].add = up[u].add
    /\ answers'[up[u].photo].queued = (up[u].how # "sync")
    /\ answers'[up[u].photo].answer = answer
    /\ \A p \in Photo : p # up[u].photo => answers'[p] = answers[p]
    /\ answer = "duplicate" => IsDuplicate(up[u].content)
    /\ answer \in {"created", "partly"} => up[u].at = "add"
    /\ answer = "created" /\ up[u].add => up[u].photo \in members'
    /\ stored \subseteq stored' /\ members \subseteq members'
    /\ UNCHANGED <<rows, queue, held, excused, deleted, moved>>

Takes(w, p) ==
    /\ held[w] = None /\ p \in Rows
    /\ held'[w] # None /\ held'[w].photo = p /\ held'[w].row = rows[p]
    /\ \A v \in Worker : v # w => held'[v] = held[v]
    /\ rows'[p] # None /\ rows'[p].image = rows[p].image /\ rows'[p].status = "processing"
    /\ rows'[p].file_hash = rows[p].file_hash
    /\ \A q \in Photo : q # p => rows'[q] = rows[q]
    /\ queue' = queue \ {p}
    /\ UNCHANGED <<stored, members, up, answers, excused, deleted, moved>>

Released(w) == held'[w] = None /\ \A v \in Worker : v # w => held'[v] = held[v]

Saves(w, p, c) ==
    /\ held[w] # None /\ held[w].photo = p /\ held[w].row.image = c /\ Released(w)
    /\ Croppable(c)
    /\ \/ p \notin Rows /\ rows' = rows
       \/ /\ rows'[p] # None /\ rows'[p].image = c /\ rows'[p].status = "complete"
          /\ rows'[p].file_hash = c
          /\ \A q \in Photo : q # p => rows'[q] = rows[q]
    /\ excused \subseteq excused' /\ (p \in Rows \/ p \in excused')
    /\ UNCHANGED <<stored, members, queue, up, answers, deleted, moved>>

Fails(w, p) ==
    /\ held[w] # None /\ held[w].photo = p /\ Released(w)
    /\ \/ p \notin Rows /\ rows' = rows
       \/ /\ p \in Rows /\ rows'[p] # None
          /\ rows'[p].image = rows[p].image /\ rows'[p].status = "failed"
          /\ rows'[p].file_hash = rows[p].file_hash
          /\ \A q \in Photo : q # p => rows'[q] = rows[q]
    /\ queue \subseteq queue'
    /\ UNCHANGED <<stored, members, up, answers, excused, deleted, moved>>

Deletes(p) ==
    /\ p \in Rows /\ rows'[p] = None
    /\ \A q \in Photo : q # p => rows'[q] = rows[q]
    /\ deleted' = deleted \cup {p} /\ members' = members \ {p}
    /\ UNCHANGED <<stored, queue, held, up, answers, excused, moved>>

Aside ==
    /\ members \subseteq members' \cup moved' /\ moved \subseteq moved'
    /\ queue \cap Rows \subseteq queue'
    /\ UNCHANGED <<rows, stored, held, up, answers, excused, deleted>>

StepKind ==
    \/ \E u \in Client :
         \/ \E p \in Photo : Starts(u, p)
         \/ Passes(u) \/ Inserts(u) \/ Queues(u)
         \/ \E answer \in Answer : Ends(u, answer)
    \/ \E w \in Worker, p \in Photo :
         Takes(w, p) \/ Fails(w, p) \/ \E c \in Content : Saves(w, p, c)
    \/ \E p \in Photo : Deletes(p)
    \/ Aside

\* Uploads without a task have no task to queue.
QueueStage == \A u \in Client : up[u] # None /\ up[u].at = "queue" => up[u].how # "sync"

TypeInv == TypeOK /\ QueueStage

LEMMA Parts ==
  ASSUME TypeInv
  PROVE  /\ RowsOK /\ SetsOK /\ AlbumOK /\ HeldOK /\ UpOK
         /\ VisitOK /\ AnswersOK /\ SentOK /\ CountsOK /\ QueueStage
  BY TypeParts DEF TypeInv

LEMMA Counted ==
  ASSUME CountsOK, Fault
  PROVE  faults' \in Nat
  BY DEF CountsOK, Fault

LEMMA BeginUploadStep ==
  ASSUME TypeInv, NEW u \in Client, NEW s \in Sending, BeginUpload(u, s)
  PROVE  TypeInv' /\ \E p \in Photo : Starts(u, p)
  <1> USE Parts
  <1>1. /\ up[u] = None /\ uploads' = uploads + 1
        /\ UNCHANGED <<rows, members, album, queue, held, visit, answers, excused, deleted,
                       moved, exposed, sent, edits, visits, faults>>
    BY DEF BeginUpload, work, history
  <1>2. PICK p \in Fresh :
          /\ up' = [up EXCEPT ![u] =
                      [how |-> s.how, content |-> s.content, photo |-> p, add |-> s.add,
                       file_hash |-> NoHash, perceptual_hash |-> NoHash, at |-> "check"]]
          /\ stored' = IF s.how = "api" THEN stored \cup {p} ELSE stored
    BY DEF BeginUpload
  <1>3. p \in Photo
    BY DEF Fresh
  <1> DEFINE new == [how |-> s.how, content |-> s.content, photo |-> p, add |-> s.add,
                     file_hash |-> NoHash, perceptual_hash |-> NoHash, at |-> "check"]
  <1>4. new \in UploadType /\ new.photo = p /\ new.at = "check"
    <2>1. s \in [how : Way, content : Content, add : BOOLEAN]
      BY SendingAssumption
    <2>2. QED
      BY <1>3, <2>1 DEF UploadType, Stage
  <1>5. up' = [up EXCEPT ![u] = new]
    BY <1>2
  <1> HIDE DEF new
  <1>6. UpOK' /\ up'[u] = new /\ up'[u] # None /\ OthersGoOn(u)
    BY <1>4, <1>5, UploadFacts DEF OthersGoOn
  <1>7. Starts(u, p)
    BY <1>1, <1>2, <1>4, <1>6 DEF Starts
  <1>8. QueueStage'
    BY <1>4, <1>6 DEF QueueStage, OthersGoOn
  <1>9. RowsOK' /\ SetsOK' /\ AlbumOK' /\ HeldOK' /\ VisitOK' /\ AnswersOK' /\ SentOK' /\ CountsOK'
    BY <1>1, <1>2, <1>3 DEF RowsOK, SetsOK, AlbumOK, HeldOK, VisitOK, AnswersOK, SentOK, CountsOK
  <1>10. QED
    BY <1>3, <1>6, <1>7, <1>8, <1>9, TypeParts DEF TypeInv

\* An upload that ends with an answer, and what else that step may do.
LEMMA EndStep ==
  ASSUME TypeInv, NEW u \in Client, up[u] # None, NEW answer \in Answer, GiveAnswer(u, answer),
         answer = "duplicate" => IsDuplicate(up[u].content),
         answer \in {"created", "partly"} => up[u].at = "add",
         answer = "created" /\ up[u].add => up[u].photo \in members',
         stored \subseteq stored', members \subseteq members',
         UNCHANGED <<rows, queue, held, excused, deleted, moved>>
  PROVE  UpOK' /\ AnswersOK' /\ QueueStage' /\ \E a \in Answer : Ends(u, a)
  <1>1. /\ UpOK' /\ AnswersOK'
        /\ up'[u] = None /\ OthersGoOn(u)
        /\ answers'[up[u].photo] # None
        /\ answers'[up[u].photo].content = up[u].content
        /\ answers'[up[u].photo].add = up[u].add
        /\ answers'[up[u].photo].queued = (up[u].how # "sync")
        /\ answers'[up[u].photo].answer = answer
        /\ \A p \in Photo : p # up[u].photo => answers'[p] = answers[p]
    BY Parts, AnswerFacts DEF OthersGoOn
  <1>2. QueueStage'
    BY <1>1, Parts DEF QueueStage, OthersGoOn
  <1>3. Ends(u, answer)
    BY <1>1 DEF Ends
  <1>4. QED
    BY <1>1, <1>2, <1>3

LEMMA CheckStep ==
  ASSUME TypeInv, NEW u \in Client, CheckForDuplicates(u) \/ CheckFails(u)
  PROVE  TypeInv' /\ (Passes(u) \/ \E a \in Answer : Ends(u, a))
  <1> USE Parts
  <1>1. /\ up[u] # None /\ up[u].at = "check"
        /\ UNCHANGED <<rows, stored, members, album, queue, held, visit, deleted, moved, exposed,
                       sent, uploads, edits, visits>>
        /\ UNCHANGED faults \/ Fault
    BY DEF CheckForDuplicates, CheckFails, AtStage, tables, work, counters
  <1>2. up[u].content \in Content /\ up[u].photo \in Photo
    BY <1>1 DEF UpOK, UploadType
  <1>3. /\ RowsOK' /\ AlbumOK' /\ HeldOK' /\ VisitOK' /\ SentOK' /\ CountsOK'
        /\ excused' \subseteq Photo => SetsOK'
    BY <1>1, Counted DEF RowsOK, SetsOK, AlbumOK, HeldOK, VisitOK, SentOK, CountsOK
  <1>4. ASSUME IsDuplicate(up[u].content), GiveAnswer(u, "duplicate"), UNCHANGED excused
        PROVE  TypeInv' /\ \E a \in Answer : Ends(u, a)
    <2>1. UpOK' /\ AnswersOK' /\ QueueStage' /\ \E a \in Answer : Ends(u, a)
      BY <1>1, <1>4, EndStep DEF Answer
    <2>2. SetsOK'
      BY <1>3, <1>4 DEF SetsOK
    <2>3. QED
      BY <1>3, <2>1, <2>2, TypeParts DEF TypeInv
  <1>5. ASSUME NEW hash \in {NoHash, up[u].content}, NEW phash \in Content \cup {NoHash},
               up' = [up EXCEPT ![u].file_hash = hash, ![u].perceptual_hash = phash,
                                ![u].at = NextStage(up[u].how, "check")],
               excused \subseteq excused', excused' \subseteq excused \cup {up[u].photo},
               UNCHANGED answers,
               \/ up[u].photo \in excused'
               \/ /\ ~ IsDuplicate(up[u].content) /\ hash = up[u].content
                  /\ TwinUnderWay(u) => up[u].photo \in excused'
        PROVE  TypeInv' /\ Passes(u)
    <2>1. hash \in Content \cup {NoHash}
      BY <1>2
    <2>2. /\ UpOK' /\ up'[u] # None /\ OthersGoOn(u) /\ up'[u].at = "insert"
          /\ SameUpload(u) /\ up'[u].file_hash = hash
      BY <1>1, <1>5, <2>1, CheckedFacts DEF OthersGoOn, SameUpload
    <2>3. Passes(u)
      BY <1>1, <1>5, <2>2 DEF Passes
    <2>4. SetsOK' /\ AnswersOK' /\ QueueStage'
      BY <1>2, <1>3, <1>5, <2>2 DEF SetsOK, AnswersOK, QueueStage, OthersGoOn
    <2>5. QED
      BY <1>3, <2>2, <2>3, <2>4, TypeParts DEF TypeInv
  <1>6. CASE CheckForDuplicates(u)
    <2>1. CASE IsDuplicate(up[u].content)
      BY <1>4, <1>6, <2>1 DEF CheckForDuplicates
    <2>2. CASE ~ IsDuplicate(up[u].content)
      <3>1. /\ up' = [up EXCEPT ![u].file_hash = up[u].content,
                                ![u].perceptual_hash = PerceptualHash(up[u].content),
                                ![u].at = NextStage(up[u].how, "check")]
            /\ excused' = IF TwinUnderWay(u) THEN excused \cup {up[u].photo} ELSE excused
            /\ UNCHANGED answers
        BY <1>6, <2>2 DEF CheckForDuplicates
      <3>2. PerceptualHash(up[u].content) \in Content \cup {NoHash}
        BY <1>2, PerceptualHashType
      <3>3. QED
        BY <1>5, <2>2, <3>1, <3>2
    <2>3. QED
      BY <2>1, <2>2
  <1>7. CASE CheckFails(u)
    <2>1. PICK hash \in {NoHash, up[u].content} :
            up' = [up EXCEPT ![u].file_hash = hash,
                             ![u].perceptual_hash =
                                 IF hash = NoHash THEN NoHash ELSE PerceptualHash(hash),
                             ![u].at = NextStage(up[u].how, "check")]
      BY <1>7 DEF CheckFails
    <2> DEFINE phash == IF hash = NoHash THEN NoHash ELSE PerceptualHash(hash)
    <2>2. phash \in Content \cup {NoHash}
      BY <1>2, PerceptualHashType
    <2>3. excused' = excused \cup {up[u].photo} /\ UNCHANGED answers
      BY <1>7 DEF CheckFails
    <2>4. QED
      BY <1>5, <2>1, <2>2, <2>3
  <1>8. QED
    BY <1>6, <1>7

LEMMA InsertStep ==
  ASSUME TypeInv, NEW u \in Client, InsertPhoto(u)
  PROVE  TypeInv' /\ (Inserts(u) \/ \E a \in Answer : Ends(u, a))
  <1> USE Parts
  <1>1. /\ up[u] # None /\ up[u].at = "insert" /\ stored' = stored \cup {up[u].photo}
        /\ UNCHANGED <<members, album, queue, held, visit, excused, deleted, moved, exposed,
                       sent, uploads, edits, visits, faults>>
    BY DEF InsertPhoto, AtStage, work, counters
  <1>2. up[u].photo \in Photo /\ up[u].how \in Way
    BY <1>1 DEF UpOK, UploadType
  <1>3. SetsOK' /\ AlbumOK' /\ HeldOK' /\ VisitOK' /\ SentOK' /\ CountsOK'
    BY <1>1, <1>2 DEF SetsOK, AlbumOK, HeldOK, VisitOK, SentOK, CountsOK
  <1>4. CASE GiveAnswer(u, "error") /\ UNCHANGED rows
    <2>1. UpOK' /\ AnswersOK' /\ QueueStage' /\ \E a \in Answer : Ends(u, a)
      BY <1>1, <1>4, EndStep DEF Answer
    <2>2. RowsOK'
      BY <1>4 DEF RowsOK
    <2>3. QED
      BY <1>3, <2>1, <2>2, TypeParts DEF TypeInv
  <1>5. CASE /\ rows' = [rows EXCEPT ![up[u].photo] = Inserted(u)]
             /\ Proceed(u)
             /\ UNCHANGED answers
    <2>1. /\ UpOK' /\ SameUpload(u) /\ OthersGoOn(u)
          /\ up'[u].at = IF up[u].how = "sync" THEN "add" ELSE "queue"
      <3>1. Proceed(u)
        BY <1>5
      <3>2. NextStage(up[u].how, up[u].at) = IF up[u].how = "sync" THEN "add" ELSE "queue"
        BY <1>1, <1>2, NextStageFacts
      <3>3. /\ UpOK' /\ SameUpload(u) /\ OthersGoOn(u)
            /\ up'[u].at = NextStage(up[u].how, up[u].at)
        BY <1>1, <3>1, ProceedFacts DEF SameUpload, OthersGoOn
      <3>4. QED
        BY <3>2, <3>3
    <2>2. /\ RowsOK' /\ rows'[up[u].photo] # None
          /\ rows'[up[u].photo].image = up[u].content /\ rows'[up[u].photo].status = "pending"
          /\ rows'[up[u].photo].file_hash =
                IF up[u].how = "sync" THEN up[u].content ELSE up[u].file_hash
          /\ \A q \in Photo : q # up[u].photo => rows'[q] = rows[q]
      <3>1. rows' = [rows EXCEPT ![up[u].photo] = Inserted(u)]
        BY <1>5
      <3>2. /\ RowsOK' /\ rows'[up[u].photo] = Inserted(u)
            /\ \A q \in Photo : q # up[u].photo => rows'[q] = rows[q]
        BY <1>1, <1>2, <3>1, InsertedFacts, WriteFacts
      <3>3. QED
        BY <1>1, <3>2, InsertedFacts
    <2>3. Inserts(u)
      BY <1>1, <1>5, <2>1, <2>2 DEF Inserts
    <2>4. QueueStage' /\ AnswersOK'
      BY <1>5, <2>1 DEF QueueStage, OthersGoOn, SameUpload, AnswersOK
    <2>5. QED
      BY <1>3, <2>1, <2>2, <2>3, <2>4, TypeParts DEF TypeInv
  <1>6. QED
    BY <1>4, <1>5 DEF InsertPhoto

LEMMA QueueStep ==
  ASSUME TypeInv, NEW u \in Client, QueueProcessing(u)
  PROVE  TypeInv' /\ Queues(u)
  <1> USE Parts
  <1>1. /\ up[u] # None /\ up[u].at = "queue" /\ Proceed(u)
        /\ queue' = queue \cup {up[u].photo}
        /\ UNCHANGED <<rows, stored, members, album, held, visit, answers, excused, deleted,
                       moved, exposed, sent, uploads, edits, visits, faults>>
    BY DEF QueueProcessing, AtStage, tables, history, counters
  <1>2. up[u].photo \in Photo /\ up[u].how \in Way /\ up[u].how # "sync"
    BY <1>1 DEF UpOK, UploadType, QueueStage
  <1>3. UpOK' /\ SameUpload(u) /\ OthersGoOn(u) /\ up'[u].at = "add"
    BY <1>1, <1>2, ProceedFacts, NextStageFacts DEF SameUpload, OthersGoOn
  <1>4. Queues(u)
    BY <1>1, <1>2, <1>3 DEF Queues
  <1>5. QueueStage'
    BY <1>3 DEF QueueStage, OthersGoOn
  <1>6. RowsOK' /\ SetsOK' /\ AlbumOK' /\ HeldOK' /\ VisitOK' /\ AnswersOK' /\ SentOK' /\ CountsOK'
    BY <1>1, <1>2 DEF RowsOK, SetsOK, AlbumOK, HeldOK, VisitOK, AnswersOK, SentOK, CountsOK
  <1>7. QED
    BY <1>3, <1>4, <1>5, <1>6, TypeParts DEF TypeInv

LEMMA AddStep ==
  ASSUME TypeInv, NEW u \in Client, AddToAlbum(u) \/ UploadFails(u)
  PROVE  TypeInv' /\ \E a \in Answer : Ends(u, a)
  <1> USE Parts
  <1>1. /\ up[u] # None
        /\ UNCHANGED <<rows, stored, album, queue, held, visit, excused, deleted, moved,
                       sent, uploads, edits, visits>>
        /\ UNCHANGED faults \/ Fault
    BY DEF AddToAlbum, UploadFails, AtStage, tables, work, counters
  <1>2. up[u].photo \in Photo
    BY <1>1 DEF UpOK, UploadType
  <1>3. RowsOK' /\ AlbumOK' /\ HeldOK' /\ VisitOK' /\ SentOK' /\ CountsOK'
    BY <1>1, Counted DEF RowsOK, AlbumOK, HeldOK, VisitOK, SentOK, CountsOK
  <1>4. \E answer \in Answer :
          /\ GiveAnswer(u, answer) /\ answer # "duplicate"
          /\ answer \in {"created", "partly"} => up[u].at = "add"
          /\ answer = "created" /\ up[u].add => up[u].photo \in members'
    BY DEF AddToAlbum, AlbumFailure, UploadFails, AtStage, Answer
  <1>5. /\ members \subseteq members' /\ members' \subseteq Photo
        /\ exposed' \subseteq Photo
    BY <1>2 DEF AddToAlbum, UploadFails, Expose, SetsOK, tables
  <1>6. UpOK' /\ AnswersOK' /\ QueueStage' /\ \E a \in Answer : Ends(u, a)
    BY <1>1, <1>4, <1>5, EndStep
  <1>7. SetsOK'
    BY <1>1, <1>5 DEF SetsOK
  <1>8. QED
    BY <1>3, <1>6, <1>7, TypeParts DEF TypeInv

LEMMA UploadStep ==
  ASSUME TypeInv, Upload
  PROVE  TypeInv' /\ StepKind
  <1>1. ASSUME NEW u \in Client, \E s \in Sending : BeginUpload(u, s)
        PROVE  TypeInv' /\ StepKind
    BY <1>1, BeginUploadStep DEF StepKind
  <1>2. ASSUME NEW u \in Client, CheckForDuplicates(u) \/ CheckFails(u)
        PROVE  TypeInv' /\ StepKind
    BY <1>2, CheckStep DEF StepKind
  <1>3. ASSUME NEW u \in Client, InsertPhoto(u)
        PROVE  TypeInv' /\ StepKind
    BY <1>3, InsertStep DEF StepKind
  <1>4. ASSUME NEW u \in Client, QueueProcessing(u)
        PROVE  TypeInv' /\ StepKind
    BY <1>4, QueueStep DEF StepKind
  <1>5. ASSUME NEW u \in Client, AddToAlbum(u) \/ UploadFails(u)
        PROVE  TypeInv' /\ StepKind
    BY <1>5, AddStep DEF StepKind
  <1>6. QED
    BY <1>1, <1>2, <1>3, <1>4, <1>5 DEF Upload

\* What a worker's step leaves alone.
LEMMA ProcessFrame ==
  ASSUME TypeInv,
         UNCHANGED <<stored, members, album, up, visit, answers, deleted, moved, exposed, sent,
                     uploads, edits, visits>>,
         UNCHANGED faults \/ Fault, queue' \subseteq Photo, excused' \subseteq Photo,
         RowsOK', HeldOK'
  PROVE  TypeInv'
  <1> USE Parts
  <1>1. SetsOK' /\ AlbumOK' /\ UpOK' /\ VisitOK' /\ AnswersOK' /\ SentOK' /\ CountsOK' /\ QueueStage'
    BY Counted DEF SetsOK, AlbumOK, UpOK, VisitOK, AnswersOK, SentOK, CountsOK, QueueStage
  <1>2. QED
    BY <1>1, TypeParts DEF TypeInv

LEMMA ProcessStep ==
  ASSUME TypeInv, Process
  PROVE  TypeInv' /\ StepKind
  <1> USE Parts
  <1>1. ASSUME NEW p \in Photo, TaskFindsNoPhoto(p)
        PROVE  TypeInv' /\ StepKind
    <2>1. /\ p \notin Rows /\ queue' = queue \ {p}
          /\ UNCHANGED <<rows, stored, members, album, held, up, visit, answers, excused, deleted,
                         moved, exposed, sent, uploads, edits, visits, faults>>
      BY <1>1 DEF TaskFindsNoPhoto, tables, history, counters
    <2>2. RowsOK' /\ HeldOK' /\ queue' \subseteq Photo /\ excused' \subseteq Photo
      BY <2>1 DEF RowsOK, HeldOK, SetsOK
    <2>3. Aside
      BY <2>1 DEF Aside
    <2>4. QED
      BY <2>1, <2>2, <2>3, ProcessFrame DEF StepKind
  <1>2. ASSUME NEW w \in Worker, NEW p \in Photo, BeginProcessing(w, p)
        PROVE  TypeInv' /\ StepKind
    <2>1. /\ held[w] = None /\ p \in Rows /\ rows[p] # None /\ queue' = queue \ {p}
          /\ rows' = [rows EXCEPT ![p].status = "processing"]
          /\ held' = [held EXCEPT ![w] = [photo |-> p, row |-> rows[p]]]
          /\ UNCHANGED <<stored, members, album, up, visit, answers, excused, deleted,
                         moved, exposed, sent, uploads, edits, visits, faults>>
      BY <1>2 DEF BeginProcessing, history, counters, Rows
    <2>2. /\ RowsOK' /\ \A q \in Photo : q # p => rows'[q] = rows[q]
          /\ rows'[p] # None /\ rows'[p].image = rows[p].image /\ rows'[p].status = "processing"
          /\ rows'[p].file_hash = rows[p].file_hash
      BY <2>1, StatusFacts DEF Status
    <2>3. /\ HeldOK' /\ \A v \in Worker : v # w => held'[v] = held[v]
          /\ held'[w] # None /\ held'[w].photo = p /\ held'[w].row = rows[p]
      BY <2>1, TakeFacts
    <2>4. Takes(w, p)
      BY <2>1, <2>2, <2>3 DEF Takes
    <2>5. queue' \subseteq Photo /\ excused' \subseteq Photo
      BY <2>1 DEF SetsOK
    <2>6. TypeInv'
      BY <2>1, <2>2, <2>3, <2>5, ProcessFrame
    <2>7. QED
      BY <2>4, <2>6 DEF StepKind
  <1>3. ASSUME NEW w \in Worker, CompleteProcessing(w)
        PROVE  TypeInv' /\ StepKind
    <2> DEFINE p == held[w].photo
               row == held[w].row
    <2>1. /\ held[w] # None /\ Croppable(row.image) /\ Release(w)
          /\ rows' = IF p \notin Rows /\ IsDuplicate(row.image) THEN rows
                     ELSE [rows EXCEPT ![p] = Processed(row)]
          /\ excused' = IF p \in Rows THEN excused ELSE excused \cup {p}
          /\ UNCHANGED <<stored, members, album, queue, up, visit, answers, deleted, moved,
                         exposed, sent, uploads, edits, visits, faults>>
      BY <1>3 DEF CompleteProcessing, counters
    <2>2. /\ p \in Photo /\ row \in Row /\ HeldOK' /\ Released(w)
      BY <2>1, ReleaseFacts DEF Released
    <2>3. row.image \in Content
      BY <2>2 DEF Row
    <2> HIDE DEF p, row
    <2>4. /\ RowsOK'
          /\ \/ p \notin Rows /\ rows' = rows
             \/ /\ rows'[p] # None /\ rows'[p].image = row.image /\ rows'[p].status = "complete"
                /\ rows'[p].file_hash = row.image
                /\ \A q \in Photo : q # p => rows'[q] = rows[q]
      <3>1. CASE p \notin Rows /\ IsDuplicate(row.image)
        BY <2>1, <3>1 DEF RowsOK
      <3>2. CASE ~ (p \notin Rows /\ IsDuplicate(row.image))
        <4>1. rows' = [rows EXCEPT ![p] = Processed(row)]
          BY <2>1, <3>2
        <4>2. QED
          BY <2>2, <4>1, ProcessedFacts, WriteFacts
      <3>3. QED
        BY <3>1, <3>2
    <2>5. Saves(w, p, row.image)
      BY <2>1, <2>2, <2>4 DEF Saves, p, row
    <2>6. queue' \subseteq Photo /\ excused' \subseteq Photo
      BY <2>1, <2>2 DEF SetsOK
    <2>7. TypeInv'
      BY <2>1, <2>2, <2>4, <2>6, ProcessFrame
    <2>8. QED
      BY <2>2, <2>3, <2>5, <2>7 DEF StepKind
  <1>4. ASSUME NEW w \in Worker, ProcessingFails(w)
        PROVE  TypeInv' /\ StepKind
    <2> DEFINE p == held[w].photo
    <2>1. /\ held[w] # None /\ Release(w)
          /\ rows' = IF p \in Rows THEN [rows EXCEPT ![p].status = "failed"] ELSE rows
          /\ queue' \in {queue, queue \cup {p}}
          /\ UNCHANGED <<stored, members, album, up, visit, answers, excused, deleted, moved,
                         exposed, sent, uploads, edits, visits>>
          /\ UNCHANGED faults \/ Fault
      BY <1>4 DEF ProcessingFails, history
    <2>2. p \in Photo /\ HeldOK' /\ Released(w)
      BY <2>1, ReleaseFacts DEF Released
    <2> HIDE DEF p
    <2>3. /\ RowsOK'
          /\ \/ p \notin Rows /\ rows' = rows
             \/ /\ p \in Rows /\ rows'[p] # None
                /\ rows'[p].image = rows[p].image /\ rows'[p].status = "failed"
                /\ rows'[p].file_hash = rows[p].file_hash
                /\ \A q \in Photo : q # p => rows'[q] = rows[q]
      <3>1. CASE p \notin Rows
        BY <2>1, <3>1 DEF RowsOK
      <3>2. CASE p \in Rows
        <4>1. rows' = [rows EXCEPT ![p].status = "failed"] /\ rows[p] # None
          BY <2>1, <3>2 DEF Rows
        <4>2. QED
          BY <2>2, <3>2, <4>1, StatusFacts DEF Status
      <3>3. QED
        BY <3>1, <3>2
    <2>4. Fails(w, p)
      BY <2>1, <2>2, <2>3 DEF Fails, p
    <2>5. queue' \subseteq Photo /\ excused' \subseteq Photo
      BY <2>1, <2>2 DEF SetsOK
    <2>6. TypeInv'
      BY <2>1, <2>2, <2>3, <2>5, ProcessFrame
    <2>7. QED
      BY <2>2, <2>4, <2>6 DEF StepKind
  <1>5. QED
    BY <1>1, <1>2, <1>3, <1>4 DEF Process

LEMMA AdminStep ==
  ASSUME TypeInv, Administer
  PROVE  TypeInv' /\ StepKind
  <1> USE Parts
  <1>1. ASSUME NEW p \in Photo, DeletePhoto(p)
        PROVE  TypeInv' /\ StepKind
    <2>1. /\ Edit /\ p \in Rows /\ rows' = [rows EXCEPT ![p] = None]
          /\ members' = members \ {p} /\ deleted' = deleted \cup {p}
          /\ UNCHANGED <<stored, album, queue, held, up, visit, answers, excused, moved, exposed,
                         sent, uploads, visits, faults>>
      BY <1>1 DEF DeletePhoto, work
    <2>2. RowsOK' /\ rows'[p] = None /\ \A q \in Photo : q # p => rows'[q] = rows[q]
      BY <2>1 DEF RowsOK
    <2>3. Deletes(p)
      BY <2>1, <2>2 DEF Deletes
    <2>4. /\ SetsOK' /\ AlbumOK' /\ HeldOK' /\ UpOK' /\ VisitOK' /\ AnswersOK' /\ SentOK'
          /\ QueueStage'
      BY <2>1 DEF SetsOK, AlbumOK, HeldOK, UpOK, VisitOK, AnswersOK, SentOK, QueueStage
    <2>c. CountsOK'
      BY <2>1 DEF CountsOK, Edit
    <2>5. QED
      BY <2>2, <2>3, <2>4, <2>c, TypeParts DEF TypeInv, StepKind
  <1>2. ASSUME NEW p \in Photo, EditAlbumPhotos(p)
        PROVE  TypeInv' /\ StepKind
    <2>1. /\ Edit /\ members' = (IF p \in members THEN members \ {p} ELSE members \cup {p})
          /\ moved' = moved \cup {p} /\ exposed' \subseteq exposed \cup members'
          /\ UNCHANGED <<rows, stored, album, queue, held, up, visit, answers, excused, deleted,
                         sent, uploads, visits, faults>>
      BY <1>2 DEF EditAlbumPhotos, work, Expose
    <2>2. Aside
      BY <2>1 DEF Aside
    <2>3. /\ RowsOK' /\ AlbumOK' /\ HeldOK' /\ UpOK' /\ VisitOK' /\ AnswersOK' /\ SentOK'
          /\ QueueStage'
      BY <2>1 DEF RowsOK, AlbumOK, HeldOK, UpOK, VisitOK, AnswersOK, SentOK, QueueStage
    <2>c. CountsOK'
      BY <2>1 DEF CountsOK, Edit
    <2>4. SetsOK'
      BY <2>1 DEF SetsOK
    <2>5. QED
      BY <2>2, <2>3, <2>4, <2>c, TypeParts DEF TypeInv, StepKind
  <1>3. ASSUME NEW private \in BOOLEAN, NEW downloads \in BOOLEAN, EditAlbum(private, downloads)
        PROVE  TypeInv' /\ StepKind
    <2>1. /\ Edit /\ album' = [album EXCEPT !.private = private, !.downloads = downloads]
          /\ exposed' \subseteq exposed \cup members
          /\ visit' = [v \in Visitor |-> IF visit[v] = None THEN None
                                         ELSE [visit[v] EXCEPT !.changed = TRUE]]
          /\ UNCHANGED <<rows, stored, members, queue, held, up, answers, excused, deleted, moved,
                         sent, uploads, visits, faults>>
      BY <1>3 DEF EditAlbum, work, Expose
    <2>2. Aside
      BY <2>1 DEF Aside
    <2>3. AlbumOK'
      BY <2>1 DEF AlbumOK
    <2>4. VisitOK'
      <3>1. ASSUME NEW v \in Visitor, visit[v] # None
            PROVE  [visit[v] EXCEPT !.changed = TRUE] \in VisitType
        BY <3>1 DEF VisitOK, VisitType
      <3>2. QED
        BY <2>1, <3>1 DEF VisitOK
    <2>5. RowsOK' /\ HeldOK' /\ UpOK' /\ AnswersOK' /\ SentOK' /\ QueueStage'
      BY <2>1 DEF RowsOK, HeldOK, UpOK, AnswersOK, SentOK, QueueStage
    <2>c. CountsOK'
      BY <2>1 DEF CountsOK, Edit
    <2>6. SetsOK'
      BY <2>1 DEF SetsOK
    <2>7. QED
      BY <2>2, <2>3, <2>4, <2>5, <2>c, <2>6, TypeParts DEF TypeInv, StepKind
  <1>4. QED
    BY <1>1, <1>2, <1>3 DEF Administer

LEMMA VisitStep ==
  ASSUME TypeInv, Visit
  PROVE  TypeInv' /\ StepKind
  <1> USE Parts
  <1>1. PICK v \in Visitor :
          \/ \E kind \in Kind, page \in Page : OpenAlbum(v, kind, page)
          \/ CountAccess(v)
          \/ \E p \in Photo : SendPhotos(v, p)
    BY DEF Visit
  <1>2. UNCHANGED <<rows, stored, members, queue, held, up, answers, excused, deleted, moved,
                    exposed, uploads, edits, faults>>
    BY <1>1 DEF OpenAlbum, CountAccess, SendPhotos, tables, work, history, counters
  <1>3. Aside
    BY <1>2 DEF Aside
  <1>4. RowsOK' /\ SetsOK' /\ HeldOK' /\ UpOK' /\ AnswersOK' /\ QueueStage'
    BY <1>2 DEF RowsOK, SetsOK, HeldOK, UpOK, AnswersOK, QueueStage
  <1>5. AlbumOK' /\ VisitOK' /\ SentOK' /\ CountsOK'
    <2>1. ASSUME NEW kind \in Kind, NEW page \in Page, OpenAlbum(v, kind, page)
          PROVE  AlbumOK' /\ VisitOK' /\ SentOK' /\ CountsOK'
      <3> DEFINE new == [kind |-> kind, page |-> page, count |-> album.count, changed |-> FALSE]
      <3>1. /\ visit' = [visit EXCEPT ![v] = new] /\ visits' = visits + 1
            /\ UNCHANGED <<album, sent, uploads, edits, faults>>
        BY <2>1 DEF OpenAlbum, tables, history
      <3>2. new \in VisitType
        BY DEF VisitType, AlbumOK
      <3> HIDE DEF new
      <3>3. QED
        BY <3>1, <3>2 DEF AlbumOK, VisitOK, SentOK, CountsOK
    <2>2. ASSUME CountAccess(v)
          PROVE  AlbumOK' /\ VisitOK' /\ SentOK' /\ CountsOK'
      <3> DEFINE new == [visit[v] EXCEPT !.count = None]
      <3>1. /\ visit[v] # None /\ visit[v].count # None
            /\ album' = [album EXCEPT !.count = visit[v].count + 1]
            /\ visit' = [visit EXCEPT ![v] = new]
            /\ UNCHANGED <<sent, uploads, edits, visits, faults>>
        BY <2>2 DEF CountAccess, history, counters
      <3>2. visit[v] \in VisitType
        BY <3>1 DEF VisitOK
      <3>3. new \in VisitType /\ visit[v].count \in Nat
        BY <3>1, <3>2 DEF VisitType
      <3> HIDE DEF new
      <3>4. AlbumOK'
        BY <3>1, <3>3 DEF AlbumOK
      <3>5. QED
        BY <3>1, <3>3, <3>4 DEF VisitOK, SentOK, CountsOK
    <2>3. ASSUME NEW p \in Photo, SendPhotos(v, p)
          PROVE  AlbumOK' /\ VisitOK' /\ SentOK' /\ CountsOK'
      <3>1. /\ visit[v] # None /\ visit' = [visit EXCEPT ![v] = None]
            /\ sent' \subseteq sent \cup
                 {[photo |-> q, late |-> visit[v].changed] : q \in Sent(visit[v].page, p)}
            /\ UNCHANGED <<album, uploads, edits, visits, faults>>
        BY <2>3 DEF SendPhotos, tables, counters
      <3>2. visit[v].changed \in BOOLEAN
        BY <3>1 DEF VisitOK, VisitType
      <3>3. Sent(visit[v].page, p) \subseteq Photo
        BY DEF Sent, SetsOK, Rows
      <3>4. SentOK'
        BY <3>1, <3>2, <3>3 DEF SentOK
      <3>5. QED
        BY <3>1, <3>4 DEF AlbumOK, VisitOK, CountsOK
    <2>4. QED
      BY <1>1, <2>1, <2>2, <2>3
  <1>6. QED
    BY <1>3, <1>4, <1>5, TypeParts DEF TypeInv, StepKind

LEMMA NextStep ==
  ASSUME TypeInv, [Next]_vars
  PROVE  TypeInv' /\ StepKind
  <1>1. CASE UNCHANGED vars
    <2>1. UNCHANGED <<rows, stored, members, album, queue, held, up, visit, answers, excused,
                      deleted, moved, exposed, sent, uploads, edits, visits, faults>>
      BY <1>1 DEF vars, tables, work, history, counters
    <2>2. Aside
      BY <2>1 DEF Aside
    <2>3. TypeInv'
      BY <2>1, Parts, TypeParts DEF TypeInv, RowsOK, SetsOK, AlbumOK, HeldOK, UpOK, VisitOK,
                                    AnswersOK, SentOK, CountsOK, QueueStage
    <2>4. QED
      BY <2>2, <2>3 DEF StepKind
  <1>2. CASE Next
    BY <1>2, UploadStep, ProcessStep, AdminStep, VisitStep DEF Next
  <1>3. QED
    BY <1>1, <1>2

LEMMA InitTypeInv == Init => TypeInv
  <1> SUFFICES ASSUME Init PROVE TypeInv
    OBVIOUS
  <1>1. AlbumOK
    BY DEF Init, AlbumOK
  <1>2. RowsOK /\ SetsOK /\ HeldOK /\ UpOK /\ VisitOK /\ AnswersOK /\ SentOK /\ CountsOK
    BY DEF Init, RowsOK, SetsOK, HeldOK, UpOK, VisitOK, AnswersOK, SentOK, CountsOK
  <1>3. QueueStage
    BY DEF Init, QueueStage
  <1>4. QED
    BY <1>1, <1>2, <1>3, TypeParts DEF TypeInv

\* Every variable has its type, and an upload without a task never comes to the stage
\* that queues one (views.py, forms.py).
THEOREM UploadTypeCorrect == Spec => []TypeOK
  <1>1. TypeInv => TypeOK
    BY DEF TypeInv
  <1>2. TypeInv /\ [Next]_vars => TypeInv'
    BY NextStep
  <1>3. QED
    BY <1>1, <1>2, InitTypeInv, PTL DEF Spec

-----------------------------------------------------------------------------
(* What is begun, and what it brings.  A photo belongs to one upload, and   *)
(* all that ever speaks of it speaks of one content: its row, the instances *)
(* of workers, which outlive the row, the upload and its answer.            *)

Begun(p) ==
    \/ answers[p] # None
    \/ \E u \in Client : /\ up[u] # None /\ up[u].photo = p
                         /\ up[u].at \in {"queue", "add"}

IsHeld(p) == \E w \in Worker : held[w] # None /\ held[w].photo = p

Carries(p, c) ==
    \/ p \in Rows /\ rows[p].image = c
    \/ \E w \in Worker : held[w] # None /\ held[w].photo = p /\ held[w].row.image = c
    \/ \E u \in Client : up[u] # None /\ up[u].photo = p /\ up[u].content = c
    \/ answers[p] # None /\ answers[p].content = c

OneUpload ==
    \A u, v \in Client : up[u] # None /\ up[v] # None /\ up[u].photo = up[v].photo => u = v

Unanswered == \A u \in Client : up[u] # None => answers[up[u].photo] = None

OnlyBegun == \A p \in Photo : p \in Rows \cup deleted \/ IsHeld(p) => Begun(p)

OneContent == \A p \in Photo : \A c, d \in Content : Carries(p, c) /\ Carries(p, d) => c = d

UploadInv == TypeInv /\ OneUpload /\ Unanswered /\ OnlyBegun /\ OneContent

LEMMA RowsFact ==
  /\ \A p \in Photo : p \in Rows <=> rows[p] # None
  /\ \A p \in Photo : p \in Rows' <=> rows'[p] # None
  /\ Rows \subseteq Photo /\ Rows' \subseteq Photo
  BY DEF Rows

LEMMA ContentTypes ==
  ASSUME TypeInv
  PROVE  /\ \A p \in Rows : rows[p].image \in Content
         /\ \A u \in Client : up[u] # None => up[u].content \in Content /\ up[u].photo \in Photo
         /\ \A w \in Worker : held[w] # None =>
               held[w].photo \in Photo /\ held[w].row.image \in Content
         /\ \A p \in Photo : answers[p] # None => answers[p].content \in Content
  <1> USE Parts
  <1>1. \A p \in Rows : rows[p].image \in Content
    BY RowsFact DEF RowsOK, Row
  <1>2. \A u \in Client : up[u] # None => up[u].content \in Content /\ up[u].photo \in Photo
    BY DEF UpOK, UploadType
  <1>3. \A w \in Worker : held[w] # None => held[w].photo \in Photo /\ held[w].row.image \in Content
    BY DEF HeldOK, Held, Row
  <1>4. \A p \in Photo : answers[p] # None => answers[p].content \in Content
    BY DEF AnswersOK, AnswerType
  <1>5. QED
    BY <1>1, <1>2, <1>3, <1>4

LEMMA StartsInv ==
  ASSUME UploadInv, TypeInv', NEW u \in Client, NEW p \in Photo, Starts(u, p)
  PROVE  UploadInv'
  <1>1. /\ up[u] = None /\ p \in Fresh /\ up'[u] # None /\ up'[u].photo = p /\ up'[u].at = "check"
        /\ \A v \in Client : v # u => up'[v] = up[v]
        /\ UNCHANGED <<rows, held, answers, deleted>>
    BY DEF Starts, OthersGoOn
  <1>2. /\ rows[p] = None /\ answers[p] = None
        /\ \A v \in Client : up[v] = None \/ up[v].photo # p
    BY <1>1 DEF Fresh
  <1>3. ~ Begun(p) /\ ~ IsHeld(p)
    BY <1>2 DEF Begun, UploadInv, OnlyBegun
  <1>4. OneUpload' /\ Unanswered'
    BY <1>1, <1>2 DEF UploadInv, OneUpload, Unanswered
  <1>5. OnlyBegun'
    <2>1. ASSUME NEW q \in Photo, Begun(q) PROVE Begun(q)'
      BY <1>1, <2>1 DEF Begun
    <2>2. QED
      BY <1>1, <2>1 DEF UploadInv, OnlyBegun, IsHeld, Rows
  <1>6. OneContent'
    <2>1. ASSUME NEW q \in Photo, q # p, NEW c, Carries(q, c)' PROVE Carries(q, c)
      BY <1>1, <2>1 DEF Carries, Rows
    <2>2. ASSUME NEW c, Carries(p, c)' PROVE c = up'[u].content
      BY <1>1, <1>2, <1>3, <2>2 DEF Carries, IsHeld, Rows
    <2>3. QED
      BY <2>1, <2>2 DEF UploadInv, OneContent
  <1>7. QED
    BY <1>4, <1>5, <1>6 DEF UploadInv

LEMMA GoesOnInv ==
  ASSUME UploadInv, TypeInv', NEW u \in Client, Passes(u) \/ Queues(u)
  PROVE  UploadInv'
  <1>1. /\ up[u] # None /\ SameUpload(u)
        /\ up[u].at \in {"queue", "add"} => up'[u].at \in {"queue", "add"}
        /\ \A v \in Client : v # u => up'[v] = up[v]
        /\ UNCHANGED <<rows, held, answers, deleted>>
    BY DEF Passes, Queues, OthersGoOn
  <1>2. \A v \in Client : /\ up'[v] # None <=> up[v] # None
                          /\ up'[v].photo = up[v].photo /\ up'[v].content = up[v].content
    BY <1>1 DEF SameUpload
  <1>3. OneUpload' /\ Unanswered'
    BY <1>1, <1>2 DEF UploadInv, OneUpload, Unanswered
  <1>4. OnlyBegun'
    <2>1. ASSUME NEW q \in Photo, Begun(q) PROVE Begun(q)'
      BY <1>1, <1>2, <2>1 DEF Begun
    <2>2. QED
      BY <1>1, <2>1 DEF UploadInv, OnlyBegun, IsHeld, Rows
  <1>5. OneContent'
    <2>1. ASSUME NEW q \in Photo, NEW c, Carries(q, c)' PROVE Carries(q, c)
      BY <1>1, <1>2, <2>1 DEF Carries, Rows
    <2>2. QED
      BY <2>1 DEF UploadInv, OneContent
  <1>6. QED
    BY <1>3, <1>4, <1>5 DEF UploadInv

LEMMA InsertsInv ==
  ASSUME UploadInv, TypeInv', NEW u \in Client, Inserts(u)
  PROVE  UploadInv'
  <1>p. PICK p \in Photo : p = up[u].photo
    BY ContentTypes DEF UploadInv, Inserts
  <1>1. /\ up[u] # None /\ up[u].at = "insert" /\ SameUpload(u)
        /\ up'[u].at \in {"queue", "add"}
        /\ \A v \in Client : v # u => up'[v] = up[v]
        /\ rows'[p] # None /\ rows'[p].image = up[u].content
        /\ \A q \in Photo : q # p => rows'[q] = rows[q]
        /\ UNCHANGED <<held, answers, deleted>>
    BY <1>p DEF Inserts, OthersGoOn
  <1>2. \A v \in Client : /\ up'[v] # None <=> up[v] # None
                          /\ up'[v].photo = up[v].photo /\ up'[v].content = up[v].content
    BY <1>1 DEF SameUpload
  <1>3. OneUpload' /\ Unanswered'
    BY <1>1, <1>2 DEF UploadInv, OneUpload, Unanswered
  <1>4. OnlyBegun'
    <2>1. ASSUME NEW q \in Photo, Begun(q) PROVE Begun(q)'
      BY <1>1, <1>2, <2>1 DEF Begun
    <2>2. Begun(p)'
      BY <1>p, <1>1, <1>2 DEF Begun
    <2>3. ASSUME NEW q \in Photo, q # p, q \in (Rows \cup deleted)' \/ IsHeld(q)'
          PROVE  q \in Rows \cup deleted \/ IsHeld(q)
      BY <1>1, <2>3, RowsFact DEF IsHeld
    <2>4. QED
      BY <2>1, <2>2, <2>3 DEF UploadInv, OnlyBegun
  <1>5. OneContent'
    <2>1. Carries(p, up[u].content)
      BY <1>p, <1>1 DEF Carries
    <2>2. ASSUME NEW q \in Photo, NEW c, Carries(q, c)' PROVE Carries(q, c)
      <3>1. CASE q \in Rows' /\ rows'[q].image = c
        BY <1>1, <2>1, <3>1, RowsFact DEF Carries
      <3>2. CASE ~ (q \in Rows' /\ rows'[q].image = c)
        BY <1>1, <1>2, <2>2, <3>2 DEF Carries
      <3>3. QED
        BY <3>1, <3>2
    <2>3. QED
      BY <2>2 DEF UploadInv, OneContent
  <1>6. QED
    BY <1>3, <1>4, <1>5 DEF UploadInv

LEMMA EndsInv ==
  ASSUME UploadInv, TypeInv', NEW u \in Client, NEW answer \in Answer, Ends(u, answer)
  PROVE  UploadInv'
  <1>p. PICK p \in Photo : p = up[u].photo
    BY ContentTypes DEF UploadInv, Ends
  <1>1. /\ up[u] # None /\ up'[u] = None
        /\ \A v \in Client : v # u => up'[v] = up[v]
        /\ answers'[p] # None /\ answers'[p].content = up[u].content
        /\ \A q \in Photo : q # p => answers'[q] = answers[q]
        /\ UNCHANGED <<rows, held, deleted>>
    BY <1>p DEF Ends, OthersGoOn
  <1>2. OneUpload' /\ Unanswered'
    <2>1. \A v \in Client : v # u /\ up[v] # None => up[v].photo # p /\ up[v].photo \in Photo
      BY <1>p, <1>1, ContentTypes DEF UploadInv, OneUpload
    <2>2. QED
      BY <1>1, <2>1 DEF UploadInv, OneUpload, Unanswered
  <1>3. \A q \in Photo : Begun(q) => Begun(q)'
    <2>1. Begun(p)'
      BY <1>1 DEF Begun
    <2>2. ASSUME NEW q \in Photo, q # p, Begun(q) PROVE Begun(q)'
      BY <1>p, <1>1, <2>2 DEF Begun
    <2>3. QED
      BY <2>1, <2>2
  <1>4. \A q \in Photo, c \in Content : Carries(q, c)' => Carries(q, c)
    <2>1. ASSUME NEW c, Carries(p, c)' PROVE Carries(p, c)
      BY <1>p, <1>1, <2>1 DEF Carries, Rows
    <2>2. ASSUME NEW q \in Photo, q # p, NEW c, Carries(q, c)' PROVE Carries(q, c)
      BY <1>1, <2>2 DEF Carries, Rows
    <2>3. QED
      BY <2>1, <2>2
  <1>5. OnlyBegun'
    BY <1>1, <1>3 DEF UploadInv, OnlyBegun, IsHeld, Rows
  <1>6. OneContent'
    BY <1>4 DEF UploadInv, OneContent
  <1>7. QED
    BY <1>2, <1>5, <1>6 DEF UploadInv

\* Workers and admins: photos that are begun stay so, and nothing is said of a photo
\* that was not said before.
LEMMA RowsChangeInv ==
  ASSUME UploadInv, TypeInv', UNCHANGED <<up, answers>>,
         \A p \in Photo : (p \in Rows \cup deleted \/ IsHeld(p))' => p \in Rows \cup deleted \/ IsHeld(p),
         \A p \in Photo, c \in Content : Carries(p, c)' => Carries(p, c)
  PROVE  UploadInv'
  <1>1. OneUpload' /\ Unanswered'
    BY DEF UploadInv, OneUpload, Unanswered
  <1>2. OnlyBegun'
    BY DEF UploadInv, OnlyBegun, Begun
  <1>3. OneContent'
    BY DEF UploadInv, OneContent
  <1>4. QED
    BY <1>1, <1>2, <1>3 DEF UploadInv

LEMMA WorkInv ==
  ASSUME UploadInv, TypeInv', NEW w \in Worker, NEW p \in Photo,
         Takes(w, p) \/ Fails(w, p) \/ \E c \in Content : Saves(w, p, c)
  PROVE  UploadInv'
  <1>1. UNCHANGED <<up, answers, deleted>>
    BY DEF Takes, Fails, Saves
  <1>2. \A q \in Photo : q # p => rows'[q] = rows[q]
    BY DEF Takes, Fails, Saves
  <1>3. \A v \in Worker : v # w => held'[v] = held[v]
    BY DEF Takes, Fails, Saves, Released
  <1>4. p \in Rows \/ IsHeld(p)
    BY DEF Takes, Fails, Saves, IsHeld
  <1>5. held'[w] # None => p \in Rows /\ held'[w].photo = p /\ held'[w].row = rows[p]
    BY DEF Takes, Fails, Saves, Released
  <1>6. rows'[p] # None => Carries(p, rows'[p].image)
    <2>1. CASE Takes(w, p)
      BY <2>1 DEF Takes, Carries
    <2>2. CASE Fails(w, p)
      BY <2>2, RowsFact DEF Fails, Carries
    <2>3. ASSUME NEW c \in Content, Saves(w, p, c)
          PROVE  rows'[p] # None => Carries(p, rows'[p].image)
      BY <2>3, RowsFact DEF Saves, Carries
    <2>4. QED
      BY <2>1, <2>2, <2>3
  <1>7. ASSUME NEW q \in Photo, (q \in Rows \cup deleted \/ IsHeld(q))'
        PROVE  q \in Rows \cup deleted \/ IsHeld(q)
    BY <1>1, <1>2, <1>3, <1>4, <1>5, <1>7, RowsFact DEF IsHeld
  <1>8. ASSUME NEW q \in Photo, NEW c \in Content, Carries(q, c)'
        PROVE  Carries(q, c)
    <2>1. CASE q \in Rows' /\ rows'[q].image = c
      BY <1>2, <1>6, <2>1, RowsFact DEF Carries
    <2>2. CASE \E v \in Worker : held'[v] # None /\ held'[v].photo = q /\ held'[v].row.image = c
      BY <1>3, <1>5, <2>2 DEF Carries
    <2>3. CASE \/ \E u \in Client : up'[u] # None /\ up'[u].photo = q /\ up'[u].content = c
               \/ answers'[q] # None /\ answers'[q].content = c
      BY <1>1, <2>3 DEF Carries
    <2>4. QED
      BY <1>8, <2>1, <2>2, <2>3 DEF Carries
  <1>9. QED
    BY <1>1, <1>7, <1>8, RowsChangeInv

LEMMA AsideInv ==
  ASSUME UploadInv, TypeInv', Aside \/ \E p \in Photo : Deletes(p)
  PROVE  UploadInv'
  <1>1. UNCHANGED <<up, answers, held>>
    BY DEF Aside, Deletes
  <1>2. \A q \in Photo : rows'[q] = None \/ rows'[q] = rows[q]
    BY DEF Aside, Deletes
  <1>3. (Rows \cup deleted)' \subseteq Rows \cup deleted
    BY RowsFact DEF Aside, Deletes
  <1>4. \A q \in Photo : (q \in Rows \cup deleted \/ IsHeld(q))' => q \in Rows \cup deleted \/ IsHeld(q)
    BY <1>1, <1>3 DEF IsHeld
  <1>5. ASSUME NEW q \in Photo, NEW c \in Content, Carries(q, c)'
        PROVE  Carries(q, c)
    BY <1>1, <1>2, <1>5, RowsFact DEF Carries
  <1>6. QED
    BY <1>1, <1>4, <1>5, RowsChangeInv

LEMMA InitUploadInv == Init => UploadInv
  <1> SUFFICES ASSUME Init PROVE UploadInv
    OBVIOUS
  <1>1. OneUpload /\ Unanswered
    BY DEF Init, OneUpload, Unanswered
  <1>2. OnlyBegun /\ OneContent
    BY DEF Init, OnlyBegun, OneContent, IsHeld, Carries, Rows
  <1>3. QED
    BY <1>1, <1>2, InitTypeInv DEF UploadInv

LEMMA NextUploadInv == UploadInv /\ [Next]_vars => UploadInv' /\ StepKind
  <1> SUFFICES ASSUME UploadInv, [Next]_vars PROVE UploadInv' /\ StepKind
    OBVIOUS
  <1>1. TypeInv' /\ StepKind
    BY NextStep DEF UploadInv
  <1>2. UploadInv'
    BY <1>1, StartsInv, GoesOnInv, InsertsInv, EndsInv, WorkInv, AsideInv DEF StepKind
  <1>3. QED
    BY <1>1, <1>2

-----------------------------------------------------------------------------
(* Twins.  An upload that has passed its check and is not excused is ahead  *)
(* of every other of its content: whoever is there already is excused, and  *)
(* whoever comes to the same stage later is.                                *)

AtInsert(u) == up[u] # None /\ up[u].at = "insert"

\* Whoever was not excused has the hash of the content.
HashKnown ==
    /\ \A p \in Rows : \/ rows[p].file_hash = rows[p].image
                       \/ rows[p].file_hash = NoHash /\ p \in excused
    /\ \A u \in Client : AtInsert(u) =>
          \/ up[u].file_hash = up[u].content
          \/ up[u].file_hash = NoHash /\ up[u].photo \in excused

\* Of two uploads of one content that go on to insert, one is excused.
TwinUploads ==
    \A u, v \in Client :
        u # v /\ AtInsert(u) /\ AtInsert(v) /\ up[u].content = up[v].content =>
            up[u].photo \in excused \/ up[v].photo \in excused

\* What an upload that was not excused could have seen, it did.
NoTwinAhead ==
    \A u \in Client : AtInsert(u) /\ up[u].photo \notin excused =>
        \A q \in Rows : rows[q].image = up[u].content => q \in excused

TwinInv == HashKnown /\ TwinUploads /\ NoTwinAhead /\ TwinsOverlapped

\* A step that brings no upload to its insertion, and no row.
LEMMA TwinsOfUploads ==
  ASSUME TwinInv, UNCHANGED <<rows, excused>>,
         \A v \in Client : AtInsert(v)' => AtInsert(v) /\ up'[v] = up[v]
  PROVE  TwinInv'
  <1>1. HashKnown' /\ TwinUploads' /\ NoTwinAhead'
    BY DEF TwinInv, HashKnown, TwinUploads, NoTwinAhead, Rows
  <1>2. TwinsOverlapped'
    BY DEF TwinInv, TwinsOverlapped, Rows
  <1>3. QED
    BY <1>1, <1>2 DEF TwinInv

\* A step that leaves the uploads alone: a row that is there after it is of a photo
\* that is excused, or has the content that it had.
LEMMA TwinsOfRows ==
  ASSUME TwinInv, UNCHANGED up, excused \subseteq excused',
         \A q \in Rows' :
            /\ \/ q \in excused'
               \/ q \in Rows /\ rows'[q].image = rows[q].image
            /\ \/ rows'[q].file_hash = rows'[q].image
               \/ q \in Rows /\ rows'[q].image = rows[q].image /\ rows'[q].file_hash = rows[q].file_hash
  PROVE  TwinInv'
  <1>1. HashKnown'
    <2>1. \A u \in Client : AtInsert(u)' <=> AtInsert(u)
      BY DEF AtInsert
    <2>2. QED
      BY <2>1 DEF TwinInv, HashKnown
  <1>2. TwinUploads' /\ NoTwinAhead'
    BY DEF TwinInv, TwinUploads, NoTwinAhead, AtInsert
  <1>3. TwinsOverlapped'
    BY DEF TwinInv, TwinsOverlapped
  <1>4. QED
    BY <1>1, <1>2, <1>3 DEF TwinInv

\* The check that finds nothing, and the uploads of the same content that are under way.
LEMMA TwinsPass ==
  ASSUME UploadInv, TwinInv, NEW u \in Client, Passes(u)
  PROVE  TwinInv'
  <1>1. /\ up[u] # None /\ SameUpload(u)
        /\ \A v \in Client : v # u => up'[v] = up[v]
        /\ excused \subseteq excused' /\ UNCHANGED rows
    BY DEF Passes, OthersGoOn
  <1>2. \A v \in Client : v # u => (AtInsert(v)' <=> AtInsert(v))
    BY <1>1 DEF AtInsert
  <1>3. HashKnown'
    <2>1. \/ up'[u].file_hash = up'[u].content
          \/ up'[u].file_hash = NoHash /\ up'[u].photo \in excused'
      BY <1>1 DEF Passes, SameUpload
    <2>2. QED
      BY <1>1, <1>2, <2>1 DEF TwinInv, HashKnown, Rows
  <1>4. TwinUploads'
    <2>1. ASSUME NEW v \in Client, v # u, AtInsert(v)', up'[v].content = up'[u].content
          PROVE  up'[u].photo \in excused'
      <3>1. up[v] # None /\ up[v].content = up[u].content
        BY <1>1, <1>2, <2>1 DEF AtInsert, SameUpload
      <3>2. TwinUnderWay(u)
        BY <2>1, <3>1 DEF TwinUnderWay
      <3>3. QED
        BY <1>1, <3>2 DEF Passes, SameUpload
    <2>2. QED
      BY <1>1, <1>2, <2>1 DEF TwinInv, TwinUploads
  <1>5. NoTwinAhead'
    <2>1. ASSUME NEW q \in Rows, rows[q].image = up[u].content, up[u].photo \notin excused'
          PROVE  q \in excused'
      <3>1. ~ IsDuplicate(up[u].content)
        BY <2>1 DEF Passes
      <3>2. up[u].content # NoHash
        BY <1>1, ContentTypes, Sentinels DEF UploadInv
      <3>3. rows[q].file_hash # up[u].content
        BY <3>1, <3>2 DEF IsDuplicate, ExactDuplicates
      <3>4. QED
        BY <1>1, <2>1, <3>3 DEF TwinInv, HashKnown
    <2>2. QED
      BY <1>1, <1>2, <2>1 DEF TwinInv, NoTwinAhead, SameUpload, Rows
  <1>6. TwinsOverlapped'
    BY <1>1 DEF TwinInv, TwinsOverlapped, Rows
  <1>7. QED
    BY <1>3, <1>4, <1>5, <1>6 DEF TwinInv

LEMMA TwinsInsert ==
  ASSUME UploadInv, TwinInv, NEW u \in Client, Inserts(u)
  PROVE  TwinInv'
  <1>p. PICK p \in Photo : p = up[u].photo
    BY ContentTypes DEF UploadInv, Inserts
  <1>1. /\ AtInsert(u) /\ ~ AtInsert(u)'
        /\ \A v \in Client : v # u => up'[v] = up[v]
        /\ rows'[p] # None /\ rows'[p].image = up[u].content
        /\ rows'[p].file_hash \in {up[u].content, up[u].file_hash}
        /\ \A q \in Photo : q # p => rows'[q] = rows[q]
        /\ UNCHANGED excused
    BY <1>p DEF Inserts, OthersGoOn, AtInsert
  <1>2. \A v \in Client : AtInsert(v)' => v # u /\ AtInsert(v) /\ up'[v] = up[v]
    BY <1>1 DEF AtInsert
  <1>3. \A q \in Rows' : q = p \/ (q \in Rows /\ rows'[q] = rows[q])
    BY <1>1, RowsFact
  <1>4. HashKnown'
    BY <1>p, <1>1, <1>2, <1>3 DEF TwinInv, HashKnown
  <1>5. TwinUploads'
    BY <1>1, <1>2 DEF TwinInv, TwinUploads
  <1>6. NoTwinAhead'
    BY <1>p, <1>1, <1>2, <1>3 DEF TwinInv, TwinUploads, NoTwinAhead
  <1>7. TwinsOverlapped'
    <2>1. ASSUME NEW q \in Rows', q # p, rows'[q].image = rows'[p].image
          PROVE  p \in excused \/ q \in excused
      BY <1>p, <1>1, <1>3, <2>1 DEF TwinInv, NoTwinAhead
    <2>2. QED
      BY <1>1, <1>3, <2>1 DEF TwinInv, TwinsOverlapped
  <1>8. QED
    BY <1>4, <1>5, <1>6, <1>7 DEF TwinInv

LEMMA TwinsWork ==
  ASSUME UploadInv, TwinInv, NEW w \in Worker, NEW p \in Photo,
         Takes(w, p) \/ Fails(w, p) \/ \E c \in Content : Saves(w, p, c)
  PROVE  TwinInv'
  <1>1. CASE Takes(w, p) \/ Fails(w, p)
    <2>1. UNCHANGED <<up, excused>>
      BY <1>1 DEF Takes, Fails
    <2>2. \A q \in Rows' : q \in Rows /\ rows'[q].image = rows[q].image
                           /\ rows'[q].file_hash = rows[q].file_hash
      BY <1>1, RowsFact DEF Takes, Fails
    <2>3. QED
      BY <2>1, <2>2, TwinsOfRows
  <1>2. ASSUME NEW c \in Content, Saves(w, p, c) PROVE TwinInv'
    <2>1. UNCHANGED up /\ excused \subseteq excused'
      BY <1>2 DEF Saves
    <2>2. p \in Rows => rows[p].image = c
      <3>1. Carries(p, c) /\ (p \in Rows => Carries(p, rows[p].image))
        BY <1>2 DEF Saves, Carries
      <3>2. QED
        BY <3>1, ContentTypes DEF UploadInv, OneContent
    <2>3. \A q \in Rows' :
            /\ \/ q \in excused'
               \/ q \in Rows /\ rows'[q].image = rows[q].image
            /\ \/ rows'[q].file_hash = rows'[q].image
               \/ q \in Rows /\ rows'[q].image = rows[q].image /\ rows'[q].file_hash = rows[q].file_hash
      BY <1>2, <2>2, RowsFact DEF Saves
    <2>4. QED
      BY <2>1, <2>3, TwinsOfRows
  <1>3. QED
    BY <1>1, <1>2

LEMMA NextTwinInv ==
  ASSUME UploadInv, TwinInv, StepKind
  PROVE  TwinInv'
  <1>1. ASSUME NEW u \in Client, NEW p \in Photo, Starts(u, p) PROVE TwinInv'
    <2>1. \A v \in Client : AtInsert(v)' => AtInsert(v) /\ up'[v] = up[v]
      BY <1>1 DEF Starts, OthersGoOn, AtInsert
    <2>2. QED
      BY <1>1, <2>1, TwinsOfUploads DEF Starts
  <1>2. ASSUME NEW u \in Client, Queues(u) PROVE TwinInv'
    <2>1. \A v \in Client : AtInsert(v)' => AtInsert(v) /\ up'[v] = up[v]
      BY <1>2 DEF Queues, OthersGoOn, AtInsert
    <2>2. QED
      BY <1>2, <2>1, TwinsOfUploads DEF Queues
  <1>3. ASSUME NEW u \in Client, NEW answer \in Answer, Ends(u, answer) PROVE TwinInv'
    <2>1. \A v \in Client : AtInsert(v)' => AtInsert(v) /\ up'[v] = up[v]
      BY <1>3 DEF Ends, OthersGoOn, AtInsert
    <2>2. QED
      BY <1>3, <2>1, TwinsOfUploads DEF Ends
  <1>4. ASSUME Aside \/ \E p \in Photo : Deletes(p) PROVE TwinInv'
    <2>1. UNCHANGED <<up, excused>>
      BY <1>4 DEF Aside, Deletes
    <2>2. \A q \in Rows' : q \in Rows /\ rows'[q] = rows[q]
      BY <1>4, RowsFact DEF Aside, Deletes
    <2>3. QED
      BY <2>1, <2>2, TwinsOfRows
  <1>5. QED
    BY <1>1, <1>2, <1>3, <1>4, TwinsPass, TwinsInsert, TwinsWork DEF StepKind

LEMMA InitTwinInv == Init => TwinInv
  <1> SUFFICES ASSUME Init PROVE TwinInv
    OBVIOUS
  <1>1. Rows = {} /\ \A u \in Client : ~ AtInsert(u)
    BY DEF Init, Rows, AtInsert
  <1>2. QED
    BY <1>1 DEF TwinInv, HashKnown, TwinUploads, NoTwinAhead, TwinsOverlapped

\* Two photos of one content come only from uploads that overlapped, from a check
\* that failed, or from an instance that was saved after its row was deleted
\* (_check_for_duplicates, PhotoBulkUploadForm.save, process_image_async).
THEOREM TwinsHaveAnExcuse == Spec => []TwinsOverlapped
  <1> DEFINE Inv == UploadInv /\ TwinInv
  <1>1. Init => Inv
    BY InitUploadInv, InitTwinInv
  <1>2. Inv /\ [Next]_vars => Inv'
    BY NextUploadInv, NextTwinInv
  <1>3. Inv => TwinsOverlapped
    BY DEF TwinInv
  <1> HIDE DEF Inv
  <1>4. QED
    BY <1>1, <1>2, <1>3, PTL DEF Spec

-----------------------------------------------------------------------------
(* What was accepted.  A photo that has, or had, a row keeps a source: the  *)
(* upload that brought it, or the answer to that upload, which say which    *)
(* content it was.                                                          *)

\* The photo p was begun, or answered, for the content c.
Source(p, c) ==
    \/ answers[p] # None /\ answers[p].content = c
    \/ \E u \in Client : up[u] # None /\ up[u].photo = p /\ up[u].content = c

\* An upload that has inserted its photo left a row and a file.
Placed ==
    \A u \in Client : up[u] # None /\ up[u].at \in {"queue", "add"} =>
        up[u].photo \in Rows \cup deleted /\ up[u].photo \in stored

\* A photo of the content is there, or was deleted.
InLibrary(c) == \E q \in Rows \cup deleted : Source(q, c)

Accepted ==
    \A p \in Photo, c \in Content :
        answers[p] # None /\ answers[p].answer # "error" /\ answers[p].content = c => InLibrary(c)

LEMMA RowsStay ==
  ASSUME TypeInv, StepKind
  PROVE  Rows \cup deleted \subseteq (Rows \cup deleted)' /\ stored \subseteq stored'
  <1>1. ASSUME NEW u \in Client, \E p \in Photo : Starts(u, p)
        PROVE  Rows \cup deleted \subseteq (Rows \cup deleted)' /\ stored \subseteq stored'
    BY <1>1 DEF Starts, Rows
  <1>2. ASSUME NEW u \in Client, Passes(u) \/ Queues(u) \/ \E answer \in Answer : Ends(u, answer)
        PROVE  Rows \cup deleted \subseteq (Rows \cup deleted)' /\ stored \subseteq stored'
    BY <1>2 DEF Passes, Queues, Ends, Rows
  <1>3. ASSUME NEW u \in Client, Inserts(u)
        PROVE  Rows \cup deleted \subseteq (Rows \cup deleted)' /\ stored \subseteq stored'
    BY <1>3, RowsFact DEF Inserts
  <1>4. ASSUME NEW w \in Worker, NEW p \in Photo, Takes(w, p) \/ Fails(w, p)
        PROVE  Rows \cup deleted \subseteq (Rows \cup deleted)' /\ stored \subseteq stored'
    BY <1>4, RowsFact DEF Takes, Fails
  <1>5. ASSUME NEW w \in Worker, NEW p \in Photo, NEW c \in Content, Saves(w, p, c)
        PROVE  Rows \cup deleted \subseteq (Rows \cup deleted)' /\ stored \subseteq stored'
    BY <1>5, RowsFact DEF Saves
  <1>6. ASSUME NEW p \in Photo, Deletes(p)
        PROVE  Rows \cup deleted \subseteq (Rows \cup deleted)' /\ stored \subseteq stored'
    BY <1>6, RowsFact DEF Deletes
  <1>7. CASE Aside
    BY <1>7 DEF Aside, Rows
  <1>8. QED
    BY <1>1, <1>2, <1>3, <1>4, <1>5, <1>6, <1>7 DEF StepKind

LEMMA SourceStays ==
  ASSUME UploadInv, StepKind, NEW p \in Photo, NEW c, Source(p, c)
  PROVE  Source(p, c)'
  <1>1. ASSUME NEW u \in Client, \E q \in Photo : Starts(u, q) PROVE Source(p, c)'
    BY <1>1 DEF Starts, OthersGoOn, Source
  <1>2. ASSUME NEW u \in Client, Passes(u) \/ Queues(u) \/ Inserts(u) PROVE Source(p, c)'
    BY <1>2 DEF Passes, Queues, Inserts, OthersGoOn, SameUpload, Source
  <1>3. ASSUME NEW u \in Client, NEW answer \in Answer, Ends(u, answer) PROVE Source(p, c)'
    <2>1. CASE p = up[u].photo
      <3>1. Carries(p, c) /\ Carries(p, up[u].content)
        BY <1>3, <2>1 DEF Ends, Carries, Source
      <3>2. c = up[u].content
        BY <1>3, <3>1, ContentTypes DEF Source, Ends, UploadInv, OneContent
      <3>3. QED
        BY <1>3, <2>1, <3>2 DEF Ends, Source
    <2>2. CASE p # up[u].photo
      BY <1>3, <2>2 DEF Ends, OthersGoOn, Source
    <2>3. QED
      BY <2>1, <2>2
  <1>4. ASSUME UNCHANGED <<up, answers>> PROVE Source(p, c)'
    BY <1>4 DEF Source
  <1>5. ASSUME NEW w \in Worker, NEW q \in Photo,
               Takes(w, q) \/ Fails(w, q) \/ \E d \in Content : Saves(w, q, d)
        PROVE  Source(p, c)'
    BY <1>4, <1>5 DEF Takes, Fails, Saves
  <1>6. CASE Aside \/ \E q \in Photo : Deletes(q)
    BY <1>4, <1>6 DEF Aside, Deletes
  <1>7. QED
    BY <1>1, <1>2, <1>3, <1>5, <1>6 DEF StepKind

\* A row's content is that of its source.
LEMMA RowSource ==
  ASSUME UploadInv, NEW q \in Rows
  PROVE  /\ Source(q, rows[q].image)
         /\ \A c \in Content : Source(q, c) => rows[q].image = c
  <1>1. q \in Photo /\ Carries(q, rows[q].image) /\ rows[q].image \in Content
    BY ContentTypes, RowsFact DEF Carries, UploadInv
  <1>2. ASSUME NEW c \in Content, Source(q, c) PROVE rows[q].image = c
    <2>1. Carries(q, c)
      BY <1>2 DEF Carries, Source
    <2>2. QED
      BY <1>1, <2>1 DEF UploadInv, OneContent
  <1>3. \E c \in Content : Source(q, c)
    BY <1>1, ContentTypes DEF UploadInv, OnlyBegun, Begun, Source
  <1>4. QED
    BY <1>2, <1>3

LEMMA NextPlaced ==
  ASSUME UploadInv, Placed, StepKind
  PROVE  Placed'
  <1>1. Rows \cup deleted \subseteq (Rows \cup deleted)' /\ stored \subseteq stored'
    BY RowsStay DEF UploadInv
  <1>2. ASSUME NEW u \in Client, up'[u] # None, up'[u].at \in {"queue", "add"},
               \/ up[u] = up'[u]
               \/ /\ up[u] # None /\ up[u].at \in {"queue", "add"} /\ up'[u].photo = up[u].photo
        PROVE  up'[u].photo \in (Rows \cup deleted)' /\ up'[u].photo \in stored'
    BY <1>1, <1>2 DEF Placed
  <1>3. ASSUME NEW u \in Client, \E p \in Photo : Starts(u, p) PROVE Placed'
    BY <1>2, <1>3 DEF Starts, OthersGoOn, Placed
  <1>4. ASSUME NEW u \in Client, Passes(u) \/ Queues(u) PROVE Placed'
    BY <1>2, <1>4 DEF Passes, Queues, SameUpload, OthersGoOn, Placed
  <1>5. ASSUME NEW u \in Client, Inserts(u) PROVE Placed'
    <2>1. up'[u].photo \in (Rows \cup deleted)' /\ up'[u].photo \in stored'
      BY <1>5, ContentTypes, RowsFact DEF Inserts, SameUpload, UploadInv
    <2>2. QED
      BY <1>2, <1>5, <2>1 DEF Inserts, OthersGoOn, Placed
  <1>6. ASSUME NEW u \in Client, \E answer \in Answer : Ends(u, answer) PROVE Placed'
    BY <1>2, <1>6 DEF Ends, OthersGoOn, Placed
  <1>7. ASSUME UNCHANGED up PROVE Placed'
    BY <1>2, <1>7 DEF Placed
  <1>8. ASSUME NEW w \in Worker, NEW p \in Photo,
               Takes(w, p) \/ Fails(w, p) \/ \E c \in Content : Saves(w, p, c)
        PROVE  Placed'
    BY <1>7, <1>8 DEF Takes, Fails, Saves
  <1>9. CASE Aside \/ \E p \in Photo : Deletes(p)
    BY <1>7, <1>9 DEF Aside, Deletes
  <1>10. QED
    BY <1>3, <1>4, <1>5, <1>6, <1>8, <1>9 DEF StepKind

LEMMA NextAccepted ==
  ASSUME UploadInv, HashKnown, Placed, Accepted, StepKind
  PROVE  Accepted'
  <1>1. ASSUME NEW c, InLibrary(c) PROVE InLibrary(c)'
    <2>1. PICK q \in Rows \cup deleted : Source(q, c)
      BY <1>1 DEF InLibrary
    <2>2. q \in Photo /\ q \in (Rows \cup deleted)'
      BY RowsStay, RowsFact, Parts DEF UploadInv, SetsOK
    <2>3. Source(q, c)'
      BY <2>1, <2>2, SourceStays
    <2>4. QED
      BY <2>2, <2>3 DEF InLibrary
  <1>2. ASSUME NEW u \in Client, NEW answer \in Answer, Ends(u, answer) PROVE Accepted'
    <2>1. PICK p \in Photo, c \in Content : p = up[u].photo /\ c = up[u].content
      BY <1>2, ContentTypes DEF Ends, UploadInv
    <2>2. /\ answers'[p] # None /\ answers'[p].content = c /\ answers'[p].answer = answer
          /\ \A q \in Photo : q # p => answers'[q] = answers[q]
      BY <1>2, <2>1 DEF Ends
    <2>3. ASSUME answer # "error" PROVE InLibrary(c)
      <3>1. CASE answer \in {"created", "partly"}
        <4>1. p \in Rows \cup deleted /\ Source(p, c)
          BY <1>2, <2>1, <3>1 DEF Ends, Placed, Source
        <4>2. QED
          BY <4>1 DEF InLibrary
      <3>2. CASE answer = "duplicate"
        <4>1. IsDuplicate(c)
          BY <1>2, <2>1, <3>2 DEF Ends
        <4>2. PICK q \in Rows : rows[q].file_hash = c
          BY <4>1 DEF IsDuplicate, ExactDuplicates
        <4>3. rows[q].image = c
          BY <4>2, Sentinels DEF HashKnown
        <4>4. QED
          BY <4>3, RowSource DEF InLibrary
      <3>3. QED
        BY <2>3, <3>1, <3>2 DEF Answer
    <2>4. QED
      BY <1>1, <2>2, <2>3 DEF Accepted
  <1>3. ASSUME UNCHANGED answers PROVE Accepted'
    BY <1>1, <1>3 DEF Accepted
  <1>4. ASSUME NEW u \in Client, \E p \in Photo : Starts(u, p) PROVE Accepted'
    BY <1>3, <1>4 DEF Starts
  <1>5. ASSUME NEW u \in Client, Passes(u) \/ Queues(u) \/ Inserts(u) PROVE Accepted'
    BY <1>3, <1>5 DEF Passes, Queues, Inserts
  <1>6. ASSUME NEW w \in Worker, NEW p \in Photo,
               Takes(w, p) \/ Fails(w, p) \/ \E c \in Content : Saves(w, p, c)
        PROVE  Accepted'
    BY <1>3, <1>6 DEF Takes, Fails, Saves
  <1>7. CASE Aside \/ \E p \in Photo : Deletes(p)
    BY <1>3, <1>7 DEF Aside, Deletes
  <1>8. QED
    BY <1>2, <1>4, <1>5, <1>6, <1>7 DEF StepKind

\* Whatever an upload that was answered "created" or "duplicate" brought is in the
\* library, unless a photo of that content was deleted: not even the refusal of a
\* duplicate loses a file (views.py:195-246, forms.py, _check_for_duplicates).
THEOREM AcceptedStays == Spec => []AcceptedIsKept
  <1> DEFINE Inv == UploadInv /\ TwinInv /\ Placed /\ Accepted
  <1>1. Init => Inv
    <2>1. Init => Placed /\ Accepted
      BY DEF Init, Placed, Accepted
    <2>2. QED
      BY <2>1, InitUploadInv, InitTwinInv
  <1>2. Inv /\ [Next]_vars => Inv'
    BY NextUploadInv, NextTwinInv, NextPlaced, NextAccepted DEF TwinInv
  <1>3. Inv => AcceptedIsKept
    <2> SUFFICES ASSUME Inv, NEW p \in Photo, answers[p] # None, answers[p].answer # "error"
                 PROVE  \/ \E q \in Rows : rows[q].image = answers[p].content
                        \/ \E q \in deleted : Source(q, answers[p].content)
      BY DEF AcceptedIsKept, Source
    <2>1. answers[p].content \in Content
      BY ContentTypes DEF UploadInv
    <2>2. PICK q \in Rows \cup deleted : Source(q, answers[p].content)
      BY <2>1 DEF Accepted, InLibrary
    <2>3. QED
      BY <2>1, <2>2, RowSource
  <1> HIDE DEF Inv
  <1>4. QED
    BY <1>1, <1>2, <1>3, PTL DEF Spec

-----------------------------------------------------------------------------
(* What was created.  A photo whose task was queued is awaited by a task or *)
(* by a worker for as long as its row says that it is to be processed.      *)

Awaited(p) ==
    p \in Rows /\ rows[p].status \in {"pending", "processing"} => p \in queue \/ IsHeld(p)

\* An upload that has queued its task may rely on it.
Scheduled ==
    \A u \in Client, p \in Photo :
        up[u] # None /\ up[u].photo = p /\ up[u].at = "add" /\ up[u].how # "sync" => Awaited(p)

Created ==
    \A p \in Photo : answers[p] # None /\ answers[p].answer \in {"created", "partly"} =>
        /\ p \in Rows \cup deleted /\ p \in stored
        /\ answers[p].add /\ answers[p].answer = "created" => p \in members \cup moved \cup deleted
        /\ answers[p].queued => Awaited(p)

LEMMA AlbumStays ==
  ASSUME TypeInv, StepKind
  PROVE  members \cup moved \cup deleted \subseteq (members \cup moved \cup deleted)'
  <1>1. ASSUME NEW u \in Client, \E p \in Photo : Starts(u, p)
        PROVE  members \cup moved \cup deleted \subseteq (members \cup moved \cup deleted)'
    BY <1>1 DEF Starts
  <1>2. ASSUME NEW u \in Client,
               Passes(u) \/ Inserts(u) \/ Queues(u) \/ \E answer \in Answer : Ends(u, answer)
        PROVE  members \cup moved \cup deleted \subseteq (members \cup moved \cup deleted)'
    BY <1>2 DEF Passes, Inserts, Queues, Ends
  <1>3. ASSUME NEW w \in Worker, NEW p \in Photo,
               Takes(w, p) \/ Fails(w, p) \/ \E c \in Content : Saves(w, p, c)
        PROVE  members \cup moved \cup deleted \subseteq (members \cup moved \cup deleted)'
    BY <1>3 DEF Takes, Fails, Saves
  <1>4. CASE Aside \/ \E p \in Photo : Deletes(p)
    BY <1>4 DEF Aside, Deletes
  <1>5. QED
    BY <1>1, <1>2, <1>3, <1>4 DEF StepKind

\* Only an insertion makes a row that no task and no worker waits for.
LEMMA AwaitedStays ==
  ASSUME TypeInv, StepKind, NEW p \in Photo, Awaited(p),
         \A u \in Client : up[u] # None /\ up[u].at = "insert" => up[u].photo # p
  PROVE  Awaited(p)'
  <1>1. ASSUME UNCHANGED <<rows, held>>, p \in Rows => (p \in queue => p \in queue')
        PROVE  Awaited(p)'
    BY <1>1 DEF Awaited, IsHeld, Rows
  <1>2. ASSUME NEW u \in Client, \E q \in Photo : Starts(u, q) PROVE Awaited(p)'
    BY <1>1, <1>2 DEF Starts
  <1>3. ASSUME NEW u \in Client, Passes(u) \/ Queues(u) \/ \E answer \in Answer : Ends(u, answer)
        PROVE  Awaited(p)'
    BY <1>1, <1>3 DEF Passes, Queues, Ends
  <1>4. ASSUME NEW u \in Client, Inserts(u) PROVE Awaited(p)'
    <2>1. rows'[p] = rows[p] /\ UNCHANGED <<queue, held>>
      BY <1>4 DEF Inserts
    <2>2. QED
      BY <2>1, RowsFact DEF Awaited, IsHeld
  <1>5. ASSUME NEW w \in Worker, NEW q \in Photo, Takes(w, q) PROVE Awaited(p)'
    <2>1. CASE p = q
      BY <1>5, <2>1 DEF Takes, Awaited, IsHeld
    <2>2. CASE p # q
      <3>1. rows'[p] = rows[p] /\ (p \in queue => p \in queue')
        BY <1>5, <2>2 DEF Takes
      <3>2. IsHeld(p) => IsHeld(p)'
        BY <1>5 DEF Takes, IsHeld
      <3>3. QED
        BY <3>1, <3>2, RowsFact DEF Awaited
    <2>3. QED
      BY <2>1, <2>2
  <1>6. ASSUME NEW w \in Worker, NEW q \in Photo, Fails(w, q) \/ \E c \in Content : Saves(w, q, c)
        PROVE  Awaited(p)'
    <2>1. CASE p = q
      BY <1>6, <2>1, RowsFact DEF Fails, Saves, Awaited
    <2>2. CASE p # q
      <3>1. rows'[p] = rows[p] /\ (p \in queue => p \in queue')
        BY <1>6, <2>2 DEF Fails, Saves
      <3>2. IsHeld(p) => IsHeld(p)'
        BY <1>6, <2>2 DEF Fails, Saves, Released, IsHeld
      <3>3. QED
        BY <3>1, <3>2, RowsFact DEF Awaited
    <2>3. QED
      BY <2>1, <2>2
  <1>7. ASSUME NEW q \in Photo, Deletes(q) PROVE Awaited(p)'
    <2>1. CASE p = q
      BY <1>7, <2>1, RowsFact DEF Deletes, Awaited
    <2>2. CASE p # q
      <3>1. rows'[p] = rows[p] /\ UNCHANGED <<queue, held>>
        BY <1>7, <2>2 DEF Deletes
      <3>2. QED
        BY <3>1, RowsFact DEF Awaited, IsHeld
    <2>3. QED
      BY <2>1, <2>2
  <1>8. CASE Aside
    BY <1>1, <1>8 DEF Aside
  <1>9. QED
    BY <1>2, <1>3, <1>4, <1>5, <1>6, <1>7, <1>8 DEF StepKind

LEMMA NextScheduled ==
  ASSUME UploadInv, Scheduled, StepKind
  PROVE  Scheduled'
  <1>1. ASSUME NEW u \in Client, NEW p \in Photo, up[u] # None, up[u].photo = p, Awaited(p),
               up[u].at # "insert"
        PROVE  Awaited(p)'
    BY <1>1, AwaitedStays DEF UploadInv, OneUpload
  <1>2. ASSUME NEW u \in Client, up'[u] = up[u], NEW p \in Photo, up'[u] # None,
               up'[u].photo = p, up'[u].at = "add", up'[u].how # "sync"
        PROVE  Awaited(p)'
    BY <1>1, <1>2 DEF Scheduled
  <1>3. ASSUME NEW u \in Client, (\E p \in Photo : Starts(u, p)) \/ Passes(u)
        PROVE  Scheduled'
    BY <1>2, <1>3 DEF Starts, Passes, OthersGoOn, Scheduled
  <1>4. ASSUME NEW u \in Client, Inserts(u) PROVE Scheduled'
    BY <1>2, <1>4 DEF Inserts, SameUpload, OthersGoOn, Scheduled
  <1>5. ASSUME NEW u \in Client, Queues(u) PROVE Scheduled'
    <2>1. ASSUME NEW p \in Photo, up'[u].photo = p PROVE Awaited(p)'
      BY <1>5, <2>1 DEF Queues, SameUpload, Awaited
    <2>2. QED
      BY <1>2, <1>5, <2>1 DEF Queues, OthersGoOn, Scheduled
  <1>6. ASSUME NEW u \in Client, \E answer \in Answer : Ends(u, answer) PROVE Scheduled'
    BY <1>2, <1>6 DEF Ends, OthersGoOn, Scheduled
  <1>7. ASSUME UNCHANGED up PROVE Scheduled'
    BY <1>2, <1>7 DEF Scheduled
  <1>8. ASSUME NEW w \in Worker, NEW p \in Photo,
               Takes(w, p) \/ Fails(w, p) \/ \E c \in Content : Saves(w, p, c)
        PROVE  Scheduled'
    BY <1>7, <1>8 DEF Takes, Fails, Saves
  <1>9. CASE Aside \/ \E p \in Photo : Deletes(p)
    BY <1>7, <1>9 DEF Aside, Deletes
  <1>10. QED
    BY <1>3, <1>4, <1>5, <1>6, <1>8, <1>9 DEF StepKind

LEMMA NextCreated ==
  ASSUME UploadInv, Placed, Scheduled, Created, StepKind
  PROVE  Created'
  <1>1. ASSUME NEW p \in Photo, answers[p] # None, answers[p].answer \in {"created", "partly"},
               answers'[p] = answers[p]
        PROVE  /\ p \in (Rows \cup deleted)' /\ p \in stored'
               /\ answers'[p].add /\ answers'[p].answer = "created" => p \in (members \cup moved \cup deleted)'
               /\ answers'[p].queued => Awaited(p)'
    <2>1. \A u \in Client : up[u] # None /\ up[u].at = "insert" => up[u].photo # p
      BY <1>1 DEF UploadInv, Unanswered
    <2>2. Awaited(p) => Awaited(p)'
      BY <2>1, AwaitedStays DEF UploadInv
    <2>3. QED
      BY <1>1, <2>2, RowsStay, AlbumStays DEF Created, UploadInv
  <1>2. ASSUME NEW u \in Client, NEW answer \in Answer, Ends(u, answer) PROVE Created'
    <2>1. PICK p \in Photo : p = up[u].photo
      BY <1>2, ContentTypes DEF Ends, UploadInv
    <2>2. ASSUME answer \in {"created", "partly"}
          PROVE  /\ p \in (Rows \cup deleted)' /\ p \in stored'
                 /\ answers'[p].add /\ answer = "created" => p \in (members \cup moved \cup deleted)'
                 /\ answers'[p].queued => Awaited(p)'
      <3>1. /\ up[u] # None /\ up[u].at = "add"
            /\ answer = "created" /\ up[u].add => p \in members'
            /\ answers'[p].add = up[u].add /\ answers'[p].queued = (up[u].how # "sync")
        BY <1>2, <2>1, <2>2 DEF Ends
      <3>2. p \in Rows \cup deleted /\ p \in stored /\ (up[u].how # "sync" => Awaited(p))
        BY <2>1, <3>1 DEF Placed, Scheduled
      <3>3. Awaited(p) => Awaited(p)'
        BY <2>1, <3>1, AwaitedStays DEF UploadInv, OneUpload
      <3>4. QED
        BY <3>1, <3>2, <3>3, RowsStay DEF UploadInv
    <2>3. answers'[p].answer = answer /\ \A q \in Photo : q # p => answers'[q] = answers[q]
      BY <1>2, <2>1 DEF Ends
    <2>4. QED
      BY <1>1, <2>2, <2>3 DEF Created
  <1>3. ASSUME UNCHANGED answers PROVE Created'
    BY <1>1, <1>3 DEF Created
  <1>4. ASSUME NEW u \in Client,
               (\E p \in Photo : Starts(u, p)) \/ Passes(u) \/ Queues(u) \/ Inserts(u)
        PROVE  Created'
    BY <1>3, <1>4 DEF Starts, Passes, Queues, Inserts
  <1>5. ASSUME NEW w \in Worker, NEW p \in Photo,
               Takes(w, p) \/ Fails(w, p) \/ \E c \in Content : Saves(w, p, c)
        PROVE  Created'
    BY <1>3, <1>5 DEF Takes, Fails, Saves
  <1>6. CASE Aside \/ \E p \in Photo : Deletes(p)
    BY <1>3, <1>6 DEF Aside, Deletes
  <1>7. QED
    BY <1>2, <1>4, <1>5, <1>6 DEF StepKind

\* A photo that an answer listed as created, and that was not deleted since, has its
\* file and its row, and has a task or a worker for as long as it is to be processed;
\* it is in the album it was sent to, unless an admin moved it or the answer had the
\* file among the errors as well (views.py, forms.py: save, delay, list, link).
THEOREM CreatedStaysWhole == Spec => []CreatedIsWhole
  <1> DEFINE Inv == UploadInv /\ Placed /\ Scheduled /\ Created
  <1>1. Init => Inv
    <2>1. Init => Placed /\ Scheduled /\ Created
      BY DEF Init, Placed, Scheduled, Created
    <2>2. QED
      BY <2>1, InitUploadInv
  <1>2. Inv /\ [Next]_vars => Inv'
    BY NextUploadInv, NextPlaced, NextScheduled, NextCreated
  <1>3. Inv => CreatedIsWhole
    BY DEF Created, CreatedIsWhole, Awaited, IsHeld
  <1> HIDE DEF Inv
  <1>4. QED
    BY <1>1, <1>2, <1>3, PTL DEF Spec

-----------------------------------------------------------------------------
(* The thumbnail.  Only a worker that could crop an image completes it; and *)
(* a part that fits can be moved towards the focal point without leaving    *)
(* the image or the point.                                                  *)

LEMMA NewSizeFits ==
  ASSUME NEW w \in Nat \ {0}, NEW h \in Nat \ {0}
  PROVE  /\ NewSize(w, h)[1] \in Nat /\ NewSize(w, h)[1] <= w
         /\ NewSize(w, h)[2] \in Nat /\ NewSize(w, h)[2] <= h
  <1>1. TargetSize[1] = 4 /\ TargetSize[2] = 3
    BY DEF TargetSize
  <1>2. NewSize(w, h) = IF w * 3 > h * 4 THEN <<(h * 4) \div 3, h>> ELSE <<w, (w * 3) \div 4>>
    BY <1>1 DEF NewSize
  <1>3. CASE w * 3 > h * 4
    <2>1. NewSize(w, h)[1] = (h * 4) \div 3 /\ NewSize(w, h)[2] = h
      BY <1>2, <1>3
    <2>2. (h * 4) \div 3 \in Nat /\ (h * 4) \div 3 <= w
      BY <1>3
    <2>3. QED
      BY <2>1, <2>2
  <1>4. CASE ~ (w * 3 > h * 4)
    <2>1. NewSize(w, h)[1] = w /\ NewSize(w, h)[2] = (w * 3) \div 4
      BY <1>2, <1>4
    <2>2. (w * 3) \div 4 \in Nat /\ (w * 3) \div 4 <= h
      BY <1>4
    <2>3. QED
      BY <2>1, <2>2
  <1>5. QED
    BY <1>3, <1>4

\* One side of the thumbnail, with the focal point at "at".
LEMMA ClampedFacts ==
  ASSUME NEW length \in Nat \ {0}, NEW whole \in Nat, length <= whole, NEW at \in 0..whole
  PROVE  LET low == Clamped(at - (length \div 2), length, whole)
         IN /\ low \in Nat /\ low < low + length /\ low + length <= whole
            /\ low <= at /\ at <= low + length
  <1>1. length \div 2 \in Nat /\ length \div 2 <= length
    OBVIOUS
  <1>2. PICK half \in Nat : half = length \div 2 /\ half <= length
    BY <1>1
  <1>3. QED
    BY <1>2 DEF Clamped

LEMMA FocalFits ==
  ASSUME NEW i \in 0..Grid, NEW side \in Nat
  PROVE  (i * side) \div Grid \in 0..side
  <1>1. i = 0 \/ i = 1 \/ i = 2 \/ i = 3 \/ i = 4
    BY DEF Grid
  <1>2. CASE i = 0
    BY <1>2 DEF Grid
  <1>3. CASE i = 1
    BY <1>3 DEF Grid
  <1>4. CASE i = 2
    BY <1>4 DEF Grid
  <1>5. CASE i = 3
    BY <1>5 DEF Grid
  <1>6. CASE i = 4
    BY <1>6 DEF Grid
  <1>7. QED
    BY <1>1, <1>2, <1>3, <1>4, <1>5, <1>6

LEMMA CropFacts ==
  ASSUME NEW c \in Content, Croppable(c), NEW focal \in FocalPoints
  PROVE  LET whole == Variants(c, focal).preview
             part == Variants(c, focal).thumbnail
             x == (focal[1] * whole[3]) \div Grid
             y == (focal[2] * whole[4]) \div Grid
         IN /\ 0 <= part[1] /\ part[1] < part[3] /\ part[3] <= whole[3]
            /\ 0 <= part[2] /\ part[2] < part[4] /\ part[4] <= whole[4]
            /\ part[1] <= x /\ x <= part[3] /\ part[2] <= y /\ y <= part[4]
  <1>1. PICK w \in Nat \ {0}, h \in Nat \ {0} : w = Size[c][1] /\ h = Size[c][2]
    BY ContentAssumption
  <1>2. PICK i \in 0..Grid, j \in 0..Grid : i = focal[1] /\ j = focal[2]
    BY DEF FocalPoints
  <1>3. PICK n1 \in Nat \ {0}, n2 \in Nat \ {0} :
          /\ n1 = NewSize(w, h)[1] /\ n1 <= w
          /\ n2 = NewSize(w, h)[2] /\ n2 <= h
    BY <1>1, NewSizeFits DEF Croppable
  <1>4. PICK x \in 0..w, y \in 0..h : x = (i * w) \div Grid /\ y = (j * h) \div Grid
    BY FocalFits
  <1> DEFINE left == Clamped(x - (n1 \div 2), n1, w)
             top == Clamped(y - (n2 \div 2), n2, h)
  <1>5. SmartCrop(w, h, i, j) = <<left, top, left + n1, top + n2>>
    BY <1>3, <1>4 DEF SmartCrop
  <1>6. /\ left \in Nat /\ left < left + n1 /\ left + n1 <= w
        /\ left <= x /\ x <= left + n1
    BY <1>3, ClampedFacts
  <1>7. /\ top \in Nat /\ top < top + n2 /\ top + n2 <= h
        /\ top <= y /\ y <= top + n2
    BY <1>3, ClampedFacts
  <1> HIDE DEF left, top
  <1>8. /\ Variants(c, focal).preview[3] = w /\ Variants(c, focal).preview[4] = h
        /\ Variants(c, focal).thumbnail = <<left, top, left + n1, top + n2>>
    BY <1>1, <1>2, <1>5 DEF Variants
  <1>9. QED
    BY <1>2, <1>4, <1>6, <1>7, <1>8

CropInv == \A p \in Rows : rows[p].status = "complete" => Croppable(rows[p].image)

LEMMA NextCropInv ==
  ASSUME TypeInv, CropInv, StepKind
  PROVE  CropInv'
  <1>1. ASSUME UNCHANGED rows PROVE CropInv'
    BY <1>1 DEF CropInv, Rows, Croppable
  <1>2. ASSUME NEW p \in Photo, \A q \in Photo : q # p => rows'[q] = rows[q],
               rows'[p] # None /\ rows'[p].status = "complete" => Croppable(rows'[p].image)
        PROVE  CropInv'
    BY <1>2, RowsFact DEF CropInv, Croppable
  <1>3. ASSUME NEW u \in Client,
               \/ \E p \in Photo : Starts(u, p)
               \/ Passes(u) \/ Queues(u) \/ \E answer \in Answer : Ends(u, answer)
        PROVE  CropInv'
    BY <1>1, <1>3 DEF Starts, Passes, Queues, Ends
  <1>4. ASSUME NEW u \in Client, Inserts(u) PROVE CropInv'
    BY <1>2, <1>4, ContentTypes DEF Inserts
  <1>5. ASSUME NEW w \in Worker, NEW p \in Photo, Takes(w, p) \/ Fails(w, p) PROVE CropInv'
    BY <1>1, <1>2, <1>5 DEF Takes, Fails
  <1>6. ASSUME NEW w \in Worker, NEW p \in Photo, NEW c \in Content, Saves(w, p, c)
        PROVE  CropInv'
    BY <1>1, <1>2, <1>6 DEF Saves
  <1>7. CASE Aside \/ \E p \in Photo : Deletes(p)
    BY <1>1, <1>2, <1>7 DEF Aside, Deletes
  <1>8. QED
    BY <1>3, <1>4, <1>5, <1>6, <1>7 DEF StepKind

\* The thumbnail of a complete photo is a part of its image, is not empty and holds
\* the focal point, whatever the size of the image and wherever the point is
\* (SmartCrop.smart_crop, image_utils.py).
THEOREM CompleteStaysCropped == Spec => []CompleteIsCropped
  <1> DEFINE Inv == TypeInv /\ CropInv
  <1>1. Init => Inv
    BY InitTypeInv DEF Init, CropInv, Rows
  <1>2. Inv /\ [Next]_vars => Inv'
    BY NextStep, NextCropInv
  <1>3. Inv => CompleteIsCropped
    BY CropFacts, ContentTypes DEF CropInv, CompleteIsCropped
  <1> HIDE DEF Inv
  <1>4. QED
    BY <1>1, <1>2, <1>3, PTL DEF Spec

-----------------------------------------------------------------------------
(* What strangers see.  A request goes on with the album as it read it; as  *)
(* long as nobody changed the album since, it is public, and all its        *)
(* photos have been shown.                                                  *)

MembersShown == ~ album.private => members \subseteq exposed

OpenedPublic ==
    \A v \in Visitor :
        visit[v] # None /\ visit[v].kind = "stranger" /\ ~ visit[v].changed => ~ album.private

ShownInv == MembersShown /\ OpenedPublic /\ SentWasExposed

LEMMA ShownFrame ==
  ASSUME ShownInv, UNCHANGED <<album, visit, sent>>, exposed \subseteq exposed', MembersShown'
  PROVE  ShownInv'
  BY DEF ShownInv, OpenedPublic, SentWasExposed

LEMMA ExposeFacts ==
  ASSUME NEW private \in BOOLEAN, NEW ms, Expose(private, ms)
  PROVE  exposed \subseteq exposed' /\ (~ private => ms \subseteq exposed')
  BY DEF Expose

LEMMA AlbumFacts ==
  ASSUME TypeInv
  PROVE  album.private \in BOOLEAN /\ album.count \in Nat
  BY Parts DEF AlbumOK

LEMMA UploadShown ==
  ASSUME TypeInv, ShownInv, Upload \/ Process
  PROVE  ShownInv'
  <1>1. ASSUME UNCHANGED <<members, album, exposed, visit, sent>> PROVE ShownInv'
    BY <1>1, ShownFrame DEF ShownInv, MembersShown
  <1>2. ASSUME NEW u \in Client, AddToAlbum(u) PROVE ShownInv'
    <2>1. UNCHANGED <<album, visit, sent>> /\ Expose(album.private, members')
      BY <1>2 DEF AddToAlbum
    <2>2. exposed \subseteq exposed' /\ MembersShown'
      BY <2>1, AlbumFacts, ExposeFacts DEF MembersShown
    <2>3. QED
      BY <2>1, <2>2, ShownFrame
  <1>3. CASE Upload
    BY <1>1, <1>2, <1>3 DEF Upload, BeginUpload, CheckForDuplicates, CheckFails, InsertPhoto,
                           QueueProcessing, UploadFails, tables, history
  <1>4. CASE Process
    BY <1>1, <1>4 DEF Process, TaskFindsNoPhoto, BeginProcessing, CompleteProcessing,
                      ProcessingFails, tables, history
  <1>5. QED
    BY <1>3, <1>4

LEMMA AdminShown ==
  ASSUME TypeInv, ShownInv, Administer
  PROVE  ShownInv'
  <1>1. ASSUME NEW p \in Photo, DeletePhoto(p) PROVE ShownInv'
    <2>1. UNCHANGED <<album, visit, sent, exposed>> /\ members' \subseteq members
      BY <1>1 DEF DeletePhoto
    <2>2. QED
      BY <2>1, ShownFrame DEF ShownInv, MembersShown
  <1>2. ASSUME NEW p \in Photo, EditAlbumPhotos(p) PROVE ShownInv'
    <2>1. UNCHANGED <<album, visit, sent>> /\ Expose(album.private, members')
      BY <1>2 DEF EditAlbumPhotos
    <2>2. exposed \subseteq exposed' /\ MembersShown'
      BY <2>1, AlbumFacts, ExposeFacts DEF MembersShown
    <2>3. QED
      BY <2>1, <2>2, ShownFrame
  <1>3. ASSUME NEW private \in BOOLEAN, NEW downloads \in BOOLEAN, EditAlbum(private, downloads)
        PROVE  ShownInv'
    <2>1. /\ album' = [album EXCEPT !.private = private, !.downloads = downloads]
          /\ Expose(private, members) /\ UNCHANGED <<members, sent>>
          /\ visit' = [v \in Visitor |-> IF visit[v] = None THEN None
                                         ELSE [visit[v] EXCEPT !.changed = TRUE]]
      BY <1>3 DEF EditAlbum
    <2>2. album'.private = private
      BY <2>1, Parts DEF AlbumOK
    <2>3. exposed \subseteq exposed' /\ MembersShown'
      BY <2>1, <2>2, ExposeFacts DEF MembersShown
    <2>4. OpenedPublic'
      <3>1. ASSUME NEW v \in Visitor, visit'[v] # None PROVE visit'[v].changed
        <4>1. visit[v] # None /\ visit[v] \in VisitType
          BY <2>1, <3>1, Parts DEF VisitOK
        <4>2. visit'[v] = [visit[v] EXCEPT !.changed = TRUE]
          BY <2>1, <4>1
        <4>3. QED
          BY <4>1, <4>2 DEF VisitType
      <3>2. QED
        BY <3>1 DEF OpenedPublic
    <2>5. SentWasExposed'
      BY <2>1, <2>3 DEF ShownInv, SentWasExposed
    <2>6. QED
      BY <2>3, <2>4, <2>5 DEF ShownInv
  <1>4. QED
    BY <1>1, <1>2, <1>3 DEF Administer

LEMMA VisitShown ==
  ASSUME TypeInv, ShownInv, Visit
  PROVE  ShownInv'
  <1>1. PICK v \in Visitor :
          \/ \E kind \in Kind, page \in Page : OpenAlbum(v, kind, page)
          \/ CountAccess(v)
          \/ \E p \in Photo : SendPhotos(v, p)
    BY DEF Visit
  <1>2. ASSUME NEW kind \in Kind, NEW page \in Page, OpenAlbum(v, kind, page) PROVE ShownInv'
    <2> DEFINE new == [kind |-> kind, page |-> page, count |-> album.count, changed |-> FALSE]
    <2>1. /\ visit' = [visit EXCEPT ![v] = new] /\ Opens(kind)
          /\ UNCHANGED <<album, members, exposed, sent>>
      BY <1>2 DEF OpenAlbum, tables, history
    <2>2. new.kind = kind
      OBVIOUS
    <2> HIDE DEF new
    <2>3. kind = "stranger" => ~ album.private
      BY <2>1 DEF Opens
    <2>4. visit'[v] = new /\ \A o \in Visitor : o # v => visit'[o] = visit[o]
      BY <2>1, Parts DEF VisitOK
    <2>5. OpenedPublic'
      BY <2>1, <2>2, <2>3, <2>4 DEF ShownInv, OpenedPublic
    <2>6. QED
      BY <2>1, <2>5 DEF ShownInv, MembersShown, SentWasExposed
  <1>3. ASSUME CountAccess(v) PROVE ShownInv'
    <2>1. /\ visit[v] # None /\ visit[v].kind = "token"
          /\ album' = [album EXCEPT !.count = visit[v].count + 1]
          /\ visit' = [visit EXCEPT ![v].count = None]
          /\ UNCHANGED <<members, exposed, sent>>
      BY <1>3 DEF CountAccess, history
    <2>2. album'.private = album.private
      BY <2>1, Parts DEF AlbumOK
    <2>3. visit[v] \in VisitType
      BY <2>1, Parts DEF VisitOK
    <2>4. /\ visit'[v] # None => visit'[v].kind = "token"
          /\ \A o \in Visitor : o # v => visit'[o] = visit[o]
      BY <2>1, <2>3, Parts DEF VisitOK, VisitType
    <2>5. OpenedPublic'
      BY <2>2, <2>4 DEF ShownInv, OpenedPublic
    <2>6. QED
      BY <2>1, <2>2, <2>5 DEF ShownInv, MembersShown, SentWasExposed
  <1>4. ASSUME NEW p \in Photo, SendPhotos(v, p) PROVE ShownInv'
    <2>1. /\ visit[v] # None /\ visit' = [visit EXCEPT ![v] = None]
          /\ sent' = IF visit[v].kind # "stranger" THEN sent
                     ELSE sent \cup {[photo |-> q, late |-> visit[v].changed] :
                                         q \in Sent(visit[v].page, p)}
          /\ UNCHANGED <<album, members, exposed>>
      BY <1>4 DEF SendPhotos, tables
    <2>2. Sent(visit[v].page, p) \subseteq members
      BY DEF Sent
    <2>3. visit[v].changed \in BOOLEAN
      BY <2>1, Parts DEF VisitOK, VisitType
    <2>4. ASSUME visit[v].kind = "stranger", NEW q \in members
          PROVE  q \in exposed \/ visit[v].changed
      BY <2>1, <2>3, <2>4, AlbumFacts DEF ShownInv, OpenedPublic, MembersShown
    <2>5. SentWasExposed'
      <3>1. ASSUME NEW s \in sent', s \notin sent PROVE s.photo \in exposed \/ s.late
        <4>1. visit[v].kind = "stranger"
          BY <2>1, <3>1
        <4>2. PICK q \in Sent(visit[v].page, p) : s = [photo |-> q, late |-> visit[v].changed]
          BY <2>1, <3>1, <4>1
        <4>3. s.photo = q /\ s.late = visit[v].changed /\ q \in members
          BY <2>2, <4>2
        <4>4. QED
          BY <2>4, <4>1, <4>3
      <3>2. QED
        BY <2>1, <3>1 DEF ShownInv, SentWasExposed
    <2>6. visit'[v] = None /\ \A o \in Visitor : o # v => visit'[o] = visit[o]
      BY <2>1, Parts DEF VisitOK
    <2>7. OpenedPublic'
      BY <2>1, <2>6 DEF ShownInv, OpenedPublic
    <2>8. QED
      BY <2>1, <2>5, <2>7 DEF ShownInv, MembersShown
  <1>5. QED
    BY <1>1, <1>2, <1>3, <1>4

\* A stranger is sent only photos that were in the album while it was public, unless
\* the album was changed after the request had read it (album_detail, photo_exif_api
\* and download_photo in views.py read the album first and its photos afterwards).
THEOREM StrangersSeeTheExposed == Spec => []SentWasExposed
  <1> DEFINE Inv == TypeInv /\ ShownInv
  <1>1. Init => Inv
    BY InitTypeInv DEF Init, ShownInv, MembersShown, OpenedPublic, SentWasExposed
  <1>2. Inv /\ [Next]_vars => Inv'
    <2>1. ASSUME Inv, UNCHANGED vars PROVE ShownInv'
      BY <2>1, ShownFrame DEF vars, tables, history, ShownInv, MembersShown
    <2>2. ASSUME Inv, Next PROVE ShownInv'
      BY <2>2, UploadShown, AdminShown, VisitShown DEF Next
    <2>3. QED
      BY <2>1, <2>2, NextStep
  <1>3. Inv => SentWasExposed
    BY DEF ShownInv
  <1> HIDE DEF Inv
  <1>4. QED
    BY <1>1, <1>2, <1>3, PTL DEF Spec

-----------------------------------------------------------------------------
(* The filter of the list.  It counts rows of one hash where the column     *)
(* looks for another row: the rows are finitely many.                       *)

LEMMA NextFinite ==
  ASSUME TypeInv, IsFiniteSet(Rows), StepKind
  PROVE  IsFiniteSet(Rows')
  <1>1. ASSUME NEW p \in Photo, \A q \in Photo : q # p => rows'[q] = rows[q]
        PROVE  IsFiniteSet(Rows')
    <2>1. Rows' \subseteq Rows \cup {p}
      BY <1>1, RowsFact
    <2>2. QED
      BY <2>1, FS_AddElement, FS_Subset
  <1>2. ASSUME UNCHANGED rows PROVE IsFiniteSet(Rows')
    BY <1>2 DEF Rows
  <1>3. ASSUME NEW u \in Client,
               \/ \E p \in Photo : Starts(u, p)
               \/ Passes(u) \/ Queues(u) \/ \E answer \in Answer : Ends(u, answer)
        PROVE  IsFiniteSet(Rows')
    BY <1>2, <1>3 DEF Starts, Passes, Queues, Ends
  <1>4. ASSUME NEW u \in Client, Inserts(u) PROVE IsFiniteSet(Rows')
    BY <1>1, <1>4, ContentTypes DEF Inserts
  <1>5. ASSUME NEW w \in Worker, NEW p \in Photo,
               Takes(w, p) \/ Fails(w, p) \/ \E c \in Content : Saves(w, p, c)
        PROVE  IsFiniteSet(Rows')
    BY <1>1, <1>2, <1>5 DEF Takes, Fails, Saves
  <1>6. CASE Aside \/ \E p \in Photo : Deletes(p)
    BY <1>1, <1>2, <1>6 DEF Aside, Deletes
  <1>7. QED
    BY <1>3, <1>4, <1>5, <1>6 DEF StepKind

\* To count more than one is to find another.
LEMMA MoreThanOne ==
  ASSUME NEW S, IsFiniteSet(S)
  PROVE  /\ \A p \in S : Cardinality(S) > 1 <=> \E q \in S : q # p
         /\ Cardinality(S) > 1 => \E p \in S : TRUE
  <1>1. Cardinality(S) \in Nat
    BY FS_CardinalityType
  <1>2. ASSUME NEW p \in S PROVE Cardinality(S) > 1 <=> \E q \in S : q # p
    <2>1. CASE \E q \in S : q # p
      <3>1. PICK q \in S : q # p
        BY <2>1
      <3>2. /\ IsFiniteSet(S \ {p}) /\ Cardinality(S \ {p}) = Cardinality(S) - 1
        BY FS_RemoveElement
      <3>3. Cardinality(S \ {p}) # 0 /\ Cardinality(S \ {p}) \in Nat
        BY <3>1, <3>2, FS_EmptySet, FS_CardinalityType
      <3>4. QED
        BY <1>1, <2>1, <3>2, <3>3
    <2>2. CASE ~ \E q \in S : q # p
      <3>1. S = {p}
        BY <2>2
      <3>2. Cardinality(S) = 1
        BY <3>1, FS_Singleton
      <3>3. QED
        BY <2>2, <3>2
    <2>3. QED
      BY <2>1, <2>2
  <1>3. Cardinality(S) > 1 => \E p \in S : TRUE
    <2>1. S = {} => Cardinality(S) = 0
      BY FS_EmptySet
    <2>2. QED
      BY <1>1, <2>1
  <1>4. QED
    BY <1>2, <1>3

LEMMA HashTypes ==
  ASSUME TypeInv, NEW p \in Rows
  PROVE  rows[p].file_hash \in Content \cup {NoHash} /\ rows[p].perceptual_hash \in Content \cup {NoHash}
  BY Parts, RowsFact DEF RowsOK, Row

LEMMA ExactFacts ==
  ASSUME TypeInv, IsFiniteSet(Rows), NEW p \in Rows, NEW listed \in SUBSET Rows
  PROVE  /\ HasDuplicates(p) = "exact" <=> ExactDuplicates(rows[p].file_hash, Rows \ {p}) # {}
         /\ p \in ExactDuplicateIds(listed) <=> p \in listed /\ HasDuplicates(p) = "exact"
  <1> DEFINE hash == rows[p].file_hash
             same == {q \in Rows : rows[q].file_hash = hash}
  <1>1. HasDuplicates(p) = "exact" <=> ExactDuplicates(hash, Rows \ {p}) # {}
    BY DEF HasDuplicates
  <1>2. ExactDuplicates(hash, Rows \ {p}) # {} <=> hash # NoHash /\ \E q \in same : q # p
    BY DEF ExactDuplicates
  <1>3. p \in ExactDuplicateIds(listed) <=> p \in listed /\ hash # NoHash /\ Cardinality(same) > 1
    BY DEF ExactDuplicateIds
  <1>4. IsFiniteSet(same) /\ p \in same
    BY FS_Subset
  <1> HIDE DEF same
  <1>5. Cardinality(same) > 1 <=> \E q \in same : q # p
    BY <1>4, MoreThanOne
  <1>6. QED
    BY <1>1, <1>2, <1>3, <1>5

\* The filter agrees with the column.
LEMMA FilterFacts ==
  ASSUME TypeInv, IsFiniteSet(Rows), NEW listed \in SUBSET Rows, NEW p \in listed,
         NEW value \in {"exact", "similar", "unique"}
  PROVE  p \in DuplicateFilter(value, listed) <=> HasDuplicates(p) = value
  <1>1. p \in Rows
    OBVIOUS
  <1>2. p \in ExactDuplicateIds(listed) <=> HasDuplicates(p) = "exact"
    BY <1>1, ExactFacts
  <1>3. p \in SimilarOnlyIds(listed) <=> HasDuplicates(p) = "similar"
    <2>1. p \in SimilarOnlyIds(listed) <=> HasDuplicates(p) # "exact" /\ GetSimilarImages(p, Near) # {}
      BY <1>2 DEF SimilarOnlyIds
    <2>2. HasDuplicates(p) = IF HasDuplicates(p) = "exact" THEN "exact"
                             ELSE IF GetSimilarImages(p, Near) # {} THEN "similar" ELSE "unique"
      BY DEF HasDuplicates
    <2>3. QED
      BY <2>1, <2>2
  <1>4. HasDuplicates(p) \in {"exact", "similar", "unique"}
    BY DEF HasDuplicates
  <1>5. CASE value = "exact"
    BY <1>2, <1>5 DEF DuplicateFilter
  <1>6. CASE value = "similar"
    BY <1>3, <1>6 DEF DuplicateFilter
  <1>7. CASE value = "unique"
    <2>1. DuplicateFilter(value, listed) = listed \ (ExactDuplicateIds(listed) \cup SimilarOnlyIds(listed))
      BY <1>7 DEF DuplicateFilter
    <2>2. QED
      BY <1>2, <1>3, <1>4, <1>7, <2>1
  <1>8. QED
    BY <1>5, <1>6, <1>7

\* The action finds the hashes of the photos that the filter lists.
LEMMA FoundFacts ==
  ASSUME TypeInv, IsFiniteSet(Rows)
  PROVE  FindDuplicates(Rows) = {rows[p].file_hash : p \in DuplicateFilter("exact", Rows)}
  <1> DEFINE Of(h) == {p \in Rows : rows[p].file_hash # NoHash /\ rows[p].file_hash = h}
  <1>1. DuplicateFilter("exact", Rows) =
          {p \in Rows : rows[p].file_hash # NoHash
                        /\ Cardinality({q \in Rows : rows[q].file_hash = rows[p].file_hash}) > 1}
    BY DEF DuplicateFilter, ExactDuplicateIds
  <1>2. FindDuplicates(Rows) = {h \in Content : Cardinality(Of(h)) > 1}
    BY DEF FindDuplicates
  <1>3. ASSUME NEW h \in Content
        PROVE  Of(h) = {q \in Rows : rows[q].file_hash = h} /\ IsFiniteSet(Of(h))
    BY <1>3, Sentinels, FS_Subset
  <1>4. ASSUME NEW h \in FindDuplicates(Rows)
        PROVE  \E p \in DuplicateFilter("exact", Rows) : h = rows[p].file_hash
    <2>1. h \in Content /\ Cardinality(Of(h)) > 1
      BY <1>2, <1>4
    <2>2. PICK p \in Of(h) : TRUE
      BY <1>3, <2>1, MoreThanOne
    <2>3. p \in Rows /\ rows[p].file_hash = h /\ h # NoHash
      BY <2>2
    <2>4. QED
      BY <1>1, <1>3, <2>1, <2>3
  <1>5. ASSUME NEW p \in DuplicateFilter("exact", Rows)
        PROVE  rows[p].file_hash \in FindDuplicates(Rows)
    <2>1. p \in Rows /\ rows[p].file_hash # NoHash
      BY <1>1, <1>5
    <2>2. rows[p].file_hash \in Content
      BY <2>1, HashTypes
    <2>3. QED
      BY <1>1, <1>2, <1>3, <1>5, <2>2
  <1>6. QED
    BY <1>4, <1>5

\* The list, its filter, its action and the detail page agree on every photo, whichever
\* photos are listed, though each looks for duplicates in its own way
\* (PhotoAdmin.has_duplicates, DuplicateFilter, find_duplicates, duplicate_info).
THEOREM FilterAgrees == Spec => []FilterMatchesColumn
  <1> DEFINE Inv == TypeInv /\ IsFiniteSet(Rows)
  <1>1. Init => Inv
    <2>1. Init => Rows = {}
      BY DEF Init, Rows
    <2>2. QED
      BY <2>1, InitTypeInv, FS_EmptySet
  <1>2. Inv /\ [Next]_vars => Inv'
    BY NextStep, NextFinite
  <1>3. Inv => FilterMatchesColumn
    <2> SUFFICES ASSUME Inv PROVE FilterMatchesColumn
      OBVIOUS
    <2>1. ASSUME NEW p \in Rows, HasDuplicates(p) = "similar" PROVE SimilarImagesDisplay(p) # {}
      <3>1. PICK q \in GetSimilarImages(p, Near) : TRUE
        BY <2>1 DEF HasDuplicates
      <3>2. q \in Rows \ {p} /\ CompareHashes(rows[p].perceptual_hash, rows[q].perceptual_hash, Near)
        BY <3>1 DEF GetSimilarImages
      <3>3. Near \in Nat /\ NearShown \in Nat /\ Near <= NearShown
        BY BoundAssumption
      <3>4. /\ rows[p].perceptual_hash \in Content \cup {NoHash}
            /\ rows[q].perceptual_hash \in Content \cup {NoHash}
        BY <3>2, HashTypes
      <3>5. CompareHashes(rows[p].perceptual_hash, rows[q].perceptual_hash, NearShown)
        BY <3>2, <3>3, <3>4, ContentAssumption DEF CompareHashes
      <3>6. QED
        BY <3>2, <3>5 DEF SimilarImagesDisplay, GetSimilarImages
    <2>2. \A p \in Rows : HasDuplicates(p) = "exact" <=> DuplicateInfo(p) # {}
      BY ExactFacts DEF DuplicateInfo
    <2>3. QED
      BY <2>1, <2>2, FilterFacts, FoundFacts DEF FilterMatchesColumn
  <1> HIDE DEF Inv
  <1>4. QED
    BY <1>1, <1>2, <1>3, PTL DEF Spec
=============================================================================

--------------------------- MODULE FileIngestion ---------------------------
(***************************************************************************)
(* Runs of ingest_sequential (src/feefifofunds): the command finds the     *)
(* candle files in a directory and takes them one at a time.  It deletes a *)
(* file that is empty or too small; it sends the rows of another one to    *)
(* QuestDB and moves the file to the archive.  Two runs may work at the    *)
(* same time, files may be deposited while they work, a run may be cut     *)
(* off, and a connection may break.                                        *)
(*                                                                         *)
(* A file is known by its identity, whatever its name; its content never   *)
(* changes, and it appears under its name in one step.                     *)
(***************************************************************************)
EXTENDS Integers, FiniteSets

CONSTANTS
    File,       \* files that may be deposited
    Name,       \* the names of files
    Candle,     \* candles that files hold
    Content,    \* the contents that files may have
    Run,        \* runs of the command that may work at the same time
    Strict,     \* those with --stop-on-error
    NoFile,     \* no file under this name, or no file opened
    NoName,     \* the run works on no file
    MaxTime,    \* bound: seconds that may pass
    MaxFaults   \* bound: runs cut off and connections broken

ASSUME BoundAssumption == MaxTime \in Nat \ {0} /\ MaxFaults \in Nat

\* rows: its candles; short: those whose row has fewer than six fields; header: it
\* starts with a header line; small: it has fewer than MIN_FILE_SIZE bytes; bad: it
\* has one more row, of six fields or more, that cannot be read.
ASSUME ContentAssumption ==
    /\ Content \subseteq [rows : SUBSET Candle, short : SUBSET Candle,
                          header : BOOLEAN, small : BOOLEAN, bad : BOOLEAN]
    /\ \A c \in Content : c.short \subseteq c.rows

ASSUME SentinelAssumption == NoFile \notin File /\ NoName \notin Name

Steps == {"idle", "next", "check", "delete", "open", "send", "target", "move"}

\* Second 0 stands for the plain name.
Entry == [name : Name, second : 0..MaxTime, file : File]

VARIABLES
    content,  \* content[f]: a Content
    inbox,    \* inbox[n]: the file called n in the directory of new files
    archive,  \* the files in ingested/ohlcv: no two have one name and second
    deleted,  \* files that were deleted
    stored,   \* pairs <<f, c>>: candle c of file f was flushed to QuestDB
    step,     \* step[r]: what the run goes on to do
    todo,     \* todo[r]: names it found and has not taken yet
    current,  \* current[r]: the name it works on
    reading,  \* reading[r]: the file it opened
    unread,   \* unread[r]: the rows of that file it has not read yet
    buffer,   \* buffer[r]: the rows its Sender has not flushed yet
    target,   \* target[r]: the second in the name it moves the file to
    deposited, \* files deposited so far
    rushed,   \* history: those deposited under a name that a run was working on
    clock,    \* the current second
    faults    \* faults so far

disk == <<inbox, archive, deleted>>
sender == <<reading, unread, buffer>>
run == <<step, todo, current, sender, target>>
world == <<content, deposited, rushed, clock>>
vars == <<disk, stored, run, world, faults>>

-----------------------------------------------------------------------------
(* Files.                                                                   *)

Here(r) == inbox[current[r]]

\* The rows that are sent.
Rows(f) == content[f].rows \ content[f].short

Count(b) == IF b THEN 1 ELSE 0

Lines(c) == Cardinality(c.rows) + Count(c.header) + Count(c.bad)

\* _check_empty_file: too small, or at most one line.
CheckEmpty(f) == content[f].small \/ Lines(content[f]) < 2

Occupied(n, s) == \E e \in archive : e.name = n /\ e.second = s

WorkingOn(n) == \E r \in Run : current[r] = n

\* A file appears under a name and replaces the one that has it.
Deposit(f, n) ==
    /\ f \notin deposited
    /\ deposited' = deposited \cup {f}
    /\ inbox' = [inbox EXCEPT ![n] = f]
    /\ rushed' = IF WorkingOn(n) THEN rushed \cup {f} ELSE rushed
    /\ UNCHANGED <<archive, deleted, stored, run, content, clock, faults>>

Tick ==
    /\ clock < MaxTime
    /\ clock' = clock + 1
    /\ UNCHANGED <<disk, stored, run, content, deposited, rushed, faults>>

-----------------------------------------------------------------------------
(* A run.                                                                   *)

\* The run proceeds within the file it works on.
Proceed(r, next) ==
    /\ step' = [step EXCEPT ![r] = next]
    /\ UNCHANGED <<todo, current>>

\* The run is done with a file: the Sender is closed, and what it holds is gone.
Leave(r) ==
    /\ current' = [current EXCEPT ![r] = NoName]
    /\ reading' = [reading EXCEPT ![r] = NoFile]
    /\ unread' = [unread EXCEPT ![r] = {}]
    /\ buffer' = [buffer EXCEPT ![r] = {}]
    /\ target' = [target EXCEPT ![r] = 0]

NextFile(r) ==
    /\ step' = [step EXCEPT ![r] = "next"]
    /\ Leave(r)
    /\ UNCHANGED todo

\* The command ends.
End(r) ==
    /\ step' = [step EXCEPT ![r] = "idle"]
    /\ Leave(r)
    /\ todo' = [todo EXCEPT ![r] = {}]

\* process_file fails: the command stops, or takes the next file.
Fail(r) == IF r \in Strict THEN End(r) ELSE NextFile(r)

\* discover_files: those of the files that are there which the filters choose.
Start(r, names) ==
    /\ step[r] = "idle"
    /\ names # {}
    /\ \A n \in names : inbox[n] # NoFile
    /\ step' = [step EXCEPT ![r] = "next"]
    /\ todo' = [todo EXCEPT ![r] = names]
    /\ UNCHANGED <<disk, stored, current, sender, target, world, faults>>

\* The next file; their order is left open.  Its size is read for the display.
Take(r, n) ==
    /\ step[r] = "next"
    /\ n \in todo[r]
    /\ inbox[n] # NoFile
    /\ step' = [step EXCEPT ![r] = "check"]
    /\ todo' = [todo EXCEPT ![r] = @ \ {n}]
    /\ current' = [current EXCEPT ![r] = n]
    /\ UNCHANGED <<disk, stored, sender, target, world, faults>>

\* Outside of the inner try: a file that is gone ends the command.
Abort(r, n) ==
    /\ step[r] = "next"
    /\ n \in todo[r]
    /\ inbox[n] = NoFile
    /\ End(r)
    /\ UNCHANGED <<disk, stored, world, faults>>

Finish(r) ==
    /\ step[r] = "next"
    /\ todo[r] = {}
    /\ End(r)
    /\ UNCHANGED <<disk, stored, world, faults>>

Check(r) ==
    /\ step[r] = "check"
    /\ IF Here(r) = NoFile
       THEN Fail(r)
       ELSE /\ Proceed(r, IF CheckEmpty(Here(r)) THEN "delete" ELSE "open")
            /\ UNCHANGED <<sender, target>>
    /\ UNCHANGED <<disk, stored, world, faults>>

\* _delete_empty_file.
Delete(r) ==
    /\ step[r] = "delete"
    /\ IF Here(r) = NoFile
       THEN Fail(r) /\ UNCHANGED <<inbox, deleted>>
       ELSE /\ deleted' = deleted \cup {Here(r)}
            /\ inbox' = [inbox EXCEPT ![current[r]] = NoFile]
            /\ NextFile(r)
    /\ UNCHANGED <<archive, stored, world, faults>>

-----------------------------------------------------------------------------
(* Sending and moving a file.                                               *)

\* The Sender connects and the file is opened: it is this file that is read.
Open(r) ==
    /\ step[r] = "open"
    /\ IF Here(r) = NoFile
       THEN Fail(r)
       ELSE /\ Proceed(r, "send")
            /\ reading' = [reading EXCEPT ![r] = Here(r)]
            /\ unread' = [unread EXCEPT ![r] = content[Here(r)].rows]
            /\ UNCHANGED <<buffer, target>>
    /\ UNCHANGED <<disk, stored, world, faults>>

\* Rows of the file that the Sender hands to QuestDB.
Accept(r, candles) == stored' = stored \cup ({reading[r]} \X candles)

\* A short row is passed over; another one goes to the Sender, which may flush what
\* it holds.
Row(r, c) ==
    /\ step[r] = "send"
    /\ c \in unread[r]
    /\ unread' = [unread EXCEPT ![r] = @ \ {c}]
    /\ \/ c \notin Rows(reading[r]) /\ UNCHANGED <<buffer, stored>>
       \/ /\ c \in Rows(reading[r])
          /\ buffer' = [buffer EXCEPT ![r] = @ \cup {c}]
          /\ UNCHANGED stored
       \/ /\ c \in Rows(reading[r])
          /\ Accept(r, buffer[r] \cup {c})
          /\ buffer' = [buffer EXCEPT ![r] = {}]
    /\ UNCHANGED <<disk, step, todo, current, reading, target, world, faults>>

\* Mutant: the Sender is closed without a flush.
CloseWithoutFlush(r) ==
    /\ step[r] = "send"
    /\ unread[r] = {}
    /\ ~content[reading[r]].bad
    /\ buffer' = [buffer EXCEPT ![r] = {}]
    /\ Proceed(r, "target")
    /\ UNCHANGED <<disk, stored, reading, unread, target, world, faults>>

\* All rows were read or passed over: leaving the with statement flushes.
Close(r) ==
    /\ step[r] = "send"
    /\ unread[r] = {}
    /\ ~content[reading[r]].bad
    /\ Accept(r, buffer[r])
    /\ buffer' = [buffer EXCEPT ![r] = {}]
    /\ Proceed(r, "target")
    /\ UNCHANGED <<disk, reading, unread, target, world, faults>>

\* Mutant: what the bad row raises is swallowed, and the file is moved.
SwallowBadRow(r) ==
    /\ step[r] = "send"
    /\ content[reading[r]].bad
    /\ buffer' = [buffer EXCEPT ![r] = {}]
    /\ Proceed(r, "target")
    /\ UNCHANGED <<disk, stored, reading, unread, target, world, faults>>

\* A row of six fields or more that cannot be read raises; what the Sender holds is
\* not flushed.  (A name that gives no pair or no interval fails too, on every
\* attempt and before a row is sent.)
BadRow(r) ==
    /\ step[r] = "send"
    /\ content[reading[r]].bad
    /\ Fail(r)
    /\ UNCHANGED <<disk, stored, world, faults>>

\* Mutant: the name in the archive is always the plain one.
PlainTarget(r) ==
    /\ step[r] = "target"
    /\ target' = [target EXCEPT ![r] = 0]
    /\ Proceed(r, "move")
    /\ UNCHANGED <<disk, stored, sender, world, faults>>

\* The name in the archive: with the current second, if the plain one is taken.
Target(r) ==
    /\ step[r] = "target"
    /\ target' = [target EXCEPT ![r] = IF Occupied(current[r], 0) THEN clock ELSE 0]
    /\ Proceed(r, "move")
    /\ UNCHANGED <<disk, stored, sender, world, faults>>

\* The file that has the name now is moved, over one that has the target name.
Move(r) ==
    /\ step[r] = "move"
    /\ IF Here(r) = NoFile
       THEN Fail(r) /\ UNCHANGED <<inbox, archive>>
       ELSE LET n == current[r]
                s == target[r]
            IN  /\ archive' = {e \in archive : e.name # n \/ e.second # s}
                              \cup {[name |-> n, second |-> s, file |-> Here(r)]}
                /\ inbox' = [inbox EXCEPT ![n] = NoFile]
                /\ NextFile(r)
    /\ UNCHANGED <<deleted, stored, world, faults>>

\* The Sender cannot connect or its connection breaks, or the asset is not found.
Disconnect(r) ==
    /\ faults < MaxFaults
    /\ faults' = faults + 1
    /\ step[r] \in {"open", "send"}
    /\ Fail(r)
    /\ UNCHANGED <<disk, stored, world>>

\* The command is interrupted or killed.
Cut(r) ==
    /\ faults < MaxFaults
    /\ faults' = faults + 1
    /\ step[r] # "idle"
    /\ End(r)
    /\ UNCHANGED <<disk, stored, world>>

-----------------------------------------------------------------------------

Init ==
    /\ content \in [File -> Content]
    /\ inbox = [n \in Name |-> NoFile]
    /\ archive = {}
    /\ deleted = {}
    /\ stored = {}
    /\ step = [r \in Run |-> "idle"]
    /\ todo = [r \in Run |-> {}]
    /\ current = [r \in Run |-> NoName]
    /\ reading = [r \in Run |-> NoFile]
    /\ unread = [r \in Run |-> {}]
    /\ buffer = [r \in Run |-> {}]
    /\ target = [r \in Run |-> 0]
    /\ deposited = {}
    /\ rushed = {}
    /\ clock = 1
    /\ faults = 0

Outside == Tick \/ \E f \in File, n \in Name : Deposit(f, n)

Command(r) ==
    \/ \E names \in SUBSET Name : Start(r, names)
    \/ \E n \in Name : Take(r, n) \/ Abort(r, n)
    \/ Finish(r)

ProcessFile(r) ==
    \/ Check(r)
    \/ Delete(r)
    \/ Open(r)
    \/ \E c \in Candle : Row(r, c)
    \/ Close(r)
    \/ BadRow(r)
    \/ Target(r)
    \/ Move(r)

Next ==
    \/ Outside
    \/ \E r \in Run : Command(r) \/ ProcessFile(r) \/ Disconnect(r) \/ Cut(r)

Spec == Init /\ [][Next]_vars

-----------------------------------------------------------------------------
(* Properties.                                                              *)

RunTypeOK ==
    /\ step \in [Run -> Steps]
    /\ todo \in [Run -> SUBSET Name]
    /\ current \in [Run -> Name \cup {NoName}]
    /\ \A r \in Run : current[r] = NoName <=> step[r] \in {"idle", "next"}
    /\ reading \in [Run -> File \cup {NoFile}]
    /\ \A r \in Run : reading[r] = NoFile <=> step[r] \notin {"send", "target", "move"}
    /\ unread \in [Run -> SUBSET Candle]
    /\ buffer \in [Run -> SUBSET Candle]
    /\ target \in [Run -> 0..MaxTime]

\* The types of the variables; a run that works on a file knows its name, and has
\* it open while it sends and moves it.
TypeOK ==
    /\ content \in [File -> Content]
    /\ inbox \in [Name -> File \cup {NoFile}]
    /\ archive \subseteq Entry
    /\ deleted \subseteq File
    /\ stored \subseteq File \X Candle
    /\ RunTypeOK
    /\ deposited \subseteq File
    /\ rushed \subseteq deposited
    /\ clock \in 1..MaxTime
    /\ faults \in 0..MaxFaults

\* Of a file in the archive every row of six fields or more was stored, and none of
\* them was unreadable, whatever runs failed, were cut off or worked on the same
\* files.  Shorter rows were passed over, and are lost.  Nothing is said of a file
\* deposited under a name that a run was working on: the run moves it unread.
ArchivedIsStored ==
    \A e \in archive :
        e.file \notin rushed =>
            /\ ~content[e.file].bad
            /\ \A c \in Rows(e.file) : <<e.file, c>> \in stored

\* No file in the archive is both there and still in the directory of new files,
\* and no two of its entries have one name: moving a file takes it away.
OneEntryEach ==
    /\ \A e1, e2 \in archive :
          e1.file = e2.file \/ (e1.name = e2.name /\ e1.second = e2.second) => e1 = e2
    /\ \A e \in archive, n \in Name : inbox[n] # e.file

\* The first file archived under a name keeps the plain name: only a rushed file
\* is ever moved over it.  (Names with a second may collide within that second.)
OriginalsStay ==
    [][\A e \in archive \ archive' :
          \/ e.second # 0
          \/ \E a \in archive' \ archive : a.name = e.name /\ a.file \in rushed]_vars

-----------------------------------------------------------------------------
(* The runs keep the promise.                                               *)

PlaceOf(f) ==
    CASE f \notin deposited -> "new"
      [] f \in deposited /\ (\E n \in Name : inbox[n] = f) -> "waiting"
      [] f \in {e.file : e \in archive} -> "archived"
      [] f \in deleted -> "deleted"
      [] OTHER -> "overwritten"

Promise == INSTANCE IngestionPromise WITH
    rows <- [f \in File |-> Rows(f)],
    sound <- {f \in File : ~content[f].bad},
    blank <- {f \in File : CheckEmpty(f)},
    place <- [f \in File |-> PlaceOf(f)]

\* Ingestion keeps its promise about every file, through failures and retries.
KeepsPromise == Promise!Spec
=============================================================================

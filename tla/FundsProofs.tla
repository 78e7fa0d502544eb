----------------------------- MODULE FundsProofs ------------------------------
(***************************************************************************)
(* Proofs about FileIngestion, for any files, names, candles, contents and *)
(* runs: what is archived was stored, and the runs implement the promise.  *)
(***************************************************************************)
EXTENDS FileIngestion, PriceSources, FiniteSetTheorems, SequenceTheorems,
        NaturalsInduction, WellFoundedInduction, TLAPS

-----------------------------------------------------------------------------
(* The inductive invariant: what a run knows of the file it works on.       *)

\* Unless it is rushed, the file under the name is the one that was opened; what the
\* check found empty still is; all rows to be sent of the opened file are unread, in the
\* Sender, or stored, and stored once the run goes on; the plain name was free.
RunOK(r) ==
    LET f == Here(r)
        g == reading[r]
        mine == f # NoFile /\ f \notin rushed
    IN  /\ step[r] = "delete" /\ mine => CheckEmpty(f)
        /\ step[r] \in {"send", "target", "move"} /\ mine => f = g
        /\ step[r] = "send" =>
              \A c \in Rows(g) : c \in unread[r] \/ c \in buffer[r] \/ <<g, c>> \in stored
        /\ step[r] \in {"target", "move"} =>
              ~content[g].bad /\ \A c \in Rows(g) : <<g, c>> \in stored
        /\ step[r] = "move" /\ target[r] = 0 /\ mine => ~Occupied(current[r], 0)
        /\ g = NoFile => unread[r] = {} /\ buffer[r] = {}
        /\ g # NoFile => g \in deposited /\ buffer[r] \subseteq Rows(g)

\* A deposited file is in one place.
PlacesOK ==
    /\ \A n \in Name : inbox[n] # NoFile => inbox[n] \in deposited \ deleted
    /\ \A n, m \in Name : inbox[n] = inbox[m] /\ inbox[n] # NoFile => n = m
    /\ \A e \in archive : e.file \in deposited \ deleted
    /\ deleted \subseteq deposited

IInv ==
    /\ TypeOK
    /\ PlacesOK
    /\ OneEntryEach
    /\ ArchivedIsStored
    /\ \A r \in Run : RunOK(r)

-----------------------------------------------------------------------------
(* Type correctness.                                                        *)

LEMMA InitTypeOK == Init => TypeOK
  BY BoundAssumption DEF Init, TypeOK, RunTypeOK, Steps, Entry

\* The run is done with its file, or with all of them.
Left(r) ==
    /\ \E s \in {"idle", "next"} : step' = [step EXCEPT ![r] = s]
    /\ Leave(r)
    /\ todo' \in {todo, [todo EXCEPT ![r] = {}]}

LEMMA LeavingRuns ==
  ASSUME NEW r \in Run, Fail(r) \/ NextFile(r) \/ End(r)
  PROVE  Left(r)
  BY DEF Fail, NextFile, End, Left

LEMMA LeftType ==
  ASSUME TypeOK, NEW r \in Run, Left(r)
  PROVE  RunTypeOK'
  <1> PICK s \in {"idle", "next"} : step' = [step EXCEPT ![r] = s]
    BY DEF Left
  <1>1. todo' \in [Run -> SUBSET Name]
    BY DEF Left, TypeOK, RunTypeOK
  <1>2. step' \in [Run -> Steps] /\ step'[r] = s /\ \A x \in Run \ {r} : step'[x] = step[x]
    BY DEF TypeOK, RunTypeOK, Steps
  <1>3. /\ current' \in [Run -> Name \cup {NoName}]
        /\ \A x \in Run : current'[x] = NoName <=> step'[x] \in {"idle", "next"}
    BY <1>2 DEF Left, Leave, TypeOK, RunTypeOK
  <1>4. /\ reading' \in [Run -> File \cup {NoFile}]
        /\ \A x \in Run : reading'[x] = NoFile <=> step'[x] \notin {"send", "target", "move"}
    BY <1>2 DEF Left, Leave, TypeOK, RunTypeOK
  <1>5. unread' \in [Run -> SUBSET Candle] /\ buffer' \in [Run -> SUBSET Candle]
    BY DEF Left, Leave, TypeOK, RunTypeOK
  <1>6. target' \in [Run -> 0..MaxTime]
    BY BoundAssumption DEF Left, Leave, TypeOK, RunTypeOK
  <1>7. QED
    BY <1>1, <1>2, <1>3, <1>4, <1>5, <1>6 DEF RunTypeOK

\* A run proceeds with the file it has, opened or not.
LEMMA ProceedType ==
  ASSUME TypeOK, NEW r \in Run, NEW next \in Steps \ {"idle", "next"}, Proceed(r, next),
         step[r] \notin {"idle", "next"},
         next \in {"send", "target", "move"} <=> step[r] \in {"send", "target", "move"},
         UNCHANGED reading
  PROVE  /\ step' \in [Run -> Steps] /\ todo' \in [Run -> SUBSET Name]
         /\ current' \in [Run -> Name \cup {NoName}]
         /\ \A x \in Run : current'[x] = NoName <=> step'[x] \in {"idle", "next"}
         /\ reading' \in [Run -> File \cup {NoFile}]
         /\ \A x \in Run : reading'[x] = NoFile <=> step'[x] \notin {"send", "target", "move"}
  <1>1. step' \in [Run -> Steps] /\ step'[r] = next /\ \A x \in Run \ {r} : step'[x] = step[x]
    BY DEF Proceed, TypeOK, RunTypeOK
  <1>2. UNCHANGED <<todo, current, reading>>
    BY DEF Proceed
  <1>3. QED
    BY <1>1, <1>2 DEF TypeOK, RunTypeOK

LEMMA OutsideTypeOK == TypeOK /\ Outside => TypeOK'
  <1> SUFFICES ASSUME TypeOK, Outside PROVE TypeOK'
    OBVIOUS
  <1>1. CASE Tick
    BY <1>1, BoundAssumption DEF Tick, TypeOK, RunTypeOK, disk, run, sender
  <1>2. ASSUME NEW f \in File, NEW n \in Name, Deposit(f, n)
        PROVE  TypeOK'
    <2>1. inbox' \in [Name -> File \cup {NoFile}]
      BY <1>2 DEF Deposit, TypeOK
    <2>2. deposited' \subseteq File /\ rushed' \subseteq deposited'
      BY <1>2 DEF Deposit, TypeOK
    <2>3. RunTypeOK'
      BY <1>2 DEF Deposit, TypeOK, RunTypeOK, run, sender
    <2>4. QED
      BY <1>2, <2>1, <2>2, <2>3 DEF Deposit, TypeOK
  <1>3. QED
    BY <1>1, <1>2 DEF Outside

LEMMA CommandTypeOK ==
  ASSUME TypeOK, NEW r \in Run, Command(r)
  PROVE  TypeOK'
  <1>1. UNCHANGED <<disk, stored, world, faults>>
    BY DEF Command, Start, Take, Abort, Finish
  <1>2. RunTypeOK'
    <2>1. ASSUME NEW names \in SUBSET Name, Start(r, names)
          PROVE  RunTypeOK'
      <3>1. /\ step' \in [Run -> Steps] /\ step'[r] = "next" /\ step[r] = "idle"
            /\ \A x \in Run \ {r} : step'[x] = step[x]
        BY <2>1 DEF Start, TypeOK, RunTypeOK, Steps
      <3>2. todo' \in [Run -> SUBSET Name]
        BY <2>1 DEF Start, TypeOK, RunTypeOK
      <3>3. UNCHANGED <<current, reading, unread, buffer, target>>
        BY <2>1 DEF Start, sender
      <3>4. QED
        BY <3>1, <3>2, <3>3 DEF TypeOK, RunTypeOK
    <2>2. ASSUME NEW n \in Name, Take(r, n)
          PROVE  RunTypeOK'
      <3>1. /\ step' \in [Run -> Steps] /\ step'[r] = "check" /\ step[r] = "next"
            /\ \A x \in Run \ {r} : step'[x] = step[x]
        BY <2>2 DEF Take, TypeOK, RunTypeOK, Steps
      <3>2. todo' \in [Run -> SUBSET Name]
        BY <2>2 DEF Take, TypeOK, RunTypeOK
      <3>3. /\ current' \in [Run -> Name \cup {NoName}] /\ current'[r] = n /\ n # NoName
            /\ \A x \in Run \ {r} : current'[x] = current[x]
        BY <2>2, SentinelAssumption DEF Take, TypeOK, RunTypeOK
      <3>4. UNCHANGED <<reading, unread, buffer, target>>
        BY <2>2 DEF Take, sender
      <3>5. QED
        BY <3>1, <3>2, <3>3, <3>4 DEF TypeOK, RunTypeOK
    <2>3. CASE Finish(r) \/ \E n \in Name : Abort(r, n)
      BY <2>3, LeavingRuns, LeftType DEF Finish, Abort
    <2>4. QED
      BY <2>1, <2>2, <2>3 DEF Command
  <1>3. QED
    BY <1>1, <1>2 DEF TypeOK, disk, world

\* A step of process_file that leaves the disk's types, and what it does to a run.
LEMMA ProcessRunTypeOK ==
  ASSUME TypeOK, NEW r \in Run, ProcessFile(r)
  PROVE  RunTypeOK'
  <1>1. CASE Left(r)
    BY <1>1, LeftType
  <1> SUFFICES ASSUME ~Left(r) PROVE RunTypeOK'
    BY <1>1
  <1> ~Fail(r) /\ ~NextFile(r)
    BY LeavingRuns
  <1>2. CASE Check(r)
    <2>1. PICK s \in {"delete", "open"} : Proceed(r, s)
      BY <1>2 DEF Check
    <2>2. UNCHANGED <<reading, unread, buffer, target>> /\ step[r] = "check"
      BY <1>2 DEF Check, sender
    <2>3. QED
      BY <2>1, <2>2, ProceedType DEF Steps, TypeOK, RunTypeOK
  <1>3. CASE Delete(r)
    BY <1>3 DEF Delete
  <1>4. CASE Open(r)
    <2>1. /\ step' = [step EXCEPT ![r] = "send"] /\ step[r] = "open"
          /\ reading' = [reading EXCEPT ![r] = Here(r)]
          /\ unread' = [unread EXCEPT ![r] = content[Here(r)].rows]
          /\ UNCHANGED <<todo, current, buffer, target>>
          /\ Here(r) # NoFile
      BY <1>4 DEF Open, Proceed
    <2>2. current[r] \in Name
      BY <2>1 DEF TypeOK, RunTypeOK
    <2>3. Here(r) \in File
      BY <2>1, <2>2 DEF TypeOK, Here
    <2>4. content[Here(r)].rows \in SUBSET Candle
      BY <2>3, ContentAssumption DEF TypeOK
    <2>5. /\ step' \in [Run -> Steps] /\ step'[r] = "send"
          /\ \A x \in Run \ {r} : step'[x] = step[x]
      BY <2>1 DEF TypeOK, RunTypeOK, Steps
    <2>6. \A x \in Run : current'[x] = NoName <=> step'[x] \in {"idle", "next"}
      BY <2>1, <2>5 DEF TypeOK, RunTypeOK
    <2>7. /\ reading' \in [Run -> File \cup {NoFile}]
          /\ \A x \in Run : reading'[x] = NoFile <=> step'[x] \notin {"send", "target", "move"}
      BY <2>1, <2>3, <2>5, SentinelAssumption DEF TypeOK, RunTypeOK
    <2>8. unread' \in [Run -> SUBSET Candle]
      BY <2>1, <2>4 DEF TypeOK, RunTypeOK
    <2>9. QED
      BY <2>1, <2>5, <2>6, <2>7, <2>8 DEF TypeOK, RunTypeOK
  <1>5. ASSUME NEW c \in Candle, Row(r, c)
        PROVE  RunTypeOK'
    <2>1. UNCHANGED <<step, todo, current, reading, target>>
      BY <1>5 DEF Row
    <2>2. unread' \in [Run -> SUBSET Candle] /\ buffer' \in [Run -> SUBSET Candle]
      BY <1>5 DEF Row, TypeOK, RunTypeOK
    <2>3. QED
      BY <2>1, <2>2 DEF TypeOK, RunTypeOK
  <1>6. CASE Close(r)
    <2>1. Proceed(r, "target") /\ UNCHANGED <<reading, unread, target>> /\ step[r] = "send"
      BY <1>6 DEF Close
    <2>2. buffer' \in [Run -> SUBSET Candle]
      BY <1>6 DEF Close, TypeOK, RunTypeOK
    <2>3. QED
      BY <2>1, <2>2, ProceedType DEF Steps, TypeOK, RunTypeOK
  <1>7. CASE BadRow(r)
    BY <1>7 DEF BadRow
  <1>8. CASE Target(r)
    <2>1. /\ Proceed(r, "move") /\ UNCHANGED <<reading, unread, buffer>>
          /\ step[r] = "target"
      BY <1>8 DEF Target, sender
    <2>2. target' \in [Run -> 0..MaxTime]
      BY <1>8, BoundAssumption DEF Target, TypeOK, RunTypeOK
    <2>3. QED
      BY <2>1, <2>2, ProceedType DEF Steps, TypeOK, RunTypeOK
  <1>9. CASE Move(r)
    BY <1>9 DEF Move
  <1>10. QED
    BY <1>2, <1>3, <1>4, <1>5, <1>6, <1>7, <1>8, <1>9 DEF ProcessFile

\* The file a run would move or delete, when there is one.
LEMMA HereType ==
  ASSUME TypeOK, NEW r \in Run, step[r] \notin {"idle", "next"}
  PROVE  current[r] \in Name /\ Here(r) \in File \cup {NoFile}
  BY DEF TypeOK, RunTypeOK, Here

LEMMA ProcessTypeOK ==
  ASSUME TypeOK, NEW r \in Run, ProcessFile(r)
  PROVE  TypeOK'
  <1>1. UNCHANGED <<world, faults>>
    BY DEF ProcessFile, Check, Delete, Open, Row, Close, BadRow, Target, Move
  <1>2. RunTypeOK'
    BY ProcessRunTypeOK
  <1>3. stored' \subseteq File \X Candle
    <2>1. ASSUME NEW S \in SUBSET Candle, step[r] = "send", Accept(r, S)
          PROVE  stored' \subseteq File \X Candle
      <3>1. reading[r] \in File
        BY <2>1 DEF TypeOK, RunTypeOK
      <3>2. QED
        BY <2>1, <3>1 DEF Accept, TypeOK
    <2>2. buffer[r] \in SUBSET Candle
      BY DEF TypeOK, RunTypeOK
    <2>3. ASSUME NEW c \in Candle, Row(r, c)
          PROVE  stored' \subseteq File \X Candle
      <3>1. buffer[r] \cup {c} \in SUBSET Candle
        BY <2>2
      <3>2. UNCHANGED stored \/ Accept(r, buffer[r] \cup {c})
        BY <2>3 DEF Row
      <3>3. QED
        BY <2>1, <2>3, <3>1, <3>2 DEF Row, TypeOK
    <2>4. CASE Close(r)
      BY <2>1, <2>2, <2>4 DEF Close
    <2>5. CASE UNCHANGED stored
      BY <2>5 DEF TypeOK
    <2>6. QED
      BY <2>3, <2>4, <2>5 DEF ProcessFile, Check, Delete, Open, BadRow, Target, Move
  <1>4. inbox' \in [Name -> File \cup {NoFile}] /\ archive' \subseteq Entry /\ deleted' \subseteq File
    <2>1. CASE Delete(r)
      BY <2>1, HereType DEF Delete, TypeOK
    <2>2. CASE Move(r) /\ Here(r) # NoFile
      <3>1. current[r] \in Name /\ Here(r) \in File
        BY <2>2, HereType DEF Move
      <3>2. target[r] \in 0..MaxTime
        BY DEF TypeOK, RunTypeOK
      <3>3. [name |-> current[r], second |-> target[r], file |-> Here(r)] \in Entry
        BY <3>1, <3>2 DEF Entry
      <3>4. QED
        BY <2>2, <3>1, <3>3 DEF Move, TypeOK
    <2>3. CASE UNCHANGED disk
      BY <2>3 DEF disk, TypeOK
    <2>4. QED
      BY <2>1, <2>2, <2>3 DEF ProcessFile, Check, Open, Row, Close, BadRow, Target, Move, disk
  <1>5. QED
    BY <1>1, <1>2, <1>3, <1>4 DEF TypeOK, world

LEMMA FaultTypeOK ==
  ASSUME TypeOK, NEW r \in Run, Disconnect(r) \/ Cut(r)
  PROVE  TypeOK'
  <1>1. faults' \in 0..MaxFaults /\ UNCHANGED <<disk, stored, world>>
    BY BoundAssumption DEF Disconnect, Cut, TypeOK
  <1>2. RunTypeOK'
    BY LeavingRuns, LeftType DEF Disconnect, Cut
  <1>3. QED
    BY <1>1, <1>2 DEF TypeOK, disk, world

LEMMA NextTypeOK == TypeOK /\ [Next]_vars => TypeOK'
  <1> SUFFICES ASSUME TypeOK, [Next]_vars PROVE TypeOK'
    OBVIOUS
  <1>1. CASE UNCHANGED vars
    BY <1>1 DEF vars, disk, run, sender, world, TypeOK, RunTypeOK
  <1>2. QED
    BY <1>1, OutsideTypeOK, CommandTypeOK, ProcessTypeOK, FaultTypeOK DEF Next

-----------------------------------------------------------------------------
(* What a run knows stays true while others work.                           *)

\* The file under a name stays, goes, or makes way for a rushed one; nothing is
\* archived under a name whose file stays.
Bystanding ==
    /\ UNCHANGED content
    /\ stored \subseteq stored' /\ deposited \subseteq deposited' /\ rushed \subseteq rushed'
    /\ \A n \in Name : WorkingOn(n) => inbox'[n] \in {inbox[n], NoFile} \cup rushed'
    /\ \A e \in archive' : e \in archive \/ inbox'[e.name] = NoFile

LEMMA BystanderOK ==
  ASSUME TypeOK, NEW x \in Run, RunOK(x), Bystanding,
         step'[x] = step[x], current'[x] = current[x], reading'[x] = reading[x],
         unread'[x] = unread[x], buffer'[x] = buffer[x], target'[x] = target[x]
  PROVE  RunOK(x)'
  <1>1. CASE step[x] \in {"idle", "next"}
    BY <1>1 DEF RunOK, TypeOK, RunTypeOK, Rows, Bystanding
  <1>2. CASE step[x] \notin {"idle", "next"}
    <2>1. current[x] \in Name /\ WorkingOn(current[x])
      BY <1>2, HereType DEF WorkingOn
    <2>2. Here(x)' \in {Here(x), NoFile} \cup rushed'
      BY <2>1 DEF Bystanding, Here
    <2>3. CASE Here(x)' = NoFile \/ Here(x)' \in rushed'
      BY <2>3 DEF RunOK, Rows, Bystanding
    <2>4. CASE Here(x)' = Here(x) /\ Here(x) # NoFile
      <3>1. CheckEmpty(Here(x))' = CheckEmpty(Here(x))
        BY <2>4 DEF CheckEmpty, Bystanding, Here
      <3>2. Occupied(current[x], 0)' => Occupied(current[x], 0)
        BY <2>4 DEF Occupied, Bystanding, Here
      <3>3. QED
        BY <2>4, <3>1, <3>2 DEF RunOK, Rows, Bystanding
    <2>5. QED
      BY <2>2, <2>3, <2>4
  <1>3. QED
    BY <1>1, <1>2

\* A run that is done with its file knows nothing.
LEMMA LeftOK ==
  ASSUME TypeOK, NEW r \in Run, Left(r)
  PROVE  RunOK(r)' /\ \A x \in Run \ {r} :
            /\ step'[x] = step[x] /\ current'[x] = current[x] /\ reading'[x] = reading[x]
            /\ unread'[x] = unread[x] /\ buffer'[x] = buffer[x] /\ target'[x] = target[x]
  <1> PICK s \in {"idle", "next"} : step' = [step EXCEPT ![r] = s]
    BY DEF Left
  <1>1. step'[r] = s /\ reading'[r] = NoFile /\ unread'[r] = {} /\ buffer'[r] = {}
    BY DEF Left, Leave, TypeOK, RunTypeOK
  <1>2. RunOK(r)'
    BY <1>1 DEF RunOK
  <1>3. QED
    BY <1>2 DEF Left, Leave, TypeOK, RunTypeOK

FilesOK == PlacesOK /\ OneEntryEach /\ ArchivedIsStored

\* Rows that reach the database disturb no file.
LEMMA SameFilesOK ==
  ASSUME FilesOK, UNCHANGED <<disk, world>>, stored \subseteq stored'
  PROVE  FilesOK'
  BY DEF FilesOK, PlacesOK, OneEntryEach, ArchivedIsStored, Rows, disk, world

\* What a step of one run asks of the others, and of the files.
LEMMA OneRunMoves ==
  ASSUME IInv, NEW r \in Run, RunOK(r)', Bystanding,
         \A x \in Run \ {r} :
            /\ step'[x] = step[x] /\ current'[x] = current[x] /\ reading'[x] = reading[x]
            /\ unread'[x] = unread[x] /\ buffer'[x] = buffer[x] /\ target'[x] = target[x]
  PROVE  \A x \in Run : RunOK(x)'
  BY BystanderOK DEF IInv

LEMMA SameDiskBystanding ==
  ASSUME UNCHANGED <<disk, world>>, stored \subseteq stored'
  PROVE  Bystanding
  BY DEF Bystanding, disk, world

-----------------------------------------------------------------------------
(* The inductive invariant.                                                 *)

LEMMA InitInv == Init => IInv
  BY InitTypeOK, SentinelAssumption
     DEF Init, IInv, PlacesOK, OneEntryEach, ArchivedIsStored, RunOK

LEMMA OutsideInv ==
  ASSUME IInv, Outside
  PROVE  IInv'
  <1>1. TypeOK /\ TypeOK' /\ FilesOK
    BY OutsideTypeOK DEF IInv, FilesOK
  <1>2. CASE Tick
    <2>1. UNCHANGED <<disk, stored, content, deposited, rushed, run>>
      BY <1>2 DEF Tick
    <2>2. \A x \in Run : RunOK(x)'
      BY <2>1 DEF IInv, RunOK, run, sender, disk, Rows, Here, CheckEmpty, Occupied
    <2>3. FilesOK'
      BY <1>1, <2>1 DEF FilesOK, PlacesOK, OneEntryEach, ArchivedIsStored, Rows, disk
    <2>4. QED
      BY <1>1, <2>2, <2>3 DEF IInv, FilesOK
  <1>3. ASSUME NEW f \in File, NEW n \in Name, Deposit(f, n)
        PROVE  IInv'
    <2>1. /\ inbox' = [inbox EXCEPT ![n] = f] /\ f \notin deposited /\ f # NoFile
          /\ deposited' = deposited \cup {f}
          /\ rushed' = IF WorkingOn(n) THEN rushed \cup {f} ELSE rushed
          /\ UNCHANGED <<archive, deleted, stored, run, content>>
      BY <1>3, SentinelAssumption DEF Deposit
    <2>2. inbox'[n] = f /\ \A m \in Name \ {n} : inbox'[m] = inbox[m]
      BY <1>1, <2>1 DEF TypeOK
    <2>3. Bystanding
      BY <2>1, <2>2 DEF Bystanding
    <2>4. \A x \in Run : RunOK(x)'
      <3> SUFFICES ASSUME NEW x \in Run PROVE RunOK(x)'
        OBVIOUS
      <3>1. UNCHANGED <<step, current, reading, unread, buffer, target>>
        BY <2>1 DEF run, sender
      <3>2. QED
        BY <1>1, <2>3, <3>1, BystanderOK DEF IInv
    <2>5. PlacesOK'
      BY <1>1, <2>1, <2>2 DEF FilesOK, PlacesOK
    <2>6. OneEntryEach'
      BY <1>1, <2>1, <2>2 DEF FilesOK, PlacesOK, OneEntryEach
    <2>7. ArchivedIsStored'
      BY <1>1, <2>1 DEF FilesOK, PlacesOK, ArchivedIsStored, Rows
    <2>8. QED
      BY <1>1, <2>4, <2>5, <2>6, <2>7 DEF IInv
  <1>4. QED
    BY <1>2, <1>3 DEF Outside

\* Steps that leave the disk and the world alone.
LEMMA QuietInv ==
  ASSUME IInv, TypeOK', NEW r \in Run, RunOK(r)', UNCHANGED <<disk, world>>, stored \subseteq stored',
         \A x \in Run \ {r} :
            /\ step'[x] = step[x] /\ current'[x] = current[x] /\ reading'[x] = reading[x]
            /\ unread'[x] = unread[x] /\ buffer'[x] = buffer[x] /\ target'[x] = target[x]
  PROVE  IInv'
  BY SameFilesOK, OneRunMoves, SameDiskBystanding DEF IInv, FilesOK

LEMMA LeftInv ==
  ASSUME IInv, TypeOK', NEW r \in Run, Left(r), UNCHANGED <<disk, world, stored>>
  PROVE  IInv'
  <1>1. TypeOK
    BY DEF IInv
  <1>2. QED
    BY <1>1, LeftOK, QuietInv

LEMMA CommandInv ==
  ASSUME IInv, NEW r \in Run, Command(r)
  PROVE  IInv'
  <1>1. TypeOK /\ TypeOK'
    BY CommandTypeOK DEF IInv
  <1>2. UNCHANGED <<disk, world, stored>>
    BY DEF Command, Start, Take, Abort, Finish
  <1>3. CASE Left(r)
    BY <1>1, <1>2, <1>3, LeftInv
  <1>4. ASSUME NEW names \in SUBSET Name, Start(r, names)
        PROVE  IInv'
    <2>1. /\ step'[r] = "next" /\ step[r] = "idle"
          /\ \A x \in Run \ {r} : step'[x] = step[x]
          /\ UNCHANGED <<current, reading, unread, buffer, target>>
      BY <1>1, <1>4 DEF Start, sender, TypeOK, RunTypeOK
    <2>2. reading[r] = NoFile /\ RunOK(r)
      BY <1>1, <2>1 DEF IInv, TypeOK, RunTypeOK
    <2>3. RunOK(r)'
      BY <2>1, <2>2 DEF RunOK
    <2>4. QED
      BY <1>1, <1>2, <2>1, <2>3, QuietInv
  <1>5. ASSUME NEW n \in Name, Take(r, n)
        PROVE  IInv'
    <2>1. /\ step'[r] = "check" /\ step[r] = "next"
          /\ \A x \in Run \ {r} : step'[x] = step[x] /\ current'[x] = current[x]
          /\ UNCHANGED <<reading, unread, buffer, target>>
      BY <1>1, <1>5 DEF Take, sender, TypeOK, RunTypeOK
    <2>2. reading[r] = NoFile /\ RunOK(r)
      BY <1>1, <2>1 DEF IInv, TypeOK, RunTypeOK
    <2>3. RunOK(r)'
      BY <2>1, <2>2 DEF RunOK
    <2>4. QED
      BY <1>1, <1>2, <2>1, <2>3, QuietInv
  <1>6. QED
    BY <1>3, <1>4, <1>5, LeavingRuns DEF Command, Abort, Finish

\* Checking, opening, sending and choosing the target name.
LEMMA CheckInv ==
  ASSUME IInv, TypeOK', NEW r \in Run, Check(r)
  PROVE  IInv'
  <1>1. TypeOK /\ RunOK(r) /\ step[r] = "check" /\ UNCHANGED <<disk, world, stored>>
    BY DEF IInv, Check
  <1>2. CASE Here(r) = NoFile
    BY <1>1, <1>2, LeavingRuns, LeftInv DEF Check
  <1>3. CASE Here(r) # NoFile
    <2>1. /\ step'[r] = IF CheckEmpty(Here(r)) THEN "delete" ELSE "open"
          /\ \A x \in Run \ {r} : step'[x] = step[x]
          /\ UNCHANGED <<current, reading, unread, buffer, target>>
      BY <1>1, <1>3 DEF Check, Proceed, sender, TypeOK, RunTypeOK
    <2>2. reading[r] = NoFile
      BY <1>1 DEF TypeOK, RunTypeOK
    <2>3. step'[r] = "delete" => CheckEmpty(Here(r))'
      BY <1>1, <2>1 DEF CheckEmpty, Here, disk, world
    <2>4. RunOK(r)'
      BY <1>1, <2>1, <2>2, <2>3 DEF RunOK
    <2>5. QED
      BY <1>1, <2>1, <2>4, QuietInv
  <1>4. QED
    BY <1>2, <1>3

LEMMA OpenInv ==
  ASSUME IInv, TypeOK', NEW r \in Run, Open(r)
  PROVE  IInv'
  <1>1. TypeOK /\ RunOK(r) /\ PlacesOK /\ step[r] = "open" /\ UNCHANGED <<disk, world, stored>>
    BY DEF IInv, Open
  <1>2. CASE Here(r) = NoFile
    BY <1>1, <1>2, LeavingRuns, LeftInv DEF Open
  <1>3. CASE Here(r) # NoFile
    <2>1. /\ step'[r] = "send" /\ reading'[r] = Here(r) /\ unread'[r] = content[Here(r)].rows
          /\ UNCHANGED <<current, buffer, target>>
          /\ \A x \in Run \ {r} : /\ step'[x] = step[x] /\ reading'[x] = reading[x]
                                  /\ unread'[x] = unread[x]
      BY <1>1, <1>3 DEF Open, Proceed, TypeOK, RunTypeOK
    <2>2. reading[r] = NoFile /\ buffer[r] = {}
      BY <1>1 DEF TypeOK, RunTypeOK, RunOK
    <2>3. Here(r)' = Here(r) /\ Here(r) \in deposited'
      BY <1>1, <1>3, <2>1, HereType DEF Here, PlacesOK, disk, world
    <2>4. /\ Rows(Here(r))' = Rows(Here(r)) /\ Rows(reading[r])' = Rows(Here(r))
          /\ Rows(Here(r)) \subseteq unread'[r]
      BY <1>1, <2>1, <2>3 DEF Rows, world
    <2>5. RunOK(r)'
      BY <1>3, <2>1, <2>2, <2>3, <2>4 DEF RunOK
    <2>6. QED
      BY <1>1, <2>1, <2>5, QuietInv
  <1>4. QED
    BY <1>2, <1>3

LEMMA RowInv ==
  ASSUME IInv, TypeOK', NEW r \in Run, NEW c \in Candle, Row(r, c)
  PROVE  IInv'
  <1>1. TypeOK /\ RunOK(r) /\ step[r] = "send" /\ UNCHANGED <<disk, world>> /\ c \in unread[r]
    BY DEF IInv, Row
  <1>2. /\ UNCHANGED <<step, current, reading, target>>
        /\ unread'[r] = unread[r] \ {c}
        /\ \A x \in Run \ {r} : unread'[x] = unread[x] /\ buffer'[x] = buffer[x]
    BY <1>1 DEF Row, TypeOK, RunTypeOK
  <1>3. \/ c \notin Rows(reading[r]) /\ buffer'[r] = buffer[r] /\ UNCHANGED stored
        \/ /\ c \in Rows(reading[r])
           /\ buffer'[r] = buffer[r] \cup {c}
           /\ UNCHANGED stored
        \/ buffer'[r] = {} /\ Accept(r, buffer[r] \cup {c})
    BY <1>1 DEF Row, TypeOK, RunTypeOK
  <1>4. stored \subseteq stored'
    BY <1>3 DEF Accept
  <1>5. reading[r] # NoFile /\ Rows(reading[r])' = Rows(reading[r]) /\ Here(r)' = Here(r)
    BY <1>1, <1>2 DEF TypeOK, RunTypeOK, Rows, Here, disk, world
  <1>6. \A d \in Rows(reading[r]) :
           d \in unread'[r] \/ d \in buffer'[r] \/ <<reading[r], d>> \in stored'
    BY <1>1, <1>2, <1>3, <1>4 DEF RunOK, Accept
  <1>7. RunOK(r)'
    BY <1>1, <1>2, <1>3, <1>5, <1>6 DEF RunOK, disk, world
  <1>8. QED
    BY <1>1, <1>2, <1>4, <1>7, QuietInv

LEMMA CloseInv ==
  ASSUME IInv, TypeOK', NEW r \in Run, Close(r)
  PROVE  IInv'
  <1>1. TypeOK /\ RunOK(r) /\ step[r] = "send" /\ UNCHANGED <<disk, world>>
    BY DEF IInv, Close
  <1>2. /\ UNCHANGED <<current, reading, unread, target>>
        /\ step'[r] = "target" /\ unread[r] = {} /\ buffer'[r] = {}
        /\ \A x \in Run \ {r} : step'[x] = step[x] /\ buffer'[x] = buffer[x]
    BY <1>1 DEF Close, Proceed, TypeOK, RunTypeOK
  <1>3. stored' = stored \cup ({reading[r]} \X buffer[r])
    BY DEF Close, Accept
  <1>4. reading[r] # NoFile /\ Rows(reading[r])' = Rows(reading[r]) /\ Here(r)' = Here(r)
    BY <1>1, <1>2 DEF TypeOK, RunTypeOK, Rows, Here, disk, world
  <1>5. \A d \in Rows(reading[r]) : <<reading[r], d>> \in stored'
    BY <1>1, <1>2, <1>3 DEF RunOK
  <1>6. ~content'[reading[r]].bad
    BY <1>1 DEF Close, world
  <1>7. RunOK(r)'
    BY <1>1, <1>2, <1>4, <1>5, <1>6 DEF RunOK, disk, world
  <1>8. QED
    BY <1>1, <1>2, <1>3, <1>7, QuietInv

LEMMA TargetInv ==
  ASSUME IInv, TypeOK', NEW r \in Run, Target(r)
  PROVE  IInv'
  <1>1. TypeOK /\ RunOK(r) /\ step[r] = "target" /\ UNCHANGED <<disk, stored, world>>
    BY DEF IInv, Target
  <1>2. /\ UNCHANGED <<current, reading, unread, buffer>>
        /\ step'[r] = "move"
        /\ target'[r] = IF Occupied(current[r], 0) THEN clock ELSE 0
        /\ \A x \in Run \ {r} : step'[x] = step[x] /\ target'[x] = target[x]
    BY <1>1 DEF Target, Proceed, sender, TypeOK, RunTypeOK
  <1>3. reading[r] # NoFile /\ Rows(reading[r])' = Rows(reading[r]) /\ Here(r)' = Here(r)
    BY <1>1, <1>2 DEF TypeOK, RunTypeOK, Rows, Here, disk, world
  <1>4. target'[r] = 0 => ~Occupied(current[r], 0)'
    <2>1. clock # 0 /\ (Occupied(current[r], 0)' <=> Occupied(current[r], 0))
      BY <1>1, <1>2, BoundAssumption DEF TypeOK, Occupied, disk
    <2>2. QED
      BY <1>2, <2>1
  <1>5. RunOK(r)'
    BY <1>1, <1>2, <1>3, <1>4 DEF RunOK, disk, world
  <1>6. QED
    BY <1>1, <1>2, <1>5, QuietInv

LEMMA DeleteInv ==
  ASSUME IInv, TypeOK', NEW r \in Run, Delete(r)
  PROVE  IInv'
  <1>1. /\ TypeOK /\ PlacesOK /\ OneEntryEach /\ ArchivedIsStored
        /\ step[r] = "delete" /\ UNCHANGED <<archive, world, stored>>
    BY DEF IInv, Delete
  <1>2. CASE Here(r) = NoFile
    BY <1>1, <1>2, LeavingRuns, LeftInv DEF Delete, disk
  <1>3. CASE Here(r) # NoFile
    <2> DEFINE n == current[r]
    <2>1. n \in Name /\ Here(r) \in File /\ Here(r) = inbox[n]
      BY <1>1, <1>3, HereType DEF Here
    <2>2. /\ deleted' = deleted \cup {inbox[n]} /\ Left(r)
          /\ inbox'[n] = NoFile /\ \A m \in Name \ {n} : inbox'[m] = inbox[m]
      BY <1>1, <1>3, <2>1, LeavingRuns DEF Delete, TypeOK
    <2>3. Bystanding
      BY <1>1, <2>2 DEF Bystanding, world
    <2>4. \A x \in Run : RunOK(x)'
      BY <1>1, <2>2, <2>3, LeftOK, OneRunMoves
    <2>5. PlacesOK'
      BY <1>1, <1>3, <2>1, <2>2 DEF PlacesOK, OneEntryEach, world
    <2>6. OneEntryEach'
      BY <1>1, <2>1, <2>2, SentinelAssumption DEF OneEntryEach, TypeOK, Entry
    <2>7. ArchivedIsStored'
      BY <1>1 DEF ArchivedIsStored, Rows, world
    <2>8. QED
      BY <2>4, <2>5, <2>6, <2>7 DEF IInv
  <1>4. QED
    BY <1>2, <1>3

\* What a move does, when there is a file to move.
Moved(r) ==
    LET n == current[r]
        s == target[r]
        f == inbox[n]
    IN  /\ n \in Name /\ s \in 0..MaxTime /\ f \in File
        /\ f \notin rushed => ~content[f].bad /\ \A c \in Rows(f) : <<f, c>> \in stored
        /\ f \in rushed \/ s # 0 \/ ~Occupied(n, 0)
        /\ archive' = {e \in archive : e.name # n \/ e.second # s}
                      \cup {[name |-> n, second |-> s, file |-> f]}
        /\ inbox'[n] = NoFile /\ \A m \in Name \ {n} : inbox'[m] = inbox[m]
        /\ Left(r)
        /\ UNCHANGED <<deleted, stored, world, faults>>

LEMMA MoveMoves ==
  ASSUME IInv, NEW r \in Run, Move(r), Here(r) # NoFile
  PROVE  Moved(r)
  <1>1. TypeOK /\ RunOK(r) /\ step[r] = "move"
    BY DEF IInv, Move
  <1>2. current[r] \in Name /\ Here(r) \in File /\ target[r] \in 0..MaxTime
    BY <1>1, HereType DEF TypeOK, RunTypeOK
  <1>3. Here(r) \in rushed \/ Here(r) = reading[r]
    BY <1>1 DEF RunOK
  <1>4. Here(r) \notin rushed =>
           ~content[Here(r)].bad /\ \A c \in Rows(Here(r)) : <<Here(r), c>> \in stored
    BY <1>1, <1>3 DEF RunOK
  <1>5. Here(r) \in rushed \/ target[r] # 0 \/ ~Occupied(current[r], 0)
    BY <1>1 DEF RunOK
  <1>6. Left(r)
    BY LeavingRuns DEF Move
  <1>7. QED
    BY <1>1, <1>2, <1>4, <1>5, <1>6 DEF Moved, Move, Here, TypeOK

LEMMA MoveInv ==
  ASSUME IInv, TypeOK', NEW r \in Run, Move(r)
  PROVE  IInv'
  <1>1. /\ TypeOK /\ PlacesOK /\ OneEntryEach /\ ArchivedIsStored
        /\ step[r] = "move" /\ UNCHANGED <<deleted, world, stored>>
    BY DEF IInv, Move
  <1>2. CASE Here(r) = NoFile
    BY <1>1, <1>2, LeavingRuns, LeftInv DEF Move, disk
  <1>3. CASE Here(r) # NoFile
    <2> DEFINE n == current[r]
               s == target[r]
               f == inbox[n]
               new == [name |-> n, second |-> s, file |-> f]
    <2>1. Moved(r)
      BY <1>3, MoveMoves
    <2>2. \A e \in archive' : (e \in archive /\ (e.name # n \/ e.second # s)) \/ e = new
      BY <2>1 DEF Moved
    <2>3. Bystanding
      BY <1>1, <2>1, <2>2 DEF Bystanding, Moved, world
    <2>4. \A x \in Run : RunOK(x)'
      BY <1>1, <2>1, <2>3, LeftOK, OneRunMoves DEF Moved
    <2>5. f # NoFile /\ f \in deposited \ deleted /\ \A e \in archive : e.file # f
      BY <1>1, <2>1, SentinelAssumption DEF Moved, PlacesOK, OneEntryEach
    <2>6. PlacesOK'
      <3>1. \A m \in Name : inbox'[m] \in {inbox[m], NoFile}
        BY <2>1 DEF Moved
      <3>2. \A e \in archive' : e.file \in deposited \ deleted
        BY <1>1, <2>2, <2>5 DEF PlacesOK
      <3>3. QED
        BY <1>1, <3>1, <3>2 DEF PlacesOK, world
    <2>7. OneEntryEach'
      <3>1. ASSUME NEW e1 \in archive', NEW e2 \in archive',
                   e1.file = e2.file \/ (e1.name = e2.name /\ e1.second = e2.second)
            PROVE  e1 = e2
        BY <1>1, <2>2, <2>5, <3>1 DEF OneEntryEach
      <3>2. ASSUME NEW e \in archive', NEW m \in Name
            PROVE  inbox'[m] # e.file
        <4>1. e.file \in File /\ e.file # NoFile
          BY SentinelAssumption DEF TypeOK, Entry
        <4>2. CASE m = n
          BY <2>1, <4>1, <4>2 DEF Moved
        <4>3. CASE m # n
          BY <1>1, <2>1, <2>2, <2>5, <4>3 DEF Moved, OneEntryEach, PlacesOK
        <4>4. QED
          BY <4>2, <4>3
      <3>3. QED
        BY <3>1, <3>2 DEF OneEntryEach
    <2>8. ArchivedIsStored'
      BY <1>1, <2>1, <2>2 DEF Moved, ArchivedIsStored, Rows, world
    <2>9. QED
      BY <2>4, <2>6, <2>7, <2>8 DEF IInv
  <1>4. QED
    BY <1>2, <1>3

LEMMA ProcessInv ==
  ASSUME IInv, NEW r \in Run, ProcessFile(r)
  PROVE  IInv'
  <1>1. TypeOK'
    BY ProcessTypeOK DEF IInv
  <1>2. CASE BadRow(r)
    BY <1>1, <1>2, LeavingRuns, LeftInv DEF BadRow
  <1>3. QED
    BY <1>1, <1>2, CheckInv, DeleteInv, OpenInv, RowInv, CloseInv, TargetInv, MoveInv
       DEF ProcessFile

LEMMA NextInv == IInv /\ [Next]_vars => IInv'
  <1> SUFFICES ASSUME IInv, [Next]_vars PROVE IInv'
    OBVIOUS
  <1>1. TypeOK'
    BY NextTypeOK DEF IInv
  <1>2. ASSUME NEW r \in Run, Disconnect(r) \/ Cut(r)
        PROVE  IInv'
    BY <1>1, <1>2, LeavingRuns, LeftInv DEF Disconnect, Cut
  <1>3. CASE UNCHANGED vars
    BY <1>3 DEF vars, disk, run, sender, world, IInv, TypeOK, RunTypeOK, PlacesOK, OneEntryEach,
                ArchivedIsStored, RunOK, Rows, Here, CheckEmpty, Occupied
  <1>4. QED
    BY <1>2, <1>3, OutsideInv, CommandInv, ProcessInv DEF Next

-----------------------------------------------------------------------------
(* Theorems.                                                                *)

\* The inductive invariant holds in every state.
THEOREM Invariance == Spec => []IInv
  BY InitInv, NextInv, PTL DEF Spec

\* The variables keep their types; a run knows the name of the file it works on.
THEOREM TypeCorrect == Spec => []TypeOK
  <1>1. IInv => TypeOK
    BY DEF IInv
  <1>2. QED
    BY <1>1, Invariance, PTL

\* A file in the archive was ingested to its last row, unless it was rushed: for any
\* number of runs, files, failures and interruptions.
THEOREM ArchiveIsIngested == Spec => []ArchivedIsStored
  <1>1. IInv => ArchivedIsStored
    BY DEF IInv
  <1>2. QED
    BY <1>1, Invariance, PTL

\* A file is in one place only, and a place holds one file.
THEOREM EntriesAreUnique == Spec => []OneEntryEach
  <1>1. IInv => OneEntryEach
    BY DEF IInv
  <1>2. QED
    BY <1>1, Invariance, PTL

\* The first file archived under a name is never lost to one that a run has read.
THEOREM FirstEntriesStay == Spec => OriginalsStay
  <1> DEFINE Kept ==
        \A e \in archive \ archive' :
          \/ e.second # 0
          \/ \E a \in archive' \ archive : a.name = e.name /\ a.file \in rushed
  <1>1. ASSUME IInv, [Next]_vars
        PROVE  [Kept]_vars
    <2>1. ASSUME NEW r \in Run, Move(r)
          PROVE  Kept
      <3>1. CASE Here(r) = NoFile
        BY <2>1, <3>1 DEF Move
      <3>2. CASE Here(r) # NoFile
        <4> DEFINE new == [name |-> current[r], second |-> target[r], file |-> inbox[current[r]]]
        <4>1. Moved(r)
          BY <1>1, <2>1, <3>2, MoveMoves
        <4>2. OneEntryEach
          BY <1>1 DEF IInv
        <4>3. new \in archive' \ archive
          BY <4>1, <4>2 DEF Moved, OneEntryEach
        <4>4. ASSUME NEW e \in archive \ archive', e.second = 0
              PROVE  new.name = e.name /\ new.file \in rushed
          <5>1. e.name = current[r] /\ e.second = target[r]
            BY <4>1 DEF Moved
          <5>2. Occupied(current[r], 0) /\ target[r] = 0
            BY <4>4, <5>1 DEF Occupied
          <5>3. QED
            BY <4>1, <5>1, <5>2 DEF Moved
        <4>5. QED
          BY <4>3, <4>4
      <3>3. QED
        BY <3>1, <3>2
    <2>2. UNCHANGED archive \/ \E r \in Run : Move(r)
      BY <1>1 DEF Next, vars, disk, Outside, Tick, Deposit, Command, Start, Take, Abort, Finish,
                  ProcessFile, Check, Delete, Open, Row, Close, BadRow, Target, Disconnect, Cut
    <2>3. QED
      BY <2>1, <2>2
  <1>2. QED
    BY <1>1, Invariance, PTL DEF Spec, OriginalsStay

-----------------------------------------------------------------------------
(* The promise.                                                             *)

\* Where a file is, read off the variables.
LEMMA PlaceFacts ==
  ASSUME IInv, NEW f \in File
  PROVE  /\ PlaceOf(f) \in {"new", "waiting", "archived", "deleted", "overwritten"}
         /\ PlaceOf(f) = "new" <=> f \notin deposited
         /\ PlaceOf(f) = "waiting" <=> \E n \in Name : inbox[n] = f
         /\ PlaceOf(f) = "archived" <=> \E e \in archive : e.file = f
         /\ PlaceOf(f) = "deleted" <=> f \in deleted
  <1>1. f # NoFile /\ PlacesOK /\ OneEntryEach
    BY SentinelAssumption DEF IInv
  <1>2. (\E n \in Name : inbox[n] = f) => f \in deposited \ deleted
    BY <1>1 DEF PlacesOK
  <1>3. (\E e \in archive : e.file = f) => f \in deposited \ deleted
    BY <1>1 DEF PlacesOK
  <1>4. ~((\E n \in Name : inbox[n] = f) /\ (\E e \in archive : e.file = f))
    BY <1>1 DEF OneEntryEach
  <1>5. f \in deleted => f \in deposited
    BY <1>1 DEF PlacesOK
  <1>6. (\E e \in archive : e.file = f) <=> f \in {e.file : e \in archive}
    OBVIOUS
  <1>7. QED
    BY <1>2, <1>3, <1>4, <1>5, <1>6 DEF PlaceOf

LEMMA SamePlaces ==
  ASSUME UNCHANGED <<disk, deposited>>
  PROVE  UNCHANGED [f \in File |-> PlaceOf(f)]
  BY DEF PlaceOf, disk

LEMMA SameContents ==
  ASSUME UNCHANGED content
  PROVE  UNCHANGED <<[f \in File |-> Rows(f)], {f \in File : ~content[f].bad},
                     {f \in File : CheckEmpty(f)}>>
  BY DEF Rows, CheckEmpty

LEMMA PromiseInit == Init => Promise!Init
  <1> SUFFICES ASSUME Init PROVE Promise!Init
    OBVIOUS
  <1>1. \A f \in File : Rows(f) \in SUBSET Candle
    BY ContentAssumption DEF Init, Rows
  <1>2. \A f \in File : PlaceOf(f) = "new"
    BY DEF Init, PlaceOf
  <1>3. QED
    BY <1>1, <1>2 DEF Init, Promise!Init

\* Depositing a file, over another one or not.
LEMMA PromiseDeposit ==
  ASSUME IInv, IInv', NEW f \in File, NEW n \in Name, Deposit(f, n)
  PROVE  Promise!Deposit(f)
  <1>1. TypeOK /\ PlacesOK /\ OneEntryEach
    BY DEF IInv
  <1> PICK g \in File : g = IF inbox[n] = NoFile THEN f ELSE inbox[n]
    BY <1>1 DEF TypeOK
  <1>2. /\ f \notin deposited /\ deposited' = deposited \cup {f}
        /\ inbox'[n] = f /\ \A m \in Name \ {n} : inbox'[m] = inbox[m]
        /\ UNCHANGED <<archive, deleted, stored, content>>
        /\ rushed' \in {rushed, rushed \cup {f}}
    BY <1>1 DEF Deposit, TypeOK
  <1>3. /\ g \in File /\ (g = f \/ PlaceOf(g) = "waiting")
        /\ PlaceOf(f) = "new" /\ PlaceOf(f)' = "waiting"
    <2>1. g \in File /\ (g = f \/ g = inbox[n])
      BY <1>1 DEF TypeOK
    <2>2. g = inbox[n] => PlaceOf(g) = "waiting"
      BY <2>1, PlaceFacts
    <2>3. PlaceOf(f) = "new"
      BY <1>2, PlaceFacts
    <2>4. f \notin deleted' /\ f \notin {e.file : e \in archive'}
      BY <1>1, <1>2 DEF PlacesOK
    <2>5. PlaceOf(f)' = "waiting"
      BY <1>2, <2>4 DEF PlaceOf
    <2>6. QED
      BY <2>1, <2>2, <2>3, <2>5
  <1>4. g # f => PlaceOf(g)' = "overwritten"
    <2> SUFFICES ASSUME g # f PROVE PlaceOf(g)' = "overwritten"
      OBVIOUS
    <2>1. g = inbox[n] /\ g \in deposited \ deleted
      BY <1>1, <1>3 DEF PlacesOK
    <2>2. \A m \in Name : inbox'[m] # g
      BY <1>1, <1>2, <2>1 DEF PlacesOK
    <2>3. \A e \in archive' : e.file # g
      BY <1>1, <1>2, <2>1 DEF OneEntryEach
    <2>4. g \in deposited' /\ g \notin deleted' /\ g \notin {e.file : e \in archive'}
      BY <1>2, <2>1, <2>3
    <2>5. QED
      BY <2>2, <2>4 DEF PlaceOf
  <1>5. ASSUME NEW x \in File \ {f, g}
        PROVE  PlaceOf(x)' = PlaceOf(x)
    <2>1. (\E m \in Name : inbox'[m] = x) <=> \E m \in Name : inbox[m] = x
      BY <1>2, <1>5, SentinelAssumption
    <2>2. QED
      BY <1>2, <2>1 DEF PlaceOf
  <1>6. [x \in File |-> PlaceOf(x)']
          = [[x \in File |-> PlaceOf(x)] EXCEPT ![g] = "overwritten", ![f] = "waiting"]
    <2> DEFINE p == [x \in File |-> PlaceOf(x)]
               q == [x \in File |-> PlaceOf(x)']
    <2>1. \A x \in File : q[x] = IF x = f THEN "waiting" ELSE IF x = g THEN "overwritten" ELSE p[x]
      BY <1>3, <1>4, <1>5
    <2>2. \A x \in File : [p EXCEPT ![g] = "overwritten", ![f] = "waiting"][x]
                           = IF x = f THEN "waiting" ELSE IF x = g THEN "overwritten" ELSE p[x]
      OBVIOUS
    <2>3. q = [p EXCEPT ![g] = "overwritten", ![f] = "waiting"]
      BY <2>1, <2>2
    <2>4. QED
      BY <2>3
  <1>7. UNCHANGED <<[x \in File |-> Rows(x)], {x \in File : ~content[x].bad}, {x \in File : CheckEmpty(x)}>>
    BY <1>2, SameContents
  <1>8. Promise!Go(f, "new", "waiting")
    BY <1>3, <1>6 DEF Promise!Go
  <1>9. QED
    BY <1>2, <1>7, <1>8 DEF Promise!Deposit

\* Rows of an opened file reach the database; or nothing of the promise changes.
LEMMA PromiseStore ==
  ASSUME IInv, NEW r \in Run, (\E c \in Candle : Row(r, c)) \/ Close(r)
  PROVE  [Promise!Next]_(Promise!vars)
  <1>1. TypeOK /\ RunOK(r) /\ step[r] = "send" /\ UNCHANGED <<disk, world>>
    BY DEF IInv, Row, Close
  <1>2. reading[r] \in File /\ reading[r] \in deposited /\ buffer[r] \subseteq Rows(reading[r])
    BY <1>1, SentinelAssumption DEF TypeOK, RunTypeOK, RunOK
  <1>3. UNCHANGED <<[f \in File |-> PlaceOf(f)], [f \in File |-> Rows(f)],
                    {f \in File : ~content[f].bad}, {f \in File : CheckEmpty(f)}, rushed>>
    BY <1>1, SamePlaces, SameContents DEF world
  <1>4. CASE UNCHANGED stored
    BY <1>3, <1>4 DEF Promise!vars
  <1>5. ASSUME NEW S \in SUBSET Rows(reading[r]), Accept(r, S)
        PROVE  [Promise!Next]_(Promise!vars)
    <2> PICK f \in File : f = reading[r]
      BY <1>2
    <2>1. PlaceOf(f) # "new"
      BY <1>2, PlaceFacts
    <2>2. Promise!Store(f)
      BY <1>3, <1>5, <2>1 DEF Promise!Store, Accept
    <2>3. QED
      BY <2>2 DEF Promise!Next
  <1>6. CASE Close(r)
    <2>1. buffer[r] \in SUBSET Rows(reading[r]) /\ Accept(r, buffer[r])
      BY <1>2, <1>6 DEF Close
    <2>2. QED
      BY <1>5, <2>1
  <1>7. ASSUME NEW c \in Candle, Row(r, c)
        PROVE  [Promise!Next]_(Promise!vars)
    <2>1. c \in Rows(reading[r]) => buffer[r] \cup {c} \in SUBSET Rows(reading[r])
      BY <1>2
    <2>2. UNCHANGED stored \/ (c \in Rows(reading[r]) /\ Accept(r, buffer[r] \cup {c}))
      BY <1>7 DEF Row
    <2>3. QED
      BY <1>4, <1>5, <2>1, <2>2
  <1>8. QED
    BY <1>6, <1>7

LEMMA PromiseDelete ==
  ASSUME IInv, NEW r \in Run, Delete(r), Here(r) # NoFile
  PROVE  [Promise!Next]_(Promise!vars)
  <1>1. TypeOK /\ RunOK(r) /\ PlacesOK /\ OneEntryEach /\ step[r] = "delete"
    BY DEF IInv, Delete
  <1> PICK n \in Name : n = current[r]
    BY <1>1, HereType
  <1> PICK f \in File : f = inbox[n]
    BY <1>1, HereType DEF Here
  <1>2. /\ deleted' = deleted \cup {f} /\ UNCHANGED <<archive, world, stored>>
        /\ inbox'[n] = NoFile /\ \A m \in Name \ {n} : inbox'[m] = inbox[m]
    BY <1>1 DEF Delete, Here, TypeOK
  <1>3. f # NoFile /\ (f \in rushed \/ CheckEmpty(f))
    BY <1>1, SentinelAssumption DEF RunOK, Here
  <1>4. PlaceOf(f) = "waiting" /\ f \in deposited
    BY <1>1, <1>3, PlaceFacts DEF PlacesOK
  <1>5. PlaceOf(f)' = "deleted"
    <2>1. \A m \in Name : inbox'[m] # f
      BY <1>1, <1>2, <1>3 DEF PlacesOK
    <2>2. f \in deposited' /\ f \in deleted' /\ f \notin {e.file : e \in archive'}
      BY <1>1, <1>2, <1>4 DEF OneEntryEach, world
    <2>3. QED
      BY <2>1, <2>2 DEF PlaceOf
  <1>6. ASSUME NEW x \in File \ {f}
        PROVE  PlaceOf(x)' = PlaceOf(x)
    <2>1. (\E m \in Name : inbox'[m] = x) <=> \E m \in Name : inbox[m] = x
      BY <1>2, <1>6, SentinelAssumption
    <2>2. UNCHANGED <<deposited, archive>> /\ (x \in deleted' <=> x \in deleted)
      BY <1>2, <1>6 DEF world
    <2>3. QED
      BY <2>1, <2>2 DEF PlaceOf
  <1>7. [x \in File |-> PlaceOf(x)'] = [[x \in File |-> PlaceOf(x)] EXCEPT ![f] = "deleted"]
    BY <1>5, <1>6
  <1>8. UNCHANGED <<[x \in File |-> Rows(x)], {x \in File : ~content[x].bad},
                    {x \in File : CheckEmpty(x)}, rushed, stored>>
    BY <1>2, SameContents DEF world
  <1>9. Promise!Delete(f)
    BY <1>3, <1>4, <1>7, <1>8 DEF Promise!Delete
  <1>10. QED
    BY <1>9 DEF Promise!Next

LEMMA PromiseMove ==
  ASSUME IInv, NEW r \in Run, Move(r), Here(r) # NoFile
  PROVE  [Promise!Next]_(Promise!vars)
  <1>1. TypeOK /\ PlacesOK /\ OneEntryEach /\ Moved(r)
    BY MoveMoves DEF IInv
  <1> PICK n \in Name : n = current[r]
    BY <1>1 DEF Moved
  <1> PICK s \in 0..MaxTime : s = target[r]
    BY <1>1 DEF Moved
  <1> PICK f \in File : f = inbox[n]
    BY <1>1 DEF Moved
  <1> PICK g \in File :
        IF Occupied(n, s)
        THEN \E e \in archive : e.name = n /\ e.second = s /\ e.file = g
        ELSE g = f
    BY <1>1 DEF Occupied, TypeOK, Entry
  <1>2. /\ f \in rushed \/ (~content[f].bad /\ \A c \in Rows(f) : <<f, c>> \in stored)
        /\ archive' = {e \in archive : e.name # n \/ e.second # s}
                      \cup {[name |-> n, second |-> s, file |-> f]}
        /\ inbox'[n] = NoFile /\ \A m \in Name \ {n} : inbox'[m] = inbox[m]
        /\ UNCHANGED <<deleted, stored, world>>
    BY <1>1 DEF Moved
  <1>3. f # NoFile /\ f \in deposited \ deleted /\ PlaceOf(f) = "waiting" /\ \A e \in archive : e.file # f
    BY <1>1, SentinelAssumption, PlaceFacts DEF PlacesOK, OneEntryEach
  <1>4. \A x \in File : x \in {e.file : e \in archive'} <=>
                           x = f \/ (x # g /\ x \in {e.file : e \in archive})
    <2>1. ASSUME NEW e \in archive
          PROVE  e.name = n /\ e.second = s <=> e.file = g
      BY <1>1, <1>3, <2>1 DEF OneEntryEach, Occupied
    <2>2. \A e \in archive' : (e \in archive /\ e.file # g) \/ e.file = f
      BY <1>2, <2>1
    <2>3. \A e \in archive : e.file # g => e \in archive'
      BY <1>2, <2>1
    <2>4. \E e \in archive' : e.file = f
      <3> DEFINE new == [name |-> n, second |-> s, file |-> f]
      <3>1. new \in archive' /\ new.file = f
        BY <1>2
      <3>2. QED
        BY <3>1
    <2>5. QED
      BY <2>2, <2>3, <2>4
  <1>5. PlaceOf(f)' = "archived"
    <2>1. \A m \in Name : inbox'[m] # f
      BY <1>1, <1>2, <1>3 DEF PlacesOK
    <2>2. f \in deposited' /\ f \notin deleted' /\ f \in {e.file : e \in archive'}
      BY <1>2, <1>3, <1>4 DEF world
    <2>3. QED
      BY <2>1, <2>2 DEF PlaceOf
  <1>6. g = f \/ PlaceOf(g) = "archived"
    BY PlaceFacts
  <1>7. g # f => PlaceOf(g)' = "overwritten"
    <2> SUFFICES ASSUME g # f PROVE PlaceOf(g)' = "overwritten"
      OBVIOUS
    <2>1. PICK e \in archive : e.file = g
      OBVIOUS
    <2>2. g \in deposited \ deleted /\ \A m \in Name : inbox[m] # g
      BY <1>1, <2>1 DEF PlacesOK, OneEntryEach
    <2>3. \A m \in Name : inbox'[m] # g
      BY <1>2, <2>2, SentinelAssumption
    <2>4. g \in deposited' /\ g \notin deleted' /\ g \notin {x.file : x \in archive'}
      BY <1>2, <1>4, <2>2 DEF world
    <2>5. QED
      BY <2>3, <2>4 DEF PlaceOf
  <1>8. ASSUME NEW x \in File \ {f, g}
        PROVE  PlaceOf(x)' = PlaceOf(x)
    <2>1. (\E m \in Name : inbox'[m] = x) <=> \E m \in Name : inbox[m] = x
      BY <1>2, <1>8, SentinelAssumption
    <2>2. x \in {e.file : e \in archive'} <=> x \in {e.file : e \in archive}
      BY <1>4, <1>8
    <2>3. UNCHANGED <<deposited, deleted>>
      BY <1>2 DEF world
    <2>4. QED
      BY <2>1, <2>2, <2>3 DEF PlaceOf
  <1>9. [x \in File |-> PlaceOf(x)']
          = [[x \in File |-> PlaceOf(x)] EXCEPT ![g] = "overwritten", ![f] = "archived"]
    <2> DEFINE p == [x \in File |-> PlaceOf(x)]
               q == [x \in File |-> PlaceOf(x)']
    <2>1. \A x \in File : q[x] = IF x = f THEN "archived" ELSE IF x = g THEN "overwritten" ELSE p[x]
      BY <1>5, <1>7, <1>8
    <2>2. \A x \in File : [p EXCEPT ![g] = "overwritten", ![f] = "archived"][x]
                           = IF x = f THEN "archived" ELSE IF x = g THEN "overwritten" ELSE p[x]
      OBVIOUS
    <2>3. QED
      BY <2>1, <2>2
  <1>10. UNCHANGED <<[x \in File |-> Rows(x)], {x \in File : ~content[x].bad},
                     {x \in File : CheckEmpty(x)}, rushed, stored>>
    BY <1>2, SameContents DEF world
  <1>11. f \in rushed \/ Promise!AllStored(f)
    BY <1>2 DEF Promise!AllStored
  <1>12. Promise!Go(f, "waiting", "archived")
    BY <1>3, <1>6, <1>9 DEF Promise!Go
  <1>13. Promise!Archive(f)
    BY <1>10, <1>11, <1>12 DEF Promise!Archive
  <1>14. QED
    BY <1>13 DEF Promise!Next

LEMMA PromiseStutter ==
  ASSUME UNCHANGED <<disk, stored, content, deposited, rushed>>
  PROVE  UNCHANGED Promise!vars
  BY SamePlaces, SameContents DEF Promise!vars

LEMMA PromiseStep == IInv /\ IInv' /\ [Next]_vars => [Promise!Next]_(Promise!vars)
  <1> SUFFICES ASSUME IInv, IInv', [Next]_vars PROVE [Promise!Next]_(Promise!vars)
    OBVIOUS
  <1>1. CASE UNCHANGED <<disk, stored, content, deposited, rushed>>
    BY <1>1, PromiseStutter
  <1>2. ASSUME NEW f \in File, NEW n \in Name, Deposit(f, n)
        PROVE  [Promise!Next]_(Promise!vars)
    BY <1>2, PromiseDeposit DEF Promise!Next
  <1>3. ASSUME NEW r \in Run, ProcessFile(r)
        PROVE  [Promise!Next]_(Promise!vars)
    <2>1. CASE (\E c \in Candle : Row(r, c)) \/ Close(r)
      BY <2>1, PromiseStore
    <2>2. CASE (Delete(r) \/ Move(r)) /\ Here(r) # NoFile
      BY <2>2, PromiseDelete, PromiseMove
    <2>3. CASE (Delete(r) \/ Move(r)) /\ Here(r) = NoFile
      BY <1>1, <2>3 DEF Delete, Move, disk, world
    <2>4. CASE Check(r) \/ Open(r) \/ BadRow(r) \/ Target(r)
      BY <1>1, <2>4 DEF Check, Open, BadRow, Target, world
    <2>5. QED
      BY <1>3, <2>1, <2>2, <2>3, <2>4 DEF ProcessFile
  <1>4. CASE Tick \/ \E r \in Run : Command(r) \/ Disconnect(r) \/ Cut(r)
    BY <1>1, <1>4 DEF Tick, Command, Start, Take, Abort, Finish, Disconnect, Cut, world
  <1>5. CASE UNCHANGED vars
    BY <1>1, <1>5 DEF vars, world
  <1>6. QED
    BY <1>2, <1>3, <1>4, <1>5 DEF Next, Outside

\* The runs implement the promise: a file leaves the directory of new files only when
\* all of it was stored, or when it was blank, or when it was rushed.
THEOREM PromiseIsKept == Spec => KeepsPromise
  BY PromiseInit, PromiseStep, Invariance, PTL DEF Spec, KeepsPromise, Promise!Spec

-----------------------------------------------------------------------------
(***************************************************************************)
(* Proofs about PriceSources, for every delay, number of attempts, and     *)
(* list of pairs, tickers and intervals.                                   *)
(***************************************************************************)

-----------------------------------------------------------------------------
(* Numbers.                                                                 *)

\* A power of two counts the subsets of a set.
LEMMA PowerFacts ==
  ASSUME NEW n \in Nat
  PROVE  2^n \in Nat \ {0}
  <1>1. IsFiniteSet(1..n) /\ Cardinality(1..n) = n
    BY FS_Interval
  <1>2. IsFiniteSet(SUBSET (1..n)) /\ Cardinality(SUBSET (1..n)) = 2^n
    BY <1>1, FS_SUBSET
  <1>3. SUBSET (1..n) # {}
    OBVIOUS
  <1>4. QED
    BY <1>2, <1>3, FS_CardinalityType, FS_EmptySet

\* Between two attempts of one request passes a second at least.
LEMMA BackoffFacts ==
  ASSUME NEW attempt \in Nat \ {0}
  PROVE  Backoff(attempt) \in Nat /\ Backoff(attempt) >= Second
  <1>1. PICK power \in Nat \ {0} : power = 2^(attempt - 1)
    BY PowerFacts
  <1>2. Second \in Nat
    BY ConstantAssumption
  <1>3. Second * power \in Nat /\ Second * power >= Second
    BY <1>1, <1>2
  <1>4. QED
    BY <1>1, <1>3 DEF Backoff

LEMMA DelayFacts ==
  /\ LongAgo \in Nat \ {0} /\ LongAgo >= Second /\ LongAgo >= MassiveDelay
  /\ \A source : Delay(source) \in 0..LongAgo
  /\ Delay("kraken") = Second /\ Delay("massive") = MassiveDelay /\ Delay("finnhub") = 0
  <1>1. LongAgo \in Nat \ {0} /\ LongAgo >= Second /\ LongAgo >= MassiveDelay
    BY ConstantAssumption DEF LongAgo
  <1>2. ASSUME NEW source PROVE Delay(source) \in 0..LongAgo
    <2>1. CASE source \in {"kraken", "function"}
      BY <1>1, <2>1, ConstantAssumption DEF Delay
    <2>2. CASE source = "massive"
      BY <1>1, <2>2, ConstantAssumption DEF Delay
    <2>3. CASE source \notin {"kraken", "function", "massive"}
      BY <1>1, <2>3 DEF Delay
    <2>4. QED
      BY <2>1, <2>2, <2>3
  <1>3. QED
    BY <1>1, <1>2 DEF Delay

-----------------------------------------------------------------------------
(* Type correctness.                                                        *)

DoingOK == doing \in [Proc -> {None} \cup Fetching \cup Ingestion]

PaceOK ==
  /\ wait \in [Proc -> Nat]
  /\ since \in [Proc \cup {"function"} -> 0..LongAgo]
  /\ recent \in [Proc -> Seq([age : Nat, retry : BOOLEAN])]

RowsOK ==
  /\ AreRows(assets)
  /\ known = [p \in Proc |-> known[p]] /\ \A p \in Proc : AreRows(known[p])
  /\ removed \in [Ticker -> Nat]

PlanOK ==
  plan # None =>
    plan.assets \subseteq Ticker /\ {plan.start, plan.end} \subseteq 0..Oldest

LEMMA TypeParts ==
  /\ PricesTypeOK <=> /\ DoingOK /\ PaceOK /\ RowsOK /\ PlanOK
                      /\ kept \in 0..CacheTimeout /\ events \in 0..MaxEvents
  /\ PricesTypeOK' <=> /\ DoingOK' /\ PaceOK' /\ RowsOK' /\ PlanOK'
                       /\ kept' \in 0..CacheTimeout /\ events' \in 0..MaxEvents
  BY DEF PricesTypeOK, DoingOK, PaceOK, RowsOK, PlanOK

LEMMA Frames ==
  /\ DoingOK /\ UNCHANGED doing => DoingOK'
  /\ PaceOK /\ UNCHANGED timeVars => PaceOK'
  /\ RowsOK /\ UNCHANGED <<assets, known, removed>> => RowsOK'
  /\ PlanOK /\ UNCHANGED plan => PlanOK'
  BY DEF DoingOK, PaceOK, timeVars, RowsOK, AreRows, PlanOK

LEMMA Counted ==
  ASSUME events \in 0..MaxEvents, NEW cost \in Nat, Event(cost)
  PROVE  events' \in 0..MaxEvents
  BY ConstantAssumption DEF Event

\* A command at a request, and what becomes of its record.
LEMMA FetchingFacts ==
  ASSUME DoingOK, NEW p \in Proc, doing[p] # None,
         doing[p].pc \in {"fetch", "sleep", "backoff", "asked"}
  PROVE  /\ doing[p] \in Fetching
         /\ \A pc \in {"fetch", "sleep", "backoff", "asked"} :
              /\ [doing[p] EXCEPT !.pc = pc] \in Fetching
              /\ \A a \in 1..MaxAttempts : [doing[p] EXCEPT !.pc = pc, !.attempt = a] \in Fetching
              /\ \A a \in 1..MaxAttempts, n \in Nat \ {0} :
                   [doing[p] EXCEPT !.left = n, !.pc = pc, !.attempt = a] \in Fetching
  <1>1. doing[p] \in Fetching
    BY DEF DoingOK, Fetching, Ingestion
  <1>2. QED
    BY <1>1 DEF Fetching

LEMMA NewSourceFacts ==
  ASSUME PaceOK, NEW p \in Proc, NewSource(p)
  PROVE  /\ since' \in [Proc \cup {"function"} -> 0..LongAgo] /\ since'[p] = LongAgo
         /\ \A o \in (Proc \cup {"function"}) \ {p} : since'[o] = since[o]
         /\ recent' \in [Proc -> Seq([age : Nat, retry : BOOLEAN])] /\ recent'[p] = <<>>
         /\ \A q \in Proc \ {p} : recent'[q] = recent[q]
  <1>1. LongAgo \in 0..LongAgo /\ <<>> \in Seq([age : Nat, retry : BOOLEAN])
    BY DelayFacts
  <1>2. QED
    BY <1>1 DEF PaceOK, NewSource

\* A command at a source (or a caller of the function) changes its own state only,
\* and that of the function.
FetchStep(p, r) ==
  /\ doing' = [doing EXCEPT ![p] = r]
  /\ \A q \in Proc \ {p} :
       wait'[q] = wait[q] /\ since'[q] = since[q] /\ recent'[q] = recent[q]
  /\ UNCHANGED <<assets, known, removed, plan>>

LEMMA FetchStepTypes ==
  ASSUME PricesTypeOK, NEW p \in Proc, NEW r \in {None} \cup Fetching, FetchStep(p, r),
         PaceOK', kept' \in 0..CacheTimeout, events' \in 0..MaxEvents
  PROVE  PricesTypeOK'
  <1>1. DoingOK /\ RowsOK /\ PlanOK
    BY TypeParts
  <1>2. DoingOK'
    BY <1>1 DEF DoingOK, FetchStep
  <1>3. RowsOK' /\ PlanOK'
    BY <1>1, Frames DEF FetchStep
  <1>4. QED
    BY <1>2, <1>3, TypeParts

LEMMA RateLimitFacts ==
  ASSUME PricesTypeOK, NEW p \in Proc, ApplyRateLimit(p)
  PROVE  /\ doing[p] \in Fetching /\ doing[p].pc = "fetch"
         /\ [doing[p] EXCEPT !.pc = "sleep"] \in Fetching
         /\ FetchStep(p, [doing[p] EXCEPT !.pc = "sleep"])
         /\ wait' = [wait EXCEPT ![p] = Delay(doing[p].source) - since[Object(p)]]
         /\ PaceOK' /\ UNCHANGED <<since, recent, kept, events>>
  <1>1. DoingOK /\ PaceOK
    BY TypeParts
  <1>2. doing[p] # None /\ doing[p].pc = "fetch" /\ since[Object(p)] < Delay(doing[p].source)
    BY DEF ApplyRateLimit
  <1>3. doing[p] \in Fetching /\ [doing[p] EXCEPT !.pc = "sleep"] \in Fetching
    BY <1>1, <1>2, FetchingFacts
  <1>4. Object(p) \in Proc \cup {"function"}
    BY DEF Object
  <1>5. Delay(doing[p].source) - since[Object(p)] \in Nat
    BY <1>1, <1>2, <1>4, DelayFacts DEF PaceOK
  <1>6. wait' = [wait EXCEPT ![p] = Delay(doing[p].source) - since[Object(p)]]
    BY DEF ApplyRateLimit
  <1>7. PaceOK'
    BY <1>1, <1>5, <1>6 DEF PaceOK, ApplyRateLimit
  <1>8. FetchStep(p, [doing[p] EXCEPT !.pc = "sleep"])
    BY <1>1, <1>6 DEF FetchStep, ApplyRateLimit, PaceOK, DoingOK
  <1>9. QED
    BY <1>2, <1>3, <1>6, <1>7, <1>8 DEF ApplyRateLimit

LEMMA RequestFacts ==
  ASSUME PricesTypeOK, NEW p \in Proc, MakeRequest(p)
  PROVE  /\ doing[p] \in Fetching
         /\ \/ doing[p].pc = "fetch" /\ since[Object(p)] >= Delay(doing[p].source)
            \/ doing[p].pc \in {"sleep", "backoff"} /\ wait[p] = 0
         /\ [doing[p] EXCEPT !.pc = "asked"] \in Fetching
         /\ FetchStep(p, [doing[p] EXCEPT !.pc = "asked"])
         /\ since'[p] = IF doing[p].source # "function" /\ doing[p].attempt = 1 THEN 0 ELSE since[p]
         /\ recent'[p] = IF Delay(doing[p].source) = 0 \/ doing[p].source = "function"
                           THEN recent[p]
                           ELSE Append(recent[p], [age |-> 0, retry |-> doing[p].attempt > 1])
         /\ PaceOK' /\ UNCHANGED <<kept, events>>
  <1>1. DoingOK /\ PaceOK
    BY TypeParts
  <1>2. /\ doing[p] # None
        /\ \/ doing[p].pc = "fetch" /\ since[Object(p)] >= Delay(doing[p].source)
           \/ doing[p].pc \in {"sleep", "backoff"} /\ wait[p] = 0
    BY DEF MakeRequest
  <1>3. doing[p] \in Fetching /\ [doing[p] EXCEPT !.pc = "asked"] \in Fetching
    BY <1>1, <1>2, FetchingFacts
  <1>4. wait' = [wait EXCEPT ![p] = 0] /\ wait' \in [Proc -> Nat]
    BY <1>1 DEF MakeRequest, Sent, PaceOK
  <1>5. /\ since' = Noted(p)
        /\ recent' = IF Delay(doing[p].source) = 0 \/ doing[p].source = "function"
                       THEN recent
                       ELSE [recent EXCEPT ![p] =
                               Append(@, [age |-> 0, retry |-> doing[p].attempt > 1])]
    BY DEF MakeRequest, Sent
  <1>6. /\ since' \in [Proc \cup {"function"} -> 0..LongAgo]
        /\ since'[p] = IF doing[p].source # "function" /\ doing[p].attempt = 1 THEN 0 ELSE since[p]
        /\ \A q \in Proc \ {p} : since'[q] = since[q]
    BY <1>1, <1>5, DelayFacts DEF PaceOK, Noted
  <1>7. [age |-> 0, retry |-> doing[p].attempt > 1] \in [age : Nat, retry : BOOLEAN]
    OBVIOUS
  <1>8. /\ recent' \in [Proc -> Seq([age : Nat, retry : BOOLEAN])]
        /\ recent'[p] = IF Delay(doing[p].source) = 0 \/ doing[p].source = "function"
                          THEN recent[p]
                          ELSE Append(recent[p], [age |-> 0, retry |-> doing[p].attempt > 1])
        /\ \A q \in Proc \ {p} : recent'[q] = recent[q]
    BY <1>1, <1>5, <1>7 DEF PaceOK
  <1>9. PaceOK'
    BY <1>4, <1>6, <1>8 DEF PaceOK
  <1>10. doing' = [doing EXCEPT ![p] = [doing[p] EXCEPT !.pc = "asked"]]
    BY <1>1 DEF MakeRequest, Sent, DoingOK
  <1>11. FetchStep(p, [doing[p] EXCEPT !.pc = "asked"])
    BY <1>1, <1>4, <1>6, <1>8, <1>10 DEF FetchStep, MakeRequest, PaceOK
  <1>12. QED
    BY <1>2, <1>3, <1>6, <1>8, <1>9, <1>11 DEF MakeRequest

LEMMA BackOffFacts ==
  ASSUME PricesTypeOK, NEW p \in Proc, NEW outcome, Answer(p, outcome), Retry(p, outcome)
  PROVE  /\ doing[p] \in Fetching /\ doing[p].source \in {"kraken", "function"}
         /\ [doing[p] EXCEPT !.pc = "backoff", !.attempt = @ + 1] \in Fetching
         /\ FetchStep(p, [doing[p] EXCEPT !.pc = "backoff", !.attempt = @ + 1])
         /\ wait'[p] >= Second
         /\ PaceOK' /\ UNCHANGED <<since, recent, kept, events>>
  <1>1. DoingOK /\ PaceOK
    BY TypeParts
  <1>2. doing[p] # None /\ doing[p].pc = "asked" /\ outcome \in Outcomes(doing[p])
    BY DEF Answer
  <1>3. doing[p] \in Fetching
    BY <1>1, <1>2, FetchingFacts
  <1>4. outcome = "broken" /\ doing[p].attempt < MaxAttempts
    BY DEF Retry
  <1>5. doing[p].source \in {"kraken", "function"}
    BY <1>2, <1>3, <1>4 DEF Outcomes, FetchMassive, FetchGrouped, FetchFinnhub, Fetching
  <1>6. doing[p].attempt + 1 \in 1..MaxAttempts /\ doing[p].attempt \in Nat \ {0}
    BY <1>3, <1>4, ConstantAssumption DEF Fetching
  <1>7. [doing[p] EXCEPT !.pc = "backoff", !.attempt = @ + 1] \in Fetching
    BY <1>1, <1>2, <1>6, FetchingFacts
  <1>8. Backoff(doing[p].attempt) \in Nat /\ Backoff(doing[p].attempt) >= Second
    BY <1>6, BackoffFacts
  <1>9. /\ doing' = [doing EXCEPT ![p].pc = "backoff", ![p].attempt = @ + 1]
        /\ wait' = [wait EXCEPT ![p] = Backoff(doing[p].attempt)]
        /\ UNCHANGED <<since, recent, kept>>
    BY DEF Answer, BackOff
  <1>10. doing' = [doing EXCEPT ![p] = [doing[p] EXCEPT !.pc = "backoff", !.attempt = @ + 1]]
    BY <1>1, <1>9 DEF DoingOK
  <1>11. PaceOK' /\ wait'[p] >= Second /\ \A q \in Proc \ {p} : wait'[q] = wait[q]
    BY <1>1, <1>8, <1>9 DEF PaceOK
  <1>12. FetchStep(p, [doing[p] EXCEPT !.pc = "backoff", !.attempt = @ + 1])
    BY <1>9, <1>10, <1>11 DEF FetchStep, Answer
  <1>13. QED
    BY <1>3, <1>5, <1>7, <1>9, <1>11, <1>12 DEF Answer

\* Done with an item, a command goes on with the source that it has, makes a new
\* one, or ends.
Anew(p, r) ==
  /\ since'[p] = LongAgo /\ recent'[p] = <<>>
  /\ r # None => r.pc = "fetch" /\ r.attempt = 1

GoesOn(p, r) ==
  /\ since'[p] = since[p] /\ recent'[p] = recent[p]
  /\ r # None /\ r.pc = "fetch" /\ r.attempt = 1 /\ r.source = doing[p].source

LEMMA EndedFacts ==
  ASSUME PricesTypeOK, NEW p \in Proc, Ended(p), UNCHANGED <<wait, assets, known, removed, plan>>
  PROVE  FetchStep(p, None) /\ Anew(p, None) /\ PaceOK'
  <1>1. DoingOK /\ PaceOK
    BY TypeParts
  <1>2. doing' = [doing EXCEPT ![p] = None] /\ NewSource(p)
    BY DEF Ended
  <1>3. QED
    BY <1>1, <1>2, NewSourceFacts DEF FetchStep, Anew, PaceOK

LEMMA NextItemFacts ==
  ASSUME PricesTypeOK, NEW p \in Proc, doing[p] \in Fetching, NextItem(p),
         UNCHANGED <<wait, assets, known, removed, plan>>
  PROVE  \E r \in {None} \cup Fetching :
           FetchStep(p, r) /\ (Anew(p, r) \/ GoesOn(p, r)) /\ PaceOK'
  <1>1. CASE doing[p].left = 1
    BY <1>1, EndedFacts DEF NextItem
  <1>2. CASE doing[p].left # 1
    <2> DEFINE r == [doing[p] EXCEPT !.left = @ - 1, !.pc = "fetch", !.attempt = 1]
    <2>1. DoingOK /\ PaceOK
      BY TypeParts
    <2>2. doing[p].left - 1 \in Nat \ {0} /\ 1 \in 1..MaxAttempts
      BY <1>2, ConstantAssumption DEF Fetching
    <2>3. r \in Fetching /\ r.pc = "fetch" /\ r.attempt = 1 /\ r.source = doing[p].source
      BY <2>2 DEF Fetching
    <2>4. r # None
      BY <2>3, ConstantAssumption
    <2>5. doing' = [doing EXCEPT ![p] = r]
      BY <1>2, <2>1 DEF NextItem, DoingOK
    <2> HIDE DEF r
    <2>6. CASE doing[p].program = "assets"
      <3>1. NewSource(p)
        BY <1>2, <2>6 DEF NextItem
      <3>2. FetchStep(p, r) /\ Anew(p, r) /\ PaceOK'
        BY <2>1, <2>3, <2>5, <3>1, NewSourceFacts DEF FetchStep, Anew, PaceOK
      <3>3. QED
        BY <2>3, <3>2
    <2>7. CASE doing[p].program # "assets"
      <3>1. UNCHANGED <<since, recent>>
        BY <1>2, <2>7 DEF NextItem
      <3>2. FetchStep(p, r) /\ GoesOn(p, r) /\ PaceOK'
        BY <2>1, <2>3, <2>4, <2>5, <3>1 DEF FetchStep, GoesOn, PaceOK
      <3>3. QED
        BY <2>3, <3>2
    <2>8. QED
      BY <2>6, <2>7
  <1>3. QED
    BY <1>1, <1>2

LEMMA EndOfFetchFacts ==
  ASSUME PricesTypeOK, NEW p \in Proc, NEW outcome, Answer(p, outcome), ~Retry(p, outcome),
         doing[p].source # "function"
  PROVE  /\ doing[p] \in Fetching
         /\ \E r \in {None} \cup Fetching :
              FetchStep(p, r) /\ (Anew(p, r) \/ GoesOn(p, r)) /\ PaceOK'
         /\ UNCHANGED <<kept, events>>
  <1>1. doing[p] # None /\ doing[p].pc = "asked"
    BY DEF Answer
  <1>2. doing[p] \in Fetching
    BY <1>1, TypeParts, FetchingFacts
  <1>3. EndOfFetch(p, outcome) /\ UNCHANGED <<wait, assets, known, removed, plan, events>>
    BY DEF Answer
  <1>4. CASE outcome = "data" /\ doing[p].saves
    BY <1>2, <1>3, <1>4, EndedFacts DEF EndOfFetch, FieldError
  <1>5. CASE ~(outcome = "data" /\ doing[p].saves)
    BY <1>2, <1>3, <1>5, NextItemFacts DEF EndOfFetch
  <1>6. QED
    BY <1>4, <1>5

\* A call of the function ends, with an answer or without one.
LEMMA EndOfCallFacts ==
  ASSUME PricesTypeOK, NEW p \in Proc,
         \/ AnswerFromCache(p)
         \/ \E outcome : Answer(p, outcome) /\ ~Retry(p, outcome) /\ doing[p].source = "function"
  PROVE  /\ doing[p] # None /\ doing[p].source = "function"
         /\ FetchStep(p, None) /\ since'[p] = since[p] /\ recent'[p] = recent[p]
         /\ PaceOK' /\ kept' \in 0..CacheTimeout /\ UNCHANGED events
  <1>1. DoingOK /\ PaceOK /\ kept \in 0..CacheTimeout
    BY TypeParts
  <1>2. /\ doing[p] # None /\ doing[p].source = "function"
        /\ doing' = [doing EXCEPT ![p] = None]
        /\ since' = since \/ since' = [since EXCEPT !["function"] = 0]
        /\ kept' = kept \/ kept' = CacheTimeout
        /\ UNCHANGED <<wait, recent, assets, known, removed, plan, events>>
    BY DEF AnswerFromCache, Answer, EndOfCall, Hit
  <1>3. /\ since' \in [Proc \cup {"function"} -> 0..LongAgo]
        /\ \A q \in Proc : since'[q] = since[q]
    BY <1>1, <1>2, DelayFacts, ConstantAssumption DEF PaceOK
  <1>4. PaceOK' /\ kept' \in 0..CacheTimeout
    BY <1>1, <1>2, <1>3, ConstantAssumption DEF PaceOK
  <1>5. QED
    BY <1>2, <1>3, <1>4 DEF FetchStep

\* A command begins, or a call.
Starts(p) ==
  \/ BackfillGaps(p) \/ BackfillPrices(p) \/ HandleGrouped(p) \/ LoadPrices(p) \/ ApiCall(p)

LEMMA StartFacts ==
  ASSUME PricesTypeOK, NEW p \in Proc, Starts(p)
  PROVE  /\ doing[p] = None /\ events' \in 0..MaxEvents /\ UNCHANGED kept
         /\ \E r \in Fetching : FetchStep(p, r) /\ Anew(p, r) /\ PaceOK'
  <1>1. DoingOK /\ PaceOK /\ AreRows(assets) /\ events \in 0..MaxEvents
    BY TypeParts DEF RowsOK
  <1>2. \A categories : Cardinality(Active(categories)) \in Nat
    <2> TAKE categories
    <2>1. Active(categories) \subseteq Ticker
      BY <1>1 DEF Active, AreRows
    <2>2. IsFiniteSet(Active(categories))
      BY <2>1, FS_Subset, ConstantAssumption
    <2>3. QED
      BY <2>2, FS_CardinalityType
  <1>3. Days \in Nat /\ 1..Days \subseteq Nat
    BY ConstantAssumption
  <1>4. PICK program \in {"gaps", "assets", "days", "asset", "call"},
             source \in {"kraken", "massive", "finnhub", "function"},
             saves \in BOOLEAN, left \in Nat :
          Launch(p, program, source, saves, left)
    <2>1. CASE BackfillGaps(p)
      BY <1>3, <2>1 DEF BackfillGaps
    <2>2. CASE BackfillPrices(p)
      BY <1>2, <2>2 DEF BackfillPrices
    <2>3. CASE HandleGrouped(p)
      BY <1>3, <2>3 DEF HandleGrouped
    <2>4. CASE LoadPrices(p)
      BY <2>4 DEF LoadPrices
    <2>5. CASE ApiCall(p)
      BY <2>5 DEF ApiCall
    <2>6. QED
      BY <2>1, <2>2, <2>3, <2>4, <2>5 DEF Starts
  <1> DEFINE r == [program |-> program, source |-> source, saves |-> saves,
                   left |-> left, pc |-> "fetch", attempt |-> 1]
  <1>5. r \in Fetching /\ r.pc = "fetch" /\ r.attempt = 1
    BY <1>4, ConstantAssumption DEF Launch, Fetching
  <1>6. doing' = [doing EXCEPT ![p] = r] /\ NewSource(p)
    BY <1>4 DEF Launch
  <1>7. events' \in 0..MaxEvents
    BY <1>1, <1>4, Counted DEF Launch
  <1> HIDE DEF r
  <1>8. doing[p] = None /\ UNCHANGED <<wait, kept, assets, known, removed, plan>>
    BY <1>4 DEF Launch
  <1>9. FetchStep(p, r) /\ Anew(p, r) /\ PaceOK'
    BY <1>1, <1>5, <1>6, <1>8, NewSourceFacts DEF FetchStep, Anew, PaceOK
  <1>10. QED
    BY <1>5, <1>7, <1>8, <1>9

-----------------------------------------------------------------------------
(* The ingestion and its assets.                                            *)

LEMMA PutFacts ==
  ASSUME NEW f, AreRows(f), NEW t \in Ticker, NEW row \in Asset
  PROVE  /\ AreRows(Put(f, t, row))
         /\ DOMAIN Put(f, t, row) = DOMAIN f \cup {t}
         /\ \A u \in DOMAIN f \cup {t} : Put(f, t, row)[u] = IF u = t THEN row ELSE f[u]
  BY DEF AreRows, Put

LEMMA RemoveFacts ==
  ASSUME NEW f, AreRows(f), NEW t, NEW g, g = [u \in DOMAIN f \ {t} |-> f[u]]
  PROVE  /\ AreRows(g) /\ DOMAIN g = DOMAIN f \ {t}
         /\ \A u \in DOMAIN g : g[u] = f[u]
  BY DEF AreRows

LEMMA NewRowFacts ==
  ASSUME RowsOK, NEW t \in Ticker
  PROVE  NewRow(t) \in Asset /\ NewRow(t).id = removed[t]
  <1>1. removed[t] \in Nat /\ Listed[t] \in Tier
    BY ConstantAssumption DEF RowsOK
  <1>2. QED
    BY <1>1 DEF NewRow, DetermineCategory, DetermineTier, Asset

\* A run of the ingestion changes its own place, what it knows, and the assets.
IngestStep(p, r) ==
  /\ doing' = [doing EXCEPT ![p] = r]
  /\ \A q \in Proc \ {p} : known'[q] = known[q]
  /\ UNCHANGED <<timeVars, kept, removed, plan, events>>

LEMMA IngestStepTypes ==
  ASSUME PricesTypeOK, NEW p \in Proc, NEW r \in {None} \cup Ingestion, IngestStep(p, r),
         RowsOK'
  PROVE  PricesTypeOK'
  <1>1. DoingOK /\ PaceOK /\ PlanOK
    BY TypeParts
  <1>2. DoingOK'
    BY <1>1 DEF DoingOK, IngestStep
  <1>3. PaceOK' /\ PlanOK'
    BY <1>1, Frames DEF IngestStep
  <1>4. kept' \in 0..CacheTimeout /\ events' \in 0..MaxEvents
    BY TypeParts DEF IngestStep
  <1>5. QED
    BY <1>2, <1>3, <1>4, TypeParts

LEMMA IngestingFacts ==
  ASSUME DoingOK, NEW p \in Proc, NEW pc \in {"file", "bulk", "create", "upgrade"},
         Ingests(p, pc)
  PROVE  /\ doing[p] \in Ingestion /\ doing[p].pc = pc
         /\ pc # "file" => doing[p].ticker \in Ticker
  BY DEF DoingOK, Ingests, Fetching, Ingestion

LEMMA NextFileFacts ==
  ASSUME NEW r \in Ingestion
  PROVE  [r EXCEPT !.left = 1, !.pc = "file", !.ticker = None, !.found = FALSE] \in Ingestion
  <1> DEFINE Place == [program : {"ingest"}, source : {"file"}, left : 1..2,
                       pc : {"file", "bulk", "create", "upgrade"},
                       ticker : Ticker \cup {None}, found : BOOLEAN]
  <1>1. ASSUME NEW n \in 1..2, NEW pc \in {"file"}, NEW t \in Ticker \cup {None},
               NEW found \in BOOLEAN
        PROVE  [r EXCEPT !.left = n, !.pc = pc, !.ticker = t, !.found = found] \in Ingestion
    <2> DEFINE s == [r EXCEPT !.left = n, !.pc = pc, !.ticker = t, !.found = found]
    <2>1. r \in Place
      BY DEF Ingestion
    <2>2. s \in Place /\ s.pc = pc
      BY <2>1
    <2> HIDE DEF s
    <2>3. QED
      BY <2>2 DEF Ingestion
  <1>2. 1 \in 1..2 /\ "file" \in {"file"} /\ None \in Ticker \cup {None} /\ FALSE \in BOOLEAN
    OBVIOUS
  <1>3. QED
    BY <1>1, <1>2

\* On to the next file with the rows that are known then, or the end of the run.
LEMMA KnownFacts ==
  ASSUME DoingOK, RowsOK, NEW p \in Proc, doing[p] \in Ingestion,
         NEW rows, AreRows(rows), Known(p, rows)
  PROVE  /\ \E r \in {None} \cup Ingestion : doing' = [doing EXCEPT ![p] = r]
         /\ known' = [q \in Proc |-> known'[q]]
         /\ \A q \in Proc \ {p} : known'[q] = known[q]
         /\ AreRows(known'[p])
         /\ known'[p] = rows \/ DOMAIN known'[p] = {}
  <1> DEFINE next == [doing[p] EXCEPT !.left = 1, !.pc = "file", !.ticker = None, !.found = FALSE]
             none == [t \in {} |-> None]
  <1>1. next \in Ingestion
    BY NextFileFacts
  <1>2. doing' = [doing EXCEPT ![p] = IF doing[p].left = 1 THEN None ELSE next]
    BY DEF Known, DoingOK
  <1>3. known' = [known EXCEPT ![p] = IF doing[p].left = 1 THEN none ELSE rows]
    BY DEF Known
  <1>4. AreRows(none) /\ DOMAIN none = {}
    BY DEF AreRows
  <1> HIDE DEF next, none
  <1>5. \E r \in {None} \cup Ingestion : doing' = [doing EXCEPT ![p] = r]
    BY <1>1, <1>2
  <1>6. QED
    BY <1>3, <1>4, <1>5 DEF RowsOK

\* The place of a run within its file.
LEMMA AtFacts ==
  ASSUME DoingOK, NEW p \in Proc, doing[p] \in Ingestion, doing[p].ticker \in Ticker,
         NEW pc \in {"bulk", "create", "upgrade"}, At(p, pc)
  PROVE  \E r \in {None} \cup Ingestion : doing' = [doing EXCEPT ![p] = r]
  <1> DEFINE r == [doing[p] EXCEPT !.pc = pc]
  <1>1. r \in Ingestion
    BY DEF Ingestion
  <1>2. doing' = [doing EXCEPT ![p] = r]
    BY DEF At, DoingOK
  <1>3. QED
    BY <1>1, <1>2

-----------------------------------------------------------------------------
(* Ids.  An asset has the id that its ticker has come to, and what a run    *)
(* knows has that id or an earlier one.                                     *)

IdsOf(rows) == \A t \in DOMAIN rows : rows[t].id = removed[t]

\* The rows of assets keep their ids, and those that p knows are known already or
\* rows.
KeepsIds(p) ==
  /\ \A t \in DOMAIN assets : t \in DOMAIN assets' /\ assets'[t].id = assets[t].id
  /\ IdsOf(assets')
  /\ \A t \in DOMAIN known'[p] :
       \/ t \in DOMAIN known[p] /\ known'[p][t].id = known[p][t].id
       \/ t \in DOMAIN assets' /\ known'[p][t].id = assets'[t].id

IdsInv == IdsOf(assets) /\ KnownIdsAreRows

LEMMA KeptIds ==
  ASSUME IdsInv, NEW p \in Proc, NEW r, IngestStep(p, r), KeepsIds(p)
  PROVE  IdsInv'
  <1>1. UNCHANGED removed /\ \A q \in Proc \ {p} : known'[q] = known[q]
    BY DEF IngestStep
  <1>2. IdsOf(assets)'
    BY <1>1 DEF KeepsIds, IdsOf
  <1>3. ASSUME NEW q \in Proc, NEW t \in DOMAIN known'[q]
        PROVE  \/ known'[q][t].id \in 0..(removed'[t] - 1)
               \/ t \in DOMAIN assets' /\ assets'[t].id = known'[q][t].id
    <2>1. \A u \in DOMAIN known[q] :
            \/ known[q][u].id \in 0..(removed[u] - 1)
            \/ u \in DOMAIN assets' /\ assets'[u].id = known[q][u].id
      BY DEF IdsInv, KnownIdsAreRows, KeepsIds
    <2>2. CASE q # p
      BY <1>1, <2>1, <2>2
    <2>3. CASE q = p
      BY <1>1, <2>1, <2>3 DEF KeepsIds
    <2>4. QED
      BY <2>2, <2>3
  <1>4. QED
    BY <1>2, <1>3 DEF IdsInv, KnownIdsAreRows

\* Every step of a run of the ingestion at a file.
IngestFacts(p) ==
  \E r \in {None} \cup Ingestion : IngestStep(p, r) /\ RowsOK' /\ KeepsIds(p)

LEMMA LookUpFacts ==
  ASSUME PricesTypeOK, IdsInv, NEW p \in Proc, GetOrCreateAsset(p)
  PROVE  doing[p] \in Ingestion /\ IngestFacts(p)
  <1>1. DoingOK /\ RowsOK
    BY TypeParts
  <1>2. Ingests(p, "file") /\ UNCHANGED <<timeVars, kept, assets, removed, plan, events>>
    BY DEF GetOrCreateAsset
  <1>3. doing[p] \in Ingestion
    BY <1>1, <1>2, IngestingFacts
  <1>4. PICK q \in Pair :
          IF ParsePair(q) \in DOMAIN known[p]
            THEN Known(p, known[p])
            ELSE /\ doing' = [doing EXCEPT ![p].pc = "bulk", ![p].ticker = ParsePair(q),
                                           ![p].found = ParsePair(q) \in DOMAIN assets]
                 /\ UNCHANGED known
    BY DEF GetOrCreateAsset
  <1>5. ParsePair(q) \in Ticker
    BY ConstantAssumption DEF ParsePair
  <1>6. IdsOf(assets)'
    BY <1>2 DEF IdsInv, IdsOf
  <1>7. CASE Known(p, known[p])
    <2>1. AreRows(known[p])
      BY <1>1 DEF RowsOK
    <2>2. /\ \E r \in {None} \cup Ingestion : doing' = [doing EXCEPT ![p] = r]
          /\ known' = [u \in Proc |-> known'[u]]
          /\ \A u \in Proc \ {p} : known'[u] = known[u]
          /\ AreRows(known'[p])
          /\ known'[p] = known[p] \/ DOMAIN known'[p] = {}
      BY <1>1, <1>3, <1>7, <2>1, KnownFacts
    <2>3. RowsOK'
      BY <1>1, <1>2, <2>2 DEF RowsOK, AreRows
    <2>4. KeepsIds(p)
      BY <1>2, <1>6, <2>2 DEF KeepsIds, IdsOf
    <2>5. QED
      BY <1>2, <1>3, <2>2, <2>3, <2>4 DEF IngestFacts, IngestStep
  <1>8. CASE ParsePair(q) \notin DOMAIN known[p]
    <2> DEFINE found == ParsePair(q) \in DOMAIN assets
               r == [doing[p] EXCEPT !.pc = "bulk", !.ticker = ParsePair(q), !.found = found]
    <2>1. found \in BOOLEAN /\ "bulk" \in {"bulk"}
      OBVIOUS
    <2>2. r \in Ingestion
      <3> HIDE DEF found
      <3> DEFINE Place == [program : {"ingest"}, source : {"file"}, left : 1..2,
                           pc : {"file", "bulk", "create", "upgrade"},
                           ticker : Ticker \cup {None}, found : BOOLEAN]
      <3>1. doing[p] \in Place
        BY <1>3 DEF Ingestion
      <3>2. r \in Place /\ r.ticker = ParsePair(q)
        BY <1>5, <2>1, <3>1
      <3> HIDE DEF r
      <3>3. QED
        BY <1>5, <3>2 DEF Ingestion
    <2>3. doing' = [doing EXCEPT ![p] = r] /\ UNCHANGED known
      BY <1>1, <1>4, <1>8 DEF DoingOK
    <2> HIDE DEF r
    <2>4. IngestStep(p, r)
      BY <1>2, <2>3 DEF IngestStep
    <2>5. RowsOK'
      BY <1>1, <1>2, <2>3, Frames
    <2>6. KeepsIds(p)
      BY <1>2, <1>6, <2>3 DEF KeepsIds, IdsOf
    <2>7. QED
      BY <1>3, <2>2, <2>4, <2>5, <2>6 DEF IngestFacts
  <1>9. QED
    BY <1>4, <1>7, <1>8

\* The assets as an action leaves them: those that there were keep their ids.
Keeps(rows) ==
  /\ AreRows(rows) /\ IdsOf(rows)
  /\ \A t \in DOMAIN assets : t \in DOMAIN rows /\ rows[t].id = assets[t].id

LEMMA InsertedFacts ==
  ASSUME RowsOK, IdsInv, NEW t \in Ticker,
         NEW rows, rows = assets \/ (t \notin DOMAIN assets /\ rows = Put(assets, t, NewRow(t)))
  PROVE  Keeps(rows)
  <1>1. CASE rows = assets
    BY <1>1 DEF Keeps, RowsOK, IdsInv, IdsOf
  <1>2. CASE t \notin DOMAIN assets /\ rows = Put(assets, t, NewRow(t))
    <2>1. NewRow(t) \in Asset /\ NewRow(t).id = removed[t]
      BY NewRowFacts
    <2>2. AreRows(assets)
      BY DEF RowsOK
    <2>3. /\ AreRows(Put(assets, t, NewRow(t)))
          /\ DOMAIN Put(assets, t, NewRow(t)) = DOMAIN assets \cup {t}
          /\ \A u \in DOMAIN assets \cup {t} :
               Put(assets, t, NewRow(t))[u] = IF u = t THEN NewRow(t) ELSE assets[u]
      BY <2>1, <2>2, PutFacts
    <2>4. QED
      BY <1>2, <2>1, <2>3 DEF Keeps, IdsInv, IdsOf
  <1>3. QED
    BY <1>1, <1>2

LEMMA LearnsFacts ==
  ASSUME DoingOK, RowsOK, IdsInv, NEW p \in Proc, doing[p] \in Ingestion,
         NEW rows, AreRows(rows), Known(p, rows), Keeps(assets'),
         \A t \in DOMAIN rows :
            \/ t \in DOMAIN known[p] /\ rows[t].id = known[p][t].id
            \/ t \in DOMAIN assets' /\ rows[t].id = assets'[t].id,
         UNCHANGED <<timeVars, kept, removed, plan, events>>
  PROVE  IngestFacts(p)
  <1>1. /\ \E r \in {None} \cup Ingestion : doing' = [doing EXCEPT ![p] = r]
        /\ known' = [u \in Proc |-> known'[u]]
        /\ \A u \in Proc \ {p} : known'[u] = known[u]
        /\ AreRows(known'[p])
        /\ known'[p] = rows \/ DOMAIN known'[p] = {}
    BY KnownFacts
  <1>2. RowsOK'
    BY <1>1 DEF RowsOK, AreRows, Keeps
  <1>3. KeepsIds(p)
    BY <1>1 DEF KeepsIds, Keeps, IdsOf
  <1>4. QED
    BY <1>1, <1>2, <1>3 DEF IngestFacts, IngestStep

\* On within the file, with the rows that are known.
LEMMA MovesFacts ==
  ASSUME DoingOK, RowsOK, IdsInv, NEW p \in Proc, doing[p] \in Ingestion,
         doing[p].ticker \in Ticker, NEW pc \in {"bulk", "create", "upgrade"}, At(p, pc),
         NEW rows, AreRows(rows), known' = [known EXCEPT ![p] = rows], Keeps(assets'),
         \A t \in DOMAIN rows :
            \/ t \in DOMAIN known[p] /\ rows[t].id = known[p][t].id
            \/ t \in DOMAIN assets' /\ rows[t].id = assets'[t].id,
         UNCHANGED <<timeVars, kept, removed, plan, events>>
  PROVE  IngestFacts(p)
  <1>1. \E r \in {None} \cup Ingestion : doing' = [doing EXCEPT ![p] = r]
    BY AtFacts
  <1>2. /\ known' = [u \in Proc |-> known'[u]]
        /\ \A u \in Proc \ {p} : known'[u] = known[u]
        /\ known'[p] = rows
    BY DEF RowsOK
  <1>3. RowsOK'
    BY <1>2 DEF RowsOK, AreRows, Keeps
  <1>4. KeepsIds(p)
    BY <1>2 DEF KeepsIds, Keeps, IdsOf
  <1>5. QED
    BY <1>1, <1>2, <1>3, <1>4 DEF IngestFacts, IngestStep

LEMMA BulkFacts ==
  ASSUME PricesTypeOK, IdsInv, NEW p \in Proc, BulkCreateAssets(p)
  PROVE  doing[p] \in Ingestion /\ IngestFacts(p)
  <1> DEFINE t == doing[p].ticker
  <1>1. DoingOK /\ RowsOK /\ AreRows(known[p])
    BY TypeParts DEF RowsOK
  <1>2. Ingests(p, "bulk") /\ UNCHANGED <<timeVars, kept, removed, plan, events>>
    BY DEF BulkCreateAssets
  <1>3. doing[p] \in Ingestion /\ t \in Ticker
    BY <1>1, <1>2, IngestingFacts
  <1>4. /\ assets' = Inserted(p, t)
        /\ IF t \in DOMAIN assets'
             THEN Known(p, Put(known[p], t, assets'[t]))
             ELSE At(p, "create") /\ UNCHANGED known
    BY DEF BulkCreateAssets, ReadAgain
  <1> HIDE DEF t
  <1>5. Keeps(assets')
    BY <1>1, <1>3, <1>4, InsertedFacts DEF Inserted
  <1>6. CASE t \in DOMAIN assets'
    <2> DEFINE rows == Put(known[p], t, assets'[t])
    <2>1. AreRows(known[p]) /\ t \in Ticker /\ assets'[t] \in Asset
      BY <1>1, <1>3, <1>5, <1>6 DEF Keeps, AreRows
    <2>2. /\ AreRows(rows) /\ DOMAIN rows = DOMAIN known[p] \cup {t}
          /\ \A u \in DOMAIN known[p] \cup {t} :
               rows[u] = IF u = t THEN assets'[t] ELSE known[p][u]
      <3>1. /\ AreRows(Put(known[p], t, assets'[t]))
            /\ DOMAIN Put(known[p], t, assets'[t]) = DOMAIN known[p] \cup {t}
        BY <2>1, PutFacts
      <3>2. \A u \in DOMAIN known[p] \cup {t} :
              Put(known[p], t, assets'[t])[u] = IF u = t THEN assets'[t] ELSE known[p][u]
        BY DEF Put
      <3>3. QED
        BY <3>1, <3>2
    <2>3. Known(p, rows)
      BY <1>4, <1>6
    <2> HIDE DEF rows
    <2>4. \A u \in DOMAIN rows :
            \/ u \in DOMAIN known[p] /\ rows[u].id = known[p][u].id
            \/ u \in DOMAIN assets' /\ rows[u].id = assets'[u].id
      BY <1>6, <2>2
    <2>5. QED
      BY <1>1, <1>2, <1>3, <1>5, <2>2, <2>3, <2>4, LearnsFacts
  <1>7. CASE t \notin DOMAIN assets'
    <2>1. At(p, "create") /\ known' = [known EXCEPT ![p] = known[p]]
      BY <1>1, <1>4, <1>7 DEF RowsOK
    <2>2. QED
      BY <1>1, <1>2, <1>3, <1>5, <2>1, MovesFacts DEF t
  <1>8. QED
    BY <1>6, <1>7

LEMMA CreateFacts ==
  ASSUME PricesTypeOK, IdsInv, NEW p \in Proc, GetOrCreate(p)
  PROVE  doing[p] \in Ingestion /\ IngestFacts(p)
  <1> DEFINE t == doing[p].ticker
  <1>1. DoingOK /\ RowsOK /\ AreRows(known[p])
    BY TypeParts DEF RowsOK
  <1>2. Ingests(p, "create") /\ UNCHANGED <<timeVars, kept, removed, plan, events>>
    BY DEF GetOrCreate
  <1>3. doing[p] \in Ingestion /\ t \in Ticker
    BY <1>1, <1>2, IngestingFacts
  <1>4. /\ assets' = IF t \in DOMAIN assets THEN assets ELSE Put(assets, t, NewRow(t))
        /\ \/ /\ At(p, "upgrade")
              /\ known' = [known EXCEPT ![p] = Put(known[p], t, assets'[t])]
           \/ Known(p, Put(known[p], t, assets'[t]))
    BY <1>1 DEF GetOrCreate, RowsOK
  <1> HIDE DEF t
  <1>5. Keeps(assets')
    BY <1>1, <1>3, <1>4, InsertedFacts
  <1> DEFINE rows == Put(known[p], t, assets'[t])
  <1>6. t \in DOMAIN assets'
    BY <1>4 DEF Put
  <1>7. assets'[t] \in Asset
    BY <1>5, <1>6 DEF Keeps, AreRows
  <1>8. /\ AreRows(rows) /\ DOMAIN rows = DOMAIN known[p] \cup {t}
        /\ \A u \in DOMAIN known[p] \cup {t} :
             rows[u] = IF u = t THEN assets'[t] ELSE known[p][u]
    <2>1. \A row \in Asset :
            /\ AreRows(Put(known[p], t, row))
            /\ DOMAIN Put(known[p], t, row) = DOMAIN known[p] \cup {t}
            /\ \A u \in DOMAIN known[p] \cup {t} :
                 Put(known[p], t, row)[u] = IF u = t THEN row ELSE known[p][u]
      BY <1>1, <1>3, PutFacts
    <2>2. QED
      BY <1>7, <2>1
  <1>9. \/ At(p, "upgrade") /\ known' = [known EXCEPT ![p] = rows]
        \/ Known(p, rows)
    BY <1>4
  <1> HIDE DEF rows
  <1>10. \A u \in DOMAIN rows :
           \/ u \in DOMAIN known[p] /\ rows[u].id = known[p][u].id
           \/ u \in DOMAIN assets' /\ rows[u].id = assets'[u].id
    BY <1>6, <1>8
  <1>11. CASE Known(p, rows)
    BY <1>1, <1>2, <1>3, <1>5, <1>8, <1>10, <1>11, LearnsFacts
  <1>12. CASE At(p, "upgrade") /\ known' = [known EXCEPT ![p] = rows]
    BY <1>1, <1>2, <1>3, <1>5, <1>8, <1>10, <1>12, MovesFacts DEF t
  <1>13. QED
    BY <1>3, <1>9, <1>11, <1>12

LEMMA UpgradeFacts ==
  ASSUME PricesTypeOK, IdsInv, NEW p \in Proc, UpdateTier(p)
  PROVE  doing[p] \in Ingestion /\ IngestFacts(p)
  <1> DEFINE t == doing[p].ticker
  <1>1. DoingOK /\ RowsOK /\ AreRows(known[p]) /\ AreRows(assets)
    BY TypeParts DEF RowsOK
  <1>2. Ingests(p, "upgrade") /\ UNCHANGED <<timeVars, kept, removed, plan, events>>
    BY DEF UpdateTier
  <1>3. doing[p] \in Ingestion /\ t \in Ticker
    BY <1>1, <1>2, IngestingFacts
  <1>4. \/ /\ t \in DOMAIN assets
           /\ assets' = [assets EXCEPT ![t].tier = DetermineTier(t)]
           /\ Known(p, [known[p] EXCEPT ![t].tier = DetermineTier(t)])
        \/ /\ Known(p, [u \in DOMAIN known[p] \ {t} |-> known[p][u]])
           /\ UNCHANGED assets
    BY DEF UpdateTier
  <1>5. DetermineTier(t) \in Tier
    BY <1>3, ConstantAssumption DEF DetermineTier
  <1> HIDE DEF t
  <1>6. ASSUME NEW f, AreRows(f)
        PROVE  /\ AreRows([f EXCEPT ![t].tier = DetermineTier(t)])
               /\ DOMAIN [f EXCEPT ![t].tier = DetermineTier(t)] = DOMAIN f
               /\ \A u \in DOMAIN f : [f EXCEPT ![t].tier = DetermineTier(t)][u].id = f[u].id
    <2> DEFINE g == [f EXCEPT ![t].tier = DetermineTier(t)]
    <2>1. f \in [DOMAIN f -> Asset] /\ DOMAIN f \subseteq Ticker
      BY <1>6 DEF AreRows
    <2>2. DOMAIN g = DOMAIN f /\ g = [u \in DOMAIN f |-> g[u]]
      BY <2>1
    <2>3. \A u \in DOMAIN f : g[u] \in Asset /\ g[u].id = f[u].id
      BY <1>5, <2>1 DEF Asset
    <2> HIDE DEF g
    <2>4. QED
      BY <2>1, <2>2, <2>3 DEF AreRows, g
  <1>7. CASE /\ t \in DOMAIN assets
             /\ assets' = [assets EXCEPT ![t].tier = DetermineTier(t)]
             /\ Known(p, [known[p] EXCEPT ![t].tier = DetermineTier(t)])
    <2> DEFINE rows == [known[p] EXCEPT ![t].tier = DetermineTier(t)]
    <2>1. /\ AreRows(rows) /\ DOMAIN rows = DOMAIN known[p]
          /\ \A u \in DOMAIN rows : rows[u].id = known[p][u].id
      BY <1>1, <1>6
    <2>2. /\ AreRows(assets') /\ DOMAIN assets' = DOMAIN assets
          /\ \A u \in DOMAIN assets : assets'[u].id = assets[u].id
      BY <1>1, <1>6, <1>7
    <2>3. Keeps(assets')
      BY <2>2 DEF Keeps, IdsInv, IdsOf
    <2>4. Known(p, rows)
      BY <1>7
    <2> HIDE DEF rows
    <2>5. QED
      BY <1>1, <1>2, <1>3, <2>1, <2>3, <2>4, LearnsFacts
  <1>8. CASE /\ Known(p, [u \in DOMAIN known[p] \ {t} |-> known[p][u]])
             /\ UNCHANGED assets
    <2> DEFINE rows == [u \in DOMAIN known[p] \ {t} |-> known[p][u]]
    <2>1. /\ AreRows(rows) /\ DOMAIN rows = DOMAIN known[p] \ {t}
          /\ \A u \in DOMAIN rows : rows[u] = known[p][u]
      BY <1>1, RemoveFacts
    <2>2. Keeps(assets')
      BY <1>1, <1>8 DEF Keeps, IdsInv, IdsOf
    <2>3. Known(p, rows)
      BY <1>8
    <2> HIDE DEF rows
    <2>4. QED
      BY <1>1, <1>2, <1>3, <2>1, <2>2, <2>3, LearnsFacts
  <1>9. QED
    BY <1>4, <1>7, <1>8

-----------------------------------------------------------------------------
(* Time.                                                                    *)

Requests == [age : Nat, retry : BOOLEAN]

LEMMA LeastNumber ==
  ASSUME NEW S \in SUBSET Nat, S # {}
  PROVE  Min(S) \in S /\ \A x \in S : Min(S) <= x
  <1>1. PICK n \in S : \A m \in S : ~ (<<m, n>> \in OpToRel(<, Nat))
    BY WFMin, NatLessThanWellFounded
  <1>2. ASSUME NEW m \in S PROVE ~ (m < n)
    BY <1>1, Zenon DEF OpToRel
  <1>3. \A m \in S : n <= m
    BY <1>2
  <1>4. QED
    BY <1>3 DEF Min

\* What is left of the requests is the end of them, a tick older.
LEMMA AgedFacts ==
  ASSUME NEW requests \in Seq(Requests), NEW delay \in Nat
  PROVE  /\ Aged(requests, delay) \in Seq(Requests)
         /\ \E m \in 0..Len(requests) :
              /\ Len(Aged(requests, delay)) = Len(requests) - m
              /\ \A i \in 1..(Len(requests) - m) :
                    Aged(requests, delay)[i] = [requests[i + m] EXCEPT !.age = @ + 1]
         /\ Len(Aged(requests, delay)) > 0 => Aged(requests, delay)[1].age < delay
  <1> DEFINE n == Len(requests)
             older == [i \in DOMAIN requests |-> [requests[i] EXCEPT !.age = @ + 1]]
             within == {i \in DOMAIN older : older[i].age < delay}
  <1>1. n \in Nat /\ DOMAIN requests = 1..n /\ DOMAIN older = 1..n
    OBVIOUS
  <1>2. \A i \in 1..n : /\ older[i] = [requests[i] EXCEPT !.age = @ + 1]
                        /\ older[i] \in Requests
    <2> TAKE i \in 1..n
    <2>1. requests[i] \in Requests
      BY <1>1
    <2>2. [requests[i] EXCEPT !.age = @ + 1] \in Requests
      BY <2>1 DEF Requests
    <2>3. older[i] = [requests[i] EXCEPT !.age = @ + 1]
      BY <1>1
    <2>4. QED
      BY <2>2, <2>3
  <1>3. Len(older) = n
    BY <1>1
  <1>4. Aged(requests, delay) =
          IF within = {} THEN <<>> ELSE SubSeq(older, Min(within), Len(older))
    BY DEF Aged
  <1>5. within \subseteq 1..n /\ \A i \in within : older[i].age < delay
    BY <1>1
  <1> HIDE DEF older, within, n
  <1>6. CASE within = {}
    <2>1. Aged(requests, delay) = <<>>
      BY <1>4, <1>6
    <2>2. n \in 0..n /\ \A i \in 1..(n - n) : FALSE
      BY <1>1
    <2>3. QED
      BY <2>1, <2>2 DEF n
  <1>7. CASE within # {}
    <2> DEFINE m == Min(within)
    <2>1. m \in within
      BY <1>1, <1>5, <1>7, LeastNumber
    <2>2. m \in 1..n
      BY <1>5, <2>1
    <2>3. Aged(requests, delay) = SubSeq(older, m, n)
      BY <1>3, <1>4, <1>7
    <2> HIDE DEF m
    <2>4. \A i \in m..n : older[i] \in Requests
      BY <1>1, <1>2, <2>2
    <2>5. m \in Int /\ n \in Int /\ m <= n
      BY <1>1, <2>2
    <2>6. /\ SubSeq(older, m, n) \in Seq(Requests)
          /\ Len(SubSeq(older, m, n)) = n - m + 1
          /\ \A i \in 1..(n - m + 1) : SubSeq(older, m, n)[i] = older[m + i - 1]
      BY <2>4, <2>5, SubSeqProperties
    <2>7. m - 1 \in 0..n /\ n - (m - 1) = n - m + 1
      BY <1>1, <2>2
    <2>8. \A i \in 1..(n - m + 1) :
             SubSeq(older, m, n)[i] = [requests[i + (m - 1)] EXCEPT !.age = @ + 1]
      <3> TAKE i \in 1..(n - m + 1)
      <3>1. m + i - 1 \in 1..n /\ m + i - 1 = i + (m - 1)
        BY <1>1, <2>2
      <3>2. QED
        BY <1>2, <2>6, <3>1
    <2>9. SubSeq(older, m, n)[1].age < delay
      <3>1. 1 \in 1..(n - m + 1) /\ m + 1 - 1 = m
        BY <1>1, <2>2
      <3>2. SubSeq(older, m, n)[1] = older[m]
        BY <2>6, <3>1
      <3>3. QED
        BY <1>5, <2>1, <3>2
    <2>10. QED
      BY <2>3, <2>6, <2>7, <2>8, <2>9 DEF n
  <1>8. QED
    BY <1>6, <1>7

LEMMA TickFacts ==
  ASSUME PricesTypeOK, PassTime
  PROVE  /\ PaceOK' /\ kept' \in 0..CacheTimeout
         /\ \A p \in Proc :
              /\ wait'[p] = IF wait[p] = 0 THEN 0 ELSE wait[p] - 1
              /\ since'[p] = IF since[p] = LongAgo THEN LongAgo ELSE since[p] + 1
              /\ recent'[p] = IF doing[p] = None THEN <<>>
                              ELSE Aged(recent[p], Delay(doing[p].source))
         /\ UNCHANGED <<doing, assets, known, removed, plan, events>>
  <1>1. PaceOK /\ kept \in 0..CacheTimeout
    BY TypeParts
  <1>2. wait' \in [Proc -> Nat]
    BY <1>1 DEF PaceOK, PassTime
  <1>3. since' \in [Proc \cup {"function"} -> 0..LongAgo]
    BY <1>1, DelayFacts DEF PaceOK, PassTime
  <1>4. recent' \in [Proc -> Seq(Requests)]
    <2>1. ASSUME NEW p \in Proc
          PROVE  /\ Aged(recent[p], Delay(doing[p].source)) \in Seq(Requests)
                 /\ <<>> \in Seq(Requests)
      <3>1. recent[p] \in Seq(Requests)
        BY <1>1 DEF PaceOK, Requests
      <3>2. Delay(doing[p].source) \in Nat
        BY DelayFacts
      <3>3. QED
        BY <3>1, <3>2, AgedFacts
    <2>2. QED
      BY <2>1 DEF PassTime
  <1>5. kept' \in 0..CacheTimeout
    BY <1>1, ConstantAssumption DEF PassTime
  <1>6. /\ PaceOK'
        /\ \A p \in Proc :
             since'[p] = IF since[p] = LongAgo THEN LongAgo ELSE since[p] + 1
    BY <1>1, <1>2, <1>3, <1>4 DEF PaceOK, Requests, PassTime
  <1>7. QED
    BY <1>5, <1>6 DEF PassTime

-----------------------------------------------------------------------------
(* Types and ids, by every step.                                            *)

LEMMA EditFacts ==
  ASSUME PricesTypeOK, IdsInv, NEW t \in Ticker, EditAsset(t)
  PROVE  PricesTypeOK' /\ IdsInv'
  <1>1. DoingOK /\ PaceOK /\ RowsOK /\ PlanOK /\ kept \in 0..CacheTimeout /\ events \in 0..MaxEvents
    BY TypeParts
  <1>2. UNCHANGED <<doing, timeVars, kept, known, plan>> /\ Event(1)
    BY DEF EditAsset
  <1>3. events' \in 0..MaxEvents
    BY <1>1, <1>2, Counted
  <1>4. ASSUME RowsOK', IdsInv' PROVE PricesTypeOK' /\ IdsInv'
    <2>1. DoingOK' /\ PaceOK' /\ PlanOK' /\ kept' \in 0..CacheTimeout
      BY <1>1, <1>2, Frames
    <2>2. QED
      BY <1>3, <1>4, <2>1, TypeParts
  <1>5. CASE /\ t \notin DOMAIN assets
             /\ assets' = Put(assets, t, [NewRow(t) EXCEPT !.tier = "UNCLASSIFIED"])
             /\ UNCHANGED removed
    <2> DEFINE row == [NewRow(t) EXCEPT !.tier = "UNCLASSIFIED"]
    <2>1. NewRow(t) \in Asset /\ NewRow(t).id = removed[t]
      BY <1>1, NewRowFacts
    <2>2. row \in Asset /\ row.id = removed[t]
      BY <2>1 DEF Asset, Tier
    <2> HIDE DEF row
    <2>3. /\ AreRows(assets') /\ DOMAIN assets' = DOMAIN assets \cup {t}
          /\ \A u \in DOMAIN assets \cup {t} :
               assets'[u] = IF u = t THEN row ELSE assets[u]
      <3>1. assets' = Put(assets, t, row) /\ AreRows(assets)
        BY <1>1, <1>5 DEF row, RowsOK
      <3>2. /\ AreRows(Put(assets, t, row))
            /\ DOMAIN Put(assets, t, row) = DOMAIN assets \cup {t}
        BY <2>2, <3>1, PutFacts
      <3>3. \A u \in DOMAIN assets \cup {t} :
              Put(assets, t, row)[u] = IF u = t THEN row ELSE assets[u]
        BY DEF Put
      <3>4. QED
        BY <3>1, <3>2, <3>3
    <2>4. RowsOK'
      BY <1>1, <1>2, <1>5, <2>3 DEF RowsOK, AreRows
    <2>5. IdsInv'
      BY <1>2, <1>5, <2>2, <2>3 DEF IdsInv, IdsOf, KnownIdsAreRows
    <2>6. QED
      BY <1>4, <2>4, <2>5
  <1>6. CASE /\ t \in DOMAIN assets
             /\ \E active \in BOOLEAN, tier \in {DetermineTier(t), "UNCLASSIFIED"} :
                  assets' = [assets EXCEPT ![t].active = active, ![t].tier = tier]
             /\ UNCHANGED removed
    <2>1. PICK active \in BOOLEAN, tier \in {DetermineTier(t), "UNCLASSIFIED"} :
            assets' = [assets EXCEPT ![t].active = active, ![t].tier = tier]
      BY <1>6
    <2>2. tier \in Tier
      BY <2>1, ConstantAssumption DEF DetermineTier, Tier
    <2>3. assets \in [DOMAIN assets -> Asset]
      BY <1>1 DEF RowsOK, AreRows
    <2> DEFINE row == [assets[t] EXCEPT !.active = active, !.tier = tier]
    <2>4. assets[t] \in Asset
      BY <1>6, <2>3
    <2>5. row \in Asset /\ row.id = assets[t].id
      BY <2>2, <2>4 DEF Asset
    <2>6. assets' = [assets EXCEPT ![t] = row]
      BY <2>1, <2>3
    <2> HIDE DEF row
    <2>7. /\ DOMAIN assets' = DOMAIN assets /\ assets' \in [DOMAIN assets -> Asset]
          /\ \A u \in DOMAIN assets : assets'[u].id = assets[u].id
      BY <2>3, <2>5, <2>6
    <2>8. RowsOK'
      BY <1>1, <1>2, <1>6, <2>7 DEF RowsOK, AreRows
    <2>9. IdsInv'
      BY <1>2, <1>6, <2>7 DEF IdsInv, IdsOf, KnownIdsAreRows
    <2>10. QED
      BY <1>4, <2>8, <2>9
  <1>7. CASE /\ t \in DOMAIN assets
             /\ assets' = [u \in DOMAIN assets \ {t} |-> assets[u]]
             /\ removed' = [removed EXCEPT ![t] = @ + 1]
    <2>1. /\ AreRows(assets') /\ DOMAIN assets' = DOMAIN assets \ {t}
          /\ \A u \in DOMAIN assets' : assets'[u] = assets[u]
      BY <1>1, <1>7, RemoveFacts DEF RowsOK
    <2>2. /\ removed' \in [Ticker -> Nat] /\ removed'[t] = removed[t] + 1
          /\ \A u \in Ticker \ {t} : removed'[u] = removed[u]
      BY <1>1, <1>7 DEF RowsOK
    <2>3. RowsOK'
      BY <1>1, <1>2, <2>1, <2>2 DEF RowsOK, AreRows
    <2>4. IdsOf(assets)'
      BY <1>1, <2>1, <2>2 DEF IdsInv, IdsOf, RowsOK, AreRows
    <2>5. ASSUME NEW p \in Proc, NEW u \in DOMAIN known[p]
          PROVE  \/ known[p][u].id \in 0..(removed'[u] - 1)
                 \/ u \in DOMAIN assets' /\ assets'[u].id = known[p][u].id
      <3>1. u \in Ticker /\ known[p][u].id \in Nat /\ removed[u] \in Nat
        BY <1>1 DEF RowsOK, AreRows, Asset
      <3>2. \/ known[p][u].id \in 0..(removed[u] - 1)
            \/ u \in DOMAIN assets /\ assets[u].id = known[p][u].id
        BY DEF IdsInv, KnownIdsAreRows
      <3>3. CASE known[p][u].id \in 0..(removed[u] - 1)
        BY <2>2, <3>1, <3>3
      <3>4. CASE u \in DOMAIN assets /\ assets[u].id = known[p][u].id
        <4>1. assets[u].id = removed[u]
          BY <3>4 DEF IdsInv, IdsOf
        <4>2. CASE u = t
          BY <2>2, <3>1, <3>4, <4>1, <4>2
        <4>3. CASE u # t
          BY <2>1, <3>4, <4>3
        <4>4. QED
          BY <4>2, <4>3
      <3>5. QED
        BY <3>2, <3>3, <3>4
    <2>6. IdsInv'
      BY <1>2, <2>4, <2>5 DEF IdsInv, KnownIdsAreRows
    <2>7. QED
      BY <1>4, <2>3, <2>6
  <1>8. QED
    BY <1>5, <1>6, <1>7 DEF EditAsset

LEMMA IngestBegins ==
  ASSUME PricesTypeOK, IdsInv, NEW p \in Proc, Ingest(p)
  PROVE  /\ PricesTypeOK' /\ IdsInv'
         /\ \E r \in Ingestion : doing' = [doing EXCEPT ![p] = r]
  <1> DEFINE r == [program |-> "ingest", source |-> "file", left |-> 2, pc |-> "file",
                   ticker |-> None, found |-> FALSE]
  <1>1. DoingOK /\ PaceOK /\ RowsOK /\ PlanOK /\ kept \in 0..CacheTimeout /\ events \in 0..MaxEvents
    BY TypeParts
  <1>2. /\ doing' = [doing EXCEPT ![p] = r] /\ known' = [known EXCEPT ![p] = assets] /\ Event(1)
        /\ UNCHANGED <<timeVars, kept, assets, removed, plan>>
    BY DEF Ingest
  <1>3. r \in Ingestion
    BY DEF Ingestion
  <1> HIDE DEF r
  <1>4. DoingOK'
    BY <1>1, <1>2, <1>3 DEF DoingOK
  <1>5. /\ known' = [q \in Proc |-> known'[q]] /\ known'[p] = assets
        /\ \A q \in Proc \ {p} : known'[q] = known[q]
    BY <1>1, <1>2 DEF RowsOK
  <1>6. RowsOK'
    BY <1>1, <1>2, <1>5 DEF RowsOK, AreRows
  <1>7. PaceOK' /\ PlanOK' /\ kept' \in 0..CacheTimeout /\ events' \in 0..MaxEvents
    BY <1>1, <1>2, Frames, Counted
  <1>8. PricesTypeOK'
    BY <1>4, <1>6, <1>7, TypeParts
  <1>9. IdsInv'
    BY <1>2, <1>5 DEF IdsInv, IdsOf, KnownIdsAreRows
  <1>10. QED
    BY <1>2, <1>3, <1>8, <1>9

\* The steps of commands and callers at a request.
Fetches(p) ==
  \/ ApplyRateLimit(p) \/ MakeRequest(p) \/ AnswerFromCache(p) \/ Starts(p)
  \/ \E outcome : Answer(p, outcome)

Ingesting(p) ==
  GetOrCreateAsset(p) \/ BulkCreateAssets(p) \/ GetOrCreate(p) \/ UpdateTier(p)

LEMMA FetchesTypes ==
  ASSUME PricesTypeOK, NEW p \in Proc, Fetches(p)
  PROVE  PricesTypeOK' /\ UNCHANGED <<assets, known, removed>>
  <1> DEFINE Outcome(r) == r \in {None} \cup Fetching /\ FetchStep(p, r) /\ PaceOK'
                           /\ kept' \in 0..CacheTimeout /\ events' \in 0..MaxEvents
  <1>1. kept \in 0..CacheTimeout /\ events \in 0..MaxEvents
    BY TypeParts
  <1>2. \E r : Outcome(r)
    <2>1. CASE ApplyRateLimit(p)
      BY <1>1, <2>1, RateLimitFacts
    <2>2. CASE MakeRequest(p)
      BY <1>1, <2>2, RequestFacts
    <2>3. CASE AnswerFromCache(p)
      BY <1>1, <2>3, EndOfCallFacts
    <2>4. CASE Starts(p)
      BY <1>1, <2>4, StartFacts
    <2>5. ASSUME NEW outcome, Answer(p, outcome) PROVE \E r : Outcome(r)
      <3>1. CASE Retry(p, outcome)
        BY <1>1, <2>5, <3>1, BackOffFacts
      <3>2. CASE ~Retry(p, outcome) /\ doing[p].source = "function"
        BY <1>1, <2>5, <3>2, EndOfCallFacts
      <3>3. CASE ~Retry(p, outcome) /\ doing[p].source # "function"
        BY <1>1, <2>5, <3>3, EndOfFetchFacts
      <3>4. QED
        BY <3>1, <3>2, <3>3
    <2>6. QED
      BY <2>1, <2>2, <2>3, <2>4, <2>5 DEF Fetches
  <1>3. PICK r : Outcome(r)
    BY <1>2
  <1>4. QED
    BY <1>3, FetchStepTypes DEF FetchStep

LEMMA StepCases ==
  ASSUME PricesNext
  PROVE  \/ \E p \in Proc : Fetches(p) \/ Ingesting(p) \/ Ingest(p)
         \/ \E t \in Ticker : EditAsset(t)
         \/ ClearCache \/ CreateIngestionPlan \/ PassTime
  BY Zenon DEF PricesNext, Begin, Step, Fetches, Starts, Ingesting

LEMMA IngestingKeeps ==
  ASSUME PricesTypeOK, IdsInv, NEW p \in Proc, Ingesting(p)
  PROVE  doing[p] \in Ingestion /\ IngestFacts(p)
  BY LookUpFacts, BulkFacts, CreateFacts, UpgradeFacts DEF Ingesting

LEMMA PlanFacts ==
  ASSUME PricesTypeOK, CreateIngestionPlan
  PROVE  PricesTypeOK' /\ UNCHANGED <<doing, timeVars, assets, known, removed>>
  <1>1. DoingOK /\ PaceOK /\ RowsOK /\ kept \in 0..CacheTimeout /\ events \in 0..MaxEvents
    BY TypeParts
  <1>2. Event(3) /\ UNCHANGED <<doing, timeVars, kept, assets, known, removed>>
    BY DEF CreateIngestionPlan
  <1>3. \A tier : TierAssets(tier) \subseteq Ticker
    BY <1>1 DEF TierAssets, Active, RowsOK, AreRows
  <1>4. plan' # None => /\ plan'.assets \subseteq Ticker
                        /\ {plan'.start, plan'.end} \subseteq 0..Oldest
    BY <1>3 DEF CreateIngestionPlan
  <1>5. QED
    BY <1>1, <1>2, <1>4, Frames, Counted, TypeParts DEF PlanOK

LEMMA NextPrices ==
  ASSUME PricesTypeOK, IdsInv, [PricesNext]_priceVars
  PROVE  PricesTypeOK' /\ IdsInv'
  <1>1. ASSUME PricesTypeOK', UNCHANGED <<assets, known, removed>> PROVE IdsInv'
    BY <1>1 DEF IdsInv, IdsOf, KnownIdsAreRows
  <1>2. CASE UNCHANGED priceVars
    BY <1>1, <1>2 DEF priceVars, timeVars, PricesTypeOK, AreRows
  <1>3. ASSUME NEW p \in Proc, Fetches(p) PROVE PricesTypeOK' /\ IdsInv'
    BY <1>1, <1>3, FetchesTypes
  <1>4. ASSUME NEW p \in Proc, Ingesting(p) PROVE PricesTypeOK' /\ IdsInv'
    <2>1. PICK r \in {None} \cup Ingestion : IngestStep(p, r) /\ RowsOK' /\ KeepsIds(p)
      BY <1>4, IngestingKeeps DEF IngestFacts
    <2>2. QED
      BY <2>1, IngestStepTypes, KeptIds
  <1>5. ASSUME NEW p \in Proc, Ingest(p) PROVE PricesTypeOK' /\ IdsInv'
    BY <1>5, IngestBegins
  <1>6. ASSUME NEW t \in Ticker, EditAsset(t) PROVE PricesTypeOK' /\ IdsInv'
    BY <1>6, EditFacts
  <1>7. CASE ClearCache
    <2>1. PricesTypeOK'
      <3>1. Event(1) /\ kept' = 0 /\ UNCHANGED <<doing, timeVars, assets, known, removed, plan>>
        BY <1>7 DEF ClearCache
      <3>2. kept' \in 0..CacheTimeout
        BY <3>1, ConstantAssumption
      <3>3. QED
        BY <3>1, <3>2, Frames, Counted, TypeParts
    <2>2. QED
      BY <1>1, <1>7, <2>1 DEF ClearCache
  <1>8. CASE CreateIngestionPlan
    BY <1>1, <1>8, PlanFacts
  <1>9. CASE PassTime
    <2>1. /\ PaceOK' /\ kept' \in 0..CacheTimeout
          /\ UNCHANGED <<doing, assets, known, removed, plan, events>>
      BY <1>9, TickFacts
    <2>2. PricesTypeOK'
      BY <2>1, Frames, TypeParts
    <2>3. QED
      BY <1>1, <2>1, <2>2
  <1>10. QED
    BY <1>2, <1>3, <1>4, <1>5, <1>6, <1>7, <1>8, <1>9, StepCases

LEMMA InitPricesFacts ==
  ASSUME PricesInit
  PROVE  PricesTypeOK /\ IdsInv
  <1>1. PICK some \in SUBSET Ticker :
          assets = [t \in some |-> [id |-> 0, category |-> DetermineCategory(t),
                                    tier |-> DetermineTier(t), active |-> TRUE]]
    BY DEF PricesInit
  <1>2. AreRows(assets) /\ \A t \in DOMAIN assets : assets[t].id = 0
    BY <1>1, ConstantAssumption DEF AreRows, Asset, DetermineCategory, DetermineTier
  <1>3. PaceOK
    BY DelayFacts DEF PricesInit, PaceOK
  <1>4. RowsOK
    BY <1>2 DEF PricesInit, RowsOK, AreRows
  <1>5. DoingOK /\ PlanOK /\ kept \in 0..CacheTimeout /\ events \in 0..MaxEvents
    BY ConstantAssumption DEF PricesInit, DoingOK, PlanOK
  <1>6. IdsInv
    BY <1>2 DEF PricesInit, IdsInv, IdsOf, KnownIdsAreRows, AreRows
  <1>7. QED
    BY <1>3, <1>4, <1>5, <1>6, TypeParts

\* Every variable of the price sources has its type.
THEOREM PricesTypeCorrect == PricesSpec => []PricesTypeOK
  <1>1. PricesInit => PricesTypeOK /\ IdsInv
    BY InitPricesFacts
  <1>2. PricesTypeOK /\ IdsInv /\ [PricesNext]_priceVars => (PricesTypeOK /\ IdsInv)'
    BY NextPrices
  <1>3. QED
    BY <1>1, <1>2, PTL DEF PricesSpec

\* The id that a run of the ingestion remembers for a ticker is that of its row,
\* or of a row of it that was deleted since, whoever inserted it.
THEOREM KnownIds == PricesSpec => []KnownIdsAreRows
  <1>1. PricesInit => PricesTypeOK /\ IdsInv
    BY InitPricesFacts
  <1>2. PricesTypeOK /\ IdsInv /\ [PricesNext]_priceVars => (PricesTypeOK /\ IdsInv)'
    BY NextPrices
  <1>3. IdsInv => KnownIdsAreRows
    BY DEF IdsInv
  <1>4. QED
    BY <1>1, <1>2, <1>3, PTL DEF PricesSpec

-----------------------------------------------------------------------------
(* The pacing.  The time that is noted is that of the last first attempt, so *)
(* that a first attempt finds one retry within the delay at most, and a      *)
(* retry, after its backoff, finds nothing.                                  *)

Window(requests, last, delay) ==
  /\ Len(requests) <= 2
  /\ Len(requests) = 2 => requests[1].retry /\ requests[2].age <= requests[1].age
  /\ \A i \in 1..Len(requests) :
       /\ requests[i].age < delay
       /\ IF requests[i].retry THEN i = 1 ELSE last <= requests[i].age

Pacing(p) == doing[p] # None /\ doing[p].source \notin {"function", "file"}

Paced(p) ==
  /\ ~Pacing(p) => recent[p] = <<>>
  /\ Pacing(p) =>
       /\ Window(recent[p], since[p], Delay(doing[p].source))
       /\ doing[p].pc \in {"fetch", "sleep"} => doing[p].attempt = 1
       /\ doing[p].pc = "sleep" => wait[p] + since[p] >= Delay(doing[p].source)
       /\ doing[p].pc = "backoff" =>
            /\ doing[p].attempt > 1 /\ doing[p].source = "kraken"
            /\ \A i \in 1..Len(recent[p]) : recent[p][i].age + wait[p] >= Delay(doing[p].source)

PaceInv == \A p \in Proc : Paced(p)

LEMMA OthersPaced ==
  ASSUME PaceInv, NEW p \in Proc, NEW r, FetchStep(p, r), Paced(p)', DoingOK
  PROVE  PaceInv'
  <1>1. \A q \in Proc \ {p} : /\ doing'[q] = doing[q] /\ wait'[q] = wait[q]
                              /\ since'[q] = since[q] /\ recent'[q] = recent[q]
    BY DEF FetchStep, DoingOK
  <1>2. \A q \in Proc \ {p} : Paced(q)'
    BY <1>1 DEF PaceInv, Paced, Pacing
  <1>3. QED
    BY <1>2 DEF PaceInv

LEMMA PacingFacts ==
  ASSUME DoingOK, PaceOK, NEW p \in Proc, Pacing(p)
  PROVE  /\ doing[p] \in Fetching /\ doing[p].source \in {"kraken", "massive", "finnhub"}
         /\ Object(p) = p /\ since[p] \in Nat /\ wait[p] \in Nat
         /\ recent[p] \in Seq(Requests) /\ Delay(doing[p].source) \in Nat
  <1>1. doing[p] \in Fetching /\ doing[p].source \in {"kraken", "massive", "finnhub"}
    BY DEF Pacing, DoingOK, Fetching, Ingestion
  <1>2. QED
    BY <1>1, DelayFacts DEF Object, PaceOK, Requests

LEMMA AgeFacts ==
  ASSUME NEW requests \in Seq(Requests)
  PROVE  /\ Len(requests) \in Nat
         /\ \A i \in 1..Len(requests) : requests[i] \in Requests /\ requests[i].age \in Nat
  <1>1. Len(requests) \in Nat /\ \A i \in 1..Len(requests) : requests[i] \in Requests
    OBVIOUS
  <1>2. \A r \in Requests : r.age \in Nat
    BY DEF Requests
  <1>3. QED
    BY <1>1, <1>2

LEMMA EmptyWindow == \A last, delay : Window(<<>>, last, delay)
  BY DEF Window

LEMMA PacedAnew ==
  ASSUME DoingOK, NEW p \in Proc, NEW r \in {None} \cup Fetching,
         doing' = [doing EXCEPT ![p] = r], Anew(p, r)
  PROVE  Paced(p)'
  <1>1. doing'[p] = r /\ recent'[p] = <<>>
    BY DEF DoingOK, Anew
  <1>2. r # None => r.pc = "fetch" /\ r.attempt = 1
    BY DEF Anew
  <1>3. QED
    BY <1>1, <1>2, EmptyWindow DEF Paced, Pacing

\* A first attempt that waited for the delay, and a retry.
LEMMA SentFacts ==
  ASSUME NEW requests \in Seq(Requests), NEW last \in Nat, NEW delay \in Nat \ {0},
         Window(requests, last, delay), NEW retry \in BOOLEAN,
         IF retry THEN requests = <<>> ELSE last >= delay
  PROVE  Window(Append(requests, [age |-> 0, retry |-> retry]),
                IF retry THEN last ELSE 0, delay)
  <1> DEFINE new == [age |-> 0, retry |-> retry]
             n == Len(requests)
             sent == Append(requests, new)
  <1>1. n \in Nat /\ Len(sent) = n + 1 /\ sent[n + 1] = new /\ \A i \in 1..n : sent[i] = requests[i]
    OBVIOUS
  <1>2. new.age = 0 /\ new.retry = retry
    OBVIOUS
  <1>3. \A i \in 1..n : requests[i].age \in Nat
    BY AgeFacts
  <1>4. n <= 2 /\ \A i \in 1..n : /\ requests[i].age < delay
                                  /\ IF requests[i].retry THEN i = 1 ELSE last <= requests[i].age
    BY DEF Window
  <1> HIDE DEF sent, n, new
  <1>5. CASE retry
    <2>1. n = 0
      BY <1>5 DEF n
    <2>2. QED
      BY <1>1, <1>2, <1>5, <2>1 DEF Window, sent, new
  <1>6. CASE ~retry
    <2>1. \A i \in 1..n : requests[i].retry /\ i = 1
      BY <1>3, <1>4, <1>6
    <2>2. n <= 1
      BY <1>1, <2>1
    <2>3. Window(sent, 0, delay)
      BY <1>1, <1>2, <1>3, <1>4, <1>6, <2>1, <2>2 DEF Window
    <2>4. QED
      BY <1>6, <2>3 DEF sent, new
  <1>7. QED
    BY <1>5, <1>6

LEMMA RequestPaced ==
  ASSUME PricesTypeOK, PaceInv, NEW p \in Proc, MakeRequest(p)
  PROVE  Paced(p)'
  <1>1. DoingOK /\ PaceOK
    BY TypeParts
  <1>2. /\ doing[p] \in Fetching
        /\ \/ doing[p].pc = "fetch" /\ since[Object(p)] >= Delay(doing[p].source)
           \/ doing[p].pc \in {"sleep", "backoff"} /\ wait[p] = 0
        /\ [doing[p] EXCEPT !.pc = "asked"] \in Fetching
        /\ FetchStep(p, [doing[p] EXCEPT !.pc = "asked"])
        /\ since'[p] = IF doing[p].source # "function" /\ doing[p].attempt = 1 THEN 0 ELSE since[p]
        /\ recent'[p] = IF Delay(doing[p].source) = 0 \/ doing[p].source = "function"
                          THEN recent[p]
                          ELSE Append(recent[p], [age |-> 0, retry |-> doing[p].attempt > 1])
    BY RequestFacts
  <1>3. doing'[p].source = doing[p].source /\ doing'[p].pc = "asked" /\ doing'[p] # None
    <2>1. doing'[p] = [doing[p] EXCEPT !.pc = "asked"]
      BY <1>1, <1>2 DEF FetchStep, DoingOK
    <2>2. QED
      BY <1>2, <2>1, ConstantAssumption DEF Fetching
  <1>4. Paced(p)
    BY DEF PaceInv
  <1>5. CASE doing[p].source = "function"
    <2>1. recent'[p] = <<>>
      BY <1>2, <1>4, <1>5 DEF Paced, Pacing
    <2>2. QED
      BY <1>3, <1>5, <2>1 DEF Paced, Pacing
  <1>6. CASE doing[p].source # "function"
    <2> DEFINE delay == Delay(doing[p].source)
    <2>1. Pacing(p)
      BY <1>2, <1>6, ConstantAssumption DEF Pacing, Fetching
    <2>2. /\ Object(p) = p /\ since[p] \in Nat /\ wait[p] \in Nat
          /\ recent[p] \in Seq(Requests) /\ delay \in Nat
      BY <1>1, <2>1, PacingFacts
    <2>3. /\ Window(recent[p], since[p], delay)
          /\ doing[p].pc \in {"fetch", "sleep"} => doing[p].attempt = 1
          /\ doing[p].pc = "sleep" => wait[p] + since[p] >= delay
          /\ doing[p].pc = "backoff" =>
               /\ doing[p].attempt > 1
               /\ \A i \in 1..Len(recent[p]) : recent[p][i].age + wait[p] >= delay
      BY <1>4, <2>1 DEF Paced
    <2>4. Pacing(p)' /\ Delay(doing'[p].source) = delay
      BY <1>3, <2>1 DEF Pacing
    <2> HIDE DEF delay
    <2>5. Window(recent'[p], since'[p], delay)
      <3>1. CASE delay = 0
        <4>1. Len(recent[p]) = 0
          <5>1. Len(recent[p]) \in Nat /\ \A i \in 1..Len(recent[p]) : recent[p][i].age \in Nat
            BY <2>2, AgeFacts
          <5>2. \A i \in 1..Len(recent[p]) : recent[p][i].age < 0
            BY <2>3, <3>1 DEF Window
          <5>3. QED
            BY <5>1, <5>2
        <4>2. recent'[p] = <<>>
          BY <1>2, <2>2, <3>1, <4>1 DEF delay
        <4>3. QED
          BY <4>2, EmptyWindow
      <3>2. CASE delay # 0
        <4> DEFINE retry == doing[p].attempt > 1
        <4>1. recent'[p] = Append(recent[p], [age |-> 0, retry |-> retry])
          BY <1>2, <1>6, <3>2 DEF delay
        <4>2. doing[p].attempt \in Nat \ {0}
          BY <1>2, ConstantAssumption DEF Fetching
        <4>3. since'[p] = IF retry THEN since[p] ELSE 0
          BY <1>2, <1>6, <4>2
        <4>4. IF retry THEN recent[p] = <<>> ELSE since[p] >= delay
          <5>1. CASE doing[p].pc = "backoff"
            <6> DEFINE n == Len(recent[p])
            <6>1. n \in Nat /\ \A i \in 1..n : recent[p][i].age \in Nat
              BY <2>2, AgeFacts
            <6>2. wait[p] = 0 /\ \A i \in 1..n : recent[p][i].age + wait[p] >= delay
              BY <1>2, <2>3, <5>1
            <6>3. \A i \in 1..n : recent[p][i].age < delay
              BY <2>3 DEF Window
            <6>4. n = 0
              BY <2>2, <6>1, <6>2, <6>3
            <6>5. QED
              BY <2>2, <2>3, <5>1, <6>4
          <5>2. CASE doing[p].pc # "backoff"
            <6>1. since[p] >= delay
              BY <1>2, <2>2, <2>3, <5>2 DEF delay
            <6>2. ~retry
              BY <1>2, <2>3, <5>2
            <6>3. QED
              BY <6>1, <6>2
          <5>3. QED
            BY <5>1, <5>2
        <4>5. retry \in BOOLEAN /\ delay \in Nat \ {0}
          BY <2>2, <3>2
        <4> HIDE DEF retry
        <4>6. QED
          BY <2>2, <2>3, <4>1, <4>3, <4>4, <4>5, SentFacts
      <3>3. QED
        BY <3>1, <3>2
    <2>6. QED
      BY <1>3, <2>4, <2>5 DEF Paced
  <1>7. QED
    BY <1>5, <1>6

LEMMA RateLimitPaced ==
  ASSUME PricesTypeOK, PaceInv, NEW p \in Proc, ApplyRateLimit(p)
  PROVE  Paced(p)'
  <1>1. DoingOK /\ PaceOK
    BY TypeParts
  <1>2. /\ doing[p] \in Fetching /\ doing[p].pc = "fetch"
        /\ [doing[p] EXCEPT !.pc = "sleep"] \in Fetching
        /\ FetchStep(p, [doing[p] EXCEPT !.pc = "sleep"])
        /\ wait' = [wait EXCEPT ![p] = Delay(doing[p].source) - since[Object(p)]]
        /\ UNCHANGED <<since, recent>>
    BY RateLimitFacts
  <1>3. /\ doing'[p].source = doing[p].source /\ doing'[p].pc = "sleep" /\ doing'[p] # None
        /\ doing'[p].attempt = doing[p].attempt
    <2>1. doing'[p] = [doing[p] EXCEPT !.pc = "sleep"]
      BY <1>1, <1>2 DEF FetchStep, DoingOK
    <2>2. QED
      BY <1>2, <2>1, ConstantAssumption DEF Fetching
  <1>4. Paced(p) /\ doing[p] # None
    BY <1>2, ConstantAssumption DEF PaceInv
  <1>5. CASE ~Pacing(p)
    BY <1>2, <1>3, <1>4, <1>5 DEF Paced, Pacing
  <1>6. CASE Pacing(p)
    <2>1. /\ Object(p) = p /\ since[p] \in Nat /\ Delay(doing[p].source) \in Nat
      BY <1>1, <1>6, PacingFacts
    <2>2. wait'[p] = Delay(doing[p].source) - since[p]
      BY <1>1, <1>2, <2>1 DEF PaceOK
    <2>3. wait'[p] + since'[p] = Delay(doing[p].source)
      BY <1>2, <2>1, <2>2
    <2>4. Window(recent[p], since[p], Delay(doing[p].source)) /\ doing[p].attempt = 1
      BY <1>2, <1>4, <1>6 DEF Paced
    <2>5. QED
      BY <1>2, <1>3, <1>6, <2>1, <2>3, <2>4 DEF Paced, Pacing
  <1>7. QED
    BY <1>5, <1>6

LEMMA BackOffPaced ==
  ASSUME PricesTypeOK, PaceInv, NEW p \in Proc, NEW outcome, Answer(p, outcome), Retry(p, outcome)
  PROVE  Paced(p)'
  <1> DEFINE r == [doing[p] EXCEPT !.pc = "backoff", !.attempt = @ + 1]
  <1>1. DoingOK /\ PaceOK
    BY TypeParts
  <1>2. /\ doing[p] \in Fetching /\ doing[p].source \in {"kraken", "function"}
        /\ r \in Fetching /\ FetchStep(p, r) /\ wait'[p] >= Second
        /\ PaceOK' /\ UNCHANGED <<since, recent>>
    BY BackOffFacts
  <1>3. r.source = doing[p].source /\ r.pc = "backoff" /\ r.attempt = doing[p].attempt + 1
    BY <1>2 DEF Fetching
  <1>4. doing'[p] = r /\ r # None
    BY <1>1, <1>2, ConstantAssumption DEF FetchStep, DoingOK
  <1>5. doing[p].attempt \in Nat \ {0}
    BY <1>2, ConstantAssumption DEF Fetching
  <1> HIDE DEF r
  <1>6. Paced(p) /\ doing[p] # None
    BY <1>2, ConstantAssumption DEF PaceInv
  <1>7. CASE ~Pacing(p)
    BY <1>2, <1>3, <1>4, <1>6, <1>7 DEF Paced, Pacing
  <1>8. CASE Pacing(p)
    <2>1. doing[p].source = "kraken"
      BY <1>2, <1>8 DEF Pacing
    <2>2. recent[p] \in Seq(Requests) /\ Delay(doing[p].source) = Second /\ Second \in Nat
      BY <1>1, <1>8, <2>1, PacingFacts, DelayFacts, ConstantAssumption
    <2>3. wait'[p] \in Nat
      BY <1>2 DEF PaceOK
    <2>4. \A i \in 1..Len(recent[p]) : recent[p][i].age + wait'[p] >= Second
      <3>1. \A i \in 1..Len(recent[p]) : recent[p][i].age \in Nat
        BY <2>2, AgeFacts
      <3>2. QED
        BY <1>2, <2>2, <2>3, <3>1
    <2>5. Window(recent[p], since[p], Delay(doing[p].source))
      BY <1>6, <1>8 DEF Paced
    <2>6. doing'[p].attempt > 1
      BY <1>3, <1>4, <1>5
    <2>7. QED
      BY <1>2, <1>3, <1>4, <1>8, <2>1, <2>2, <2>4, <2>5, <2>6 DEF Paced, Pacing
  <1>9. QED
    BY <1>7, <1>8

LEMMA PacedGoingOn ==
  ASSUME DoingOK, PaceInv, NEW p \in Proc, doing[p] # None, doing[p].source # "file",
         doing[p].source # "function",
         NEW r \in {None} \cup Fetching, doing' = [doing EXCEPT ![p] = r], GoesOn(p, r)
  PROVE  Paced(p)'
  <1>1. Paced(p) /\ Pacing(p)
    BY DEF PaceInv, Pacing
  <1>2. doing'[p] = r
    BY DEF DoingOK
  <1>3. QED
    BY <1>1, <1>2 DEF Paced, Pacing, GoesOn

LEMMA FetchesPaced ==
  ASSUME PricesTypeOK, PaceInv, NEW p \in Proc, Fetches(p)
  PROVE  PaceInv'
  <1>1. DoingOK
    BY TypeParts
  <1>2. ASSUME NEW r \in {None} \cup Fetching, FetchStep(p, r), Anew(p, r) PROVE PaceInv'
    BY <1>1, <1>2, PacedAnew, OthersPaced DEF FetchStep
  <1>3. CASE ApplyRateLimit(p)
    BY <1>1, <1>3, RateLimitFacts, RateLimitPaced, OthersPaced
  <1>4. CASE MakeRequest(p)
    BY <1>1, <1>4, RequestFacts, RequestPaced, OthersPaced
  <1>5. ASSUME \/ AnswerFromCache(p)
               \/ \E outcome : Answer(p, outcome) /\ ~Retry(p, outcome)
                               /\ doing[p].source = "function"
        PROVE  PaceInv'
    <2>1. /\ doing[p] # None /\ doing[p].source = "function"
          /\ FetchStep(p, None) /\ recent'[p] = recent[p]
      BY <1>5, EndOfCallFacts
    <2>2. recent[p] = <<>>
      BY <2>1 DEF PaceInv, Paced, Pacing
    <2>3. Paced(p)'
      BY <1>1, <2>1, <2>2 DEF FetchStep, DoingOK, Paced, Pacing
    <2>4. QED
      BY <1>1, <2>1, <2>3, OthersPaced
  <1>6. CASE Starts(p)
    BY <1>2, <1>6, StartFacts
  <1>7. ASSUME NEW outcome, Answer(p, outcome) PROVE PaceInv'
    <2>1. CASE Retry(p, outcome)
      BY <1>1, <1>7, <2>1, BackOffFacts, BackOffPaced, OthersPaced
    <2>2. CASE ~Retry(p, outcome) /\ doing[p].source = "function"
      BY <1>5, <1>7, <2>2
    <2>3. CASE ~Retry(p, outcome) /\ doing[p].source # "function"
      <3>1. doing[p] \in Fetching
        BY <1>7, <2>3, EndOfFetchFacts
      <3>2. PICK r \in {None} \cup Fetching :
              FetchStep(p, r) /\ (Anew(p, r) \/ GoesOn(p, r)) /\ PaceOK'
        BY <1>7, <2>3, EndOfFetchFacts
      <3>3. doing[p] # None /\ doing[p].source # "file"
        BY <3>1, ConstantAssumption DEF Fetching
      <3>4. CASE Anew(p, r)
        BY <1>2, <3>2, <3>4
      <3>5. CASE GoesOn(p, r)
        <4>1. doing' = [doing EXCEPT ![p] = r]
          BY <3>2 DEF FetchStep
        <4>2. Paced(p)'
          BY <1>1, <2>3, <3>3, <3>5, <4>1, PacedGoingOn
        <4>3. QED
          BY <1>1, <3>2, <4>2, OthersPaced
      <3>6. QED
        BY <3>2, <3>4, <3>5
    <2>4. QED
      BY <2>1, <2>2, <2>3
  <1>8. QED
    BY <1>3, <1>4, <1>5, <1>6, <1>7 DEF Fetches

\* Time leaves the end of the window, and gives what sleeps its delay.
LEMMA WindowAges ==
  ASSUME NEW requests \in Seq(Requests), NEW last \in Nat, NEW delay \in Nat,
         Window(requests, last, delay), NEW later \in Nat, later <= last + 1
  PROVE  /\ Window(Aged(requests, delay), later, delay)
         /\ \A n \in Nat :
              (\A i \in 1..Len(requests) : requests[i].age + n >= delay) =>
                \A i \in 1..Len(Aged(requests, delay)) :
                   Aged(requests, delay)[i].age + (IF n = 0 THEN 0 ELSE n - 1) >= delay
  <1> DEFINE aged == Aged(requests, delay)
  <1>1. /\ aged \in Seq(Requests)
        /\ Len(aged) > 0 => aged[1].age < delay
    BY AgedFacts
  <1>2. PICK m \in 0..Len(requests) :
          /\ Len(aged) = Len(requests) - m
          /\ \A i \in 1..(Len(requests) - m) : aged[i] = [requests[i + m] EXCEPT !.age = @ + 1]
    BY AgedFacts
  <1> HIDE DEF aged
  <1>3. /\ Len(requests) \in Nat
        /\ \A i \in 1..Len(requests) : requests[i] \in Requests /\ requests[i].age \in Nat
    BY AgeFacts
  <1>4. Len(aged) = Len(requests) - m /\ m \in 0..Len(requests) /\ Len(requests) \in Nat
        /\ Len(aged) \in Nat
    BY <1>2, <1>3
  <1>5. \A i \in 1..Len(aged) : /\ i + m \in 1..Len(requests)
                                /\ aged[i].age = requests[i + m].age + 1
                                /\ aged[i].retry = requests[i + m].retry
    <2>1. \A r \in Requests : /\ [r EXCEPT !.age = @ + 1].age = r.age + 1
                              /\ [r EXCEPT !.age = @ + 1].retry = r.retry
      BY DEF Requests
    <2> TAKE i \in 1..Len(aged)
    <2>2. i + m \in 1..Len(requests)
      BY <1>4
    <2>3. requests[i + m] \in Requests
      BY <1>3, <2>2
    <2>4. aged[i] = [requests[i + m] EXCEPT !.age = @ + 1]
      BY <1>2, <1>4
    <2>5. QED
      BY <2>1, <2>2, <2>3, <2>4
  <1>6. /\ Len(requests) <= 2
        /\ Len(requests) = 2 => requests[1].retry /\ requests[2].age <= requests[1].age
    BY DEF Window
  <1>7. \A i \in 1..Len(requests) :
           /\ requests[i].age < delay
           /\ IF requests[i].retry THEN i = 1 ELSE last <= requests[i].age
    BY DEF Window
  <1>8. Len(aged) = 2 => aged[1].retry /\ aged[2].age <= aged[1].age
    <2>1. SUFFICES ASSUME Len(aged) = 2
                   PROVE  aged[1].retry /\ aged[2].age <= aged[1].age
      OBVIOUS
    <2>2. m = 0 /\ Len(requests) = 2
      <3>1. \A n, k, j \in Nat : k = n - j /\ n <= 2 /\ k = 2 => j = 0 /\ n = 2
        OBVIOUS
      <3>2. m \in Nat
        BY <1>4
      <3>3. QED
        BY <1>4, <1>6, <2>1, <3>1, <3>2
    <2>3. 1 \in 1..Len(aged) /\ 2 \in 1..Len(aged) /\ 1 + m = 1 /\ 2 + m = 2
      BY <2>1, <2>2
    <2>4. /\ aged[1].age = requests[1].age + 1 /\ aged[2].age = requests[2].age + 1
          /\ aged[1].retry = requests[1].retry
      BY <1>5, <2>3
    <2>5. requests[1].age \in Nat /\ requests[2].age \in Nat
      BY <1>3, <2>2
    <2>6. requests[1].retry /\ requests[2].age <= requests[1].age
      BY <1>6, <2>2
    <2>7. QED
      BY <2>4, <2>5, <2>6
  <1>9. \A i \in 1..Len(aged) : aged[i].age < delay
    <2> TAKE i \in 1..Len(aged)
    <2>1. aged[1].age < delay
      BY <1>1, <1>4
    <2>2. Len(aged) <= 2
      <3>1. Len(requests) <= 2
        BY <1>6
      <3>2. QED
        BY <1>4, <3>1
    <2>3. i = 1 \/ (i = 2 /\ Len(aged) = 2)
      BY <1>4, <2>2
    <2>4. aged[i].age \in Nat /\ aged[1].age \in Nat
      BY <1>1, <1>4, AgeFacts
    <2>5. CASE i = 1
      BY <2>1, <2>5
    <2>6. CASE i = 2 /\ Len(aged) = 2
      <3>1. aged[2].age <= aged[1].age
        BY <1>8, <2>6
      <3>2. QED
        BY <2>1, <2>4, <2>6, <3>1
    <2>7. QED
      BY <2>3, <2>5, <2>6
  <1>10. \A i \in 1..Len(aged) : IF aged[i].retry THEN i = 1 ELSE later <= aged[i].age
    <2> TAKE i \in 1..Len(aged)
    <2>1. /\ i + m \in 1..Len(requests) /\ aged[i].age = requests[i + m].age + 1
          /\ aged[i].retry = requests[i + m].retry
      BY <1>5
    <2>2. requests[i + m].age \in Nat
      BY <1>3, <2>1
    <2>3. IF requests[i + m].retry THEN i + m = 1 ELSE last <= requests[i + m].age
      BY <1>7, <2>1
    <2>4. CASE aged[i].retry
      <3>1. i + m = 1
        BY <2>1, <2>3, <2>4
      <3>2. i = 1
        BY <1>4, <3>1
      <3>3. QED
        BY <2>4, <3>2
    <2>5. CASE ~aged[i].retry
      <3>1. last <= requests[i + m].age
        BY <2>1, <2>3, <2>5
      <3>2. later <= aged[i].age
        BY <2>1, <2>2, <3>1
      <3>3. QED
        BY <2>5, <3>2
    <2>6. QED
      BY <2>4, <2>5
  <1>11. Window(aged, later, delay)
    <2>1. Len(aged) <= 2
      <3>1. Len(requests) <= 2
        BY <1>6
      <3>2. QED
        BY <1>4, <3>1
    <2>2. QED
      BY <1>8, <1>9, <1>10, <2>1 DEF Window
  <1>12. ASSUME NEW n \in Nat, \A i \in 1..Len(requests) : requests[i].age + n >= delay,
                NEW i \in 1..Len(aged)
         PROVE  aged[i].age + (IF n = 0 THEN 0 ELSE n - 1) >= delay
    <2>1. i + m \in 1..Len(requests) /\ aged[i].age = requests[i + m].age + 1
      BY <1>5
    <2>2. requests[i + m].age \in Nat /\ requests[i + m].age + n >= delay
      BY <1>3, <1>12, <2>1
    <2>3. QED
      BY <2>1, <2>2
  <1>13. QED
    BY <1>11, <1>12 DEF aged

LEMMA TickPaced ==
  ASSUME PricesTypeOK, PaceInv, PassTime
  PROVE  PaceInv'
  <1>1. DoingOK /\ PaceOK
    BY TypeParts
  <1>2. SUFFICES ASSUME NEW p \in Proc PROVE Paced(p)'
    BY DEF PaceInv
  <1>3. /\ wait'[p] = IF wait[p] = 0 THEN 0 ELSE wait[p] - 1
        /\ since'[p] = IF since[p] = LongAgo THEN LongAgo ELSE since[p] + 1
        /\ recent'[p] = IF doing[p] = None THEN <<>> ELSE Aged(recent[p], Delay(doing[p].source))
        /\ doing' = doing
    BY TickFacts
  <1>4. Paced(p)
    BY DEF PaceInv
  <1>5. CASE ~Pacing(p)
    <2>1. recent[p] = <<>> /\ <<>> \in Seq(Requests) /\ Len(<<>>) = 0
      BY <1>4, <1>5 DEF Paced
    <2>2. Delay(doing[p].source) \in Nat
      BY DelayFacts
    <2>3. Aged(<<>>, Delay(doing[p].source)) = <<>>
      BY DEF Aged
    <2>4. recent'[p] = <<>>
      BY <1>3, <2>1, <2>3
    <2>5. QED
      BY <1>3, <1>5, <2>4 DEF Paced, Pacing
  <1>6. CASE Pacing(p)
    <2> DEFINE delay == Delay(doing[p].source)
    <2>1. /\ since[p] \in Nat /\ wait[p] \in Nat
          /\ recent[p] \in Seq(Requests) /\ delay \in Nat
      BY <1>1, <1>6, PacingFacts
    <2>2. /\ Window(recent[p], since[p], delay)
          /\ doing[p].pc \in {"fetch", "sleep"} => doing[p].attempt = 1
          /\ doing[p].pc = "sleep" => wait[p] + since[p] >= delay
          /\ doing[p].pc = "backoff" =>
               /\ doing[p].attempt > 1 /\ doing[p].source = "kraken"
               /\ \A i \in 1..Len(recent[p]) : recent[p][i].age + wait[p] >= delay
      BY <1>4, <1>6 DEF Paced
    <2>3. delay <= LongAgo /\ LongAgo \in Nat
      BY DelayFacts
    <2>4. since'[p] \in Nat /\ since'[p] <= since[p] + 1
          /\ (since'[p] = since[p] + 1 \/ since'[p] >= delay)
      BY <1>1, <1>3, <2>1, <2>3 DEF PaceOK
    <2>5. recent'[p] = Aged(recent[p], delay)
      BY <1>3, <1>6 DEF Pacing
    <2> HIDE DEF delay
    <2>6. Window(recent'[p], since'[p], delay)
      BY <2>1, <2>2, <2>4, <2>5, WindowAges
    <2>7. doing[p].pc = "backoff" =>
            \A i \in 1..Len(recent'[p]) : recent'[p][i].age + wait'[p] >= delay
      BY <1>3, <2>1, <2>2, <2>4, <2>5, WindowAges
    <2>8. doing[p].pc = "sleep" => wait'[p] + since'[p] >= delay
      BY <1>3, <2>1, <2>2, <2>4
    <2>9. QED
      BY <1>3, <1>6, <2>2, <2>6, <2>7, <2>8 DEF Paced, Pacing, delay
  <1>7. QED
    BY <1>5, <1>6

LEMMA IngestPaced ==
  ASSUME DoingOK, PaceInv, NEW p \in Proc, NEW r \in {None} \cup Ingestion,
         doing[p] \in {None} \cup Ingestion, doing' = [doing EXCEPT ![p] = r], UNCHANGED timeVars
  PROVE  PaceInv'
  <1>1. \A q \in Proc \ {p} : doing'[q] = doing[q]
    BY DEF DoingOK
  <1>2. \A q \in Proc \ {p} : Paced(q)'
    BY <1>1 DEF PaceInv, Paced, Pacing, timeVars
  <1>3. recent'[p] = <<>>
    BY DEF PaceInv, Paced, Pacing, Ingestion, timeVars
  <1>4. doing'[p] = r
    BY DEF DoingOK
  <1>5. Paced(p)'
    BY <1>3, <1>4 DEF Paced, Pacing, Ingestion
  <1>6. QED
    BY <1>2, <1>5 DEF PaceInv

\* Within the delay of a source there are two requests at most, and two only when
\* the first was a retry.
THEOREM Paces == PricesSpec => []RequestsArePaced
  <1>1. PricesInit => PricesTypeOK /\ IdsInv /\ PaceInv
    BY InitPricesFacts DEF PricesInit, PaceInv, Paced, Pacing
  <1>2. PricesTypeOK /\ IdsInv /\ PaceInv /\ [PricesNext]_priceVars => (PricesTypeOK /\ IdsInv /\ PaceInv)'
    <2> SUFFICES ASSUME PricesTypeOK, IdsInv, PaceInv, [PricesNext]_priceVars PROVE PaceInv'
      BY NextPrices
    <2>1. DoingOK
      BY TypeParts
    <2>2. ASSUME UNCHANGED <<doing, timeVars>> PROVE PaceInv'
      BY <2>2 DEF PaceInv, Paced, Pacing, timeVars
    <2>3. CASE UNCHANGED priceVars
      BY <2>2, <2>3 DEF priceVars
    <2>4. ASSUME NEW p \in Proc, Fetches(p) PROVE PaceInv'
      BY <2>4, FetchesPaced
    <2>5. ASSUME NEW p \in Proc, Ingesting(p) PROVE PaceInv'
      <3>1. /\ doing[p] \in Ingestion
            /\ \E r \in {None} \cup Ingestion : IngestStep(p, r) /\ RowsOK' /\ KeepsIds(p)
        BY <2>5, IngestingKeeps DEF IngestFacts
      <3>2. QED
        BY <2>1, <3>1, IngestPaced DEF IngestStep
    <2>6. ASSUME NEW p \in Proc, Ingest(p) PROVE PaceInv'
      <3>1. PICK r \in Ingestion : doing' = [doing EXCEPT ![p] = r]
        BY <2>6, IngestBegins
      <3>2. doing[p] = None /\ UNCHANGED timeVars
        BY <2>6 DEF Ingest
      <3>3. QED
        BY <2>1, <3>1, <3>2, IngestPaced
    <2>7. ASSUME NEW t \in Ticker, EditAsset(t) PROVE PaceInv'
      BY <2>2, <2>7 DEF EditAsset
    <2>8. CASE ClearCache
      BY <2>2, <2>8 DEF ClearCache
    <2>9. CASE CreateIngestionPlan
      BY <2>2, <2>9, PlanFacts
    <2>10. CASE PassTime
      BY <2>10, TickPaced
    <2>11. QED
      BY <2>3, <2>4, <2>5, <2>6, <2>7, <2>8, <2>9, <2>10, StepCases
  <1>3. PricesTypeOK /\ PaceInv => RequestsArePaced
    <2> SUFFICES ASSUME PricesTypeOK, PaceInv, NEW p \in Proc
                 PROVE  Len(recent[p]) <= 1 \/ (Len(recent[p]) = 2 /\ recent[p][1].retry)
      BY DEF RequestsArePaced
    <2>1. Paced(p)
      BY DEF PaceInv
    <2>2. CASE ~Pacing(p)
      BY <2>1, <2>2 DEF Paced
    <2>3. CASE Pacing(p)
      <3>1. recent[p] \in Seq(Requests) /\ since[p] \in Nat
        BY <2>3, TypeParts, PacingFacts
      <3>2. Window(recent[p], since[p], Delay(doing[p].source))
        BY <2>1, <2>3 DEF Paced
      <3>3. /\ Len(recent[p]) <= 2 /\ Len(recent[p]) \in Nat
            /\ Len(recent[p]) = 2 => recent[p][1].retry
        BY <3>1, <3>2 DEF Window
      <3>4. \A n \in Nat : n <= 2 => n <= 1 \/ n = 2
        OBVIOUS
      <3>5. QED
        BY <3>3, <3>4
    <2>4. QED
      BY <2>2, <2>3
  <1>4. QED
    BY <1>1, <1>2, <1>3, PTL DEF PricesSpec

-----------------------------------------------------------------------------
(* The plan of the router, by arithmetic.                                   *)

LEMMA CutoffFacts == \A i \in Interval : ApiCutoff(i) \in Nat
  BY ConstantAssumption DEF ApiCutoff

LEMMA MissingFacts ==
  ASSUME NEW t, NEW i \in Interval, NEW start \in Nat, NEW end \in Nat,
         NEW s \in MissingCsv(t, i, start, end)
  PROVE  /\ s.asset = t /\ s.interval = i /\ s.oldest = start
         /\ s.newest \in Nat /\ s.newest >= ApiCutoff(i)
         /\ s.newest = ApiCutoff(i) \/ s.newest = end
  <1>1. s = [asset |-> t, interval |-> i, oldest |-> start,
             newest |-> Older(ApiCutoff(i), end)]
    BY DEF MissingCsv, Source
  <1>2. /\ Older(ApiCutoff(i), end) \in Nat /\ Older(ApiCutoff(i), end) >= ApiCutoff(i)
        /\ Older(ApiCutoff(i), end) = ApiCutoff(i) \/ Older(ApiCutoff(i), end) = end
    BY CutoffFacts DEF Older
  <1>3. QED
    BY <1>1, <1>2

LEMMA ApiFacts ==
  ASSUME NEW t, NEW i \in Interval, NEW start \in Nat, NEW end \in Nat,
         NEW s \in ApiSource(t, i, start, end)
  PROVE  /\ s.asset = t /\ s.interval = i /\ s.newest = end
         /\ s.oldest \in Nat /\ s.oldest <= ApiCutoff(i)
         /\ s.oldest = ApiCutoff(i) \/ s.oldest = start
  <1>1. s = [asset |-> t, interval |-> i, oldest |-> Newer(ApiCutoff(i), start),
             newest |-> end]
    BY DEF ApiSource, Source
  <1>2. /\ Newer(ApiCutoff(i), start) \in Nat /\ Newer(ApiCutoff(i), start) <= ApiCutoff(i)
        /\ Newer(ApiCutoff(i), start) = ApiCutoff(i) \/ Newer(ApiCutoff(i), start) = start
    BY CutoffFacts DEF Newer
  <1>3. QED
    BY <1>1, <1>2

LEMMA PlanCovers ==
  ASSUME PricesTypeOK, CreateIngestionPlan
  PROVE  PlanIsWhole'
  <1>1. PICK start \in 0..Oldest, end \in 0..Oldest, tier \in {"ALL", "TIER1"} :
          LET each == TierAssets(tier) \X Interval
          IN  /\ end <= start
              /\ plan' # None => plan' =
                   [assets |-> TierAssets(tier), start |-> start, end |-> end,
                    missing |-> UNION {MissingCsv(x[1], x[2], start, end) : x \in each},
                    api |-> UNION {ApiSource(x[1], x[2], start, end) : x \in each}]
    BY DEF CreateIngestionPlan
  <1> DEFINE each == TierAssets(tier) \X Interval
             missing == UNION {MissingCsv(x[1], x[2], start, end) : x \in each}
             api == UNION {ApiSource(x[1], x[2], start, end) : x \in each}
  <1>2. SUFFICES ASSUME plan' # None PROVE PlanIsWhole'
    BY DEF PlanIsWhole
  <1>3. /\ plan'.assets = TierAssets(tier) /\ plan'.start = start /\ plan'.end = end
        /\ plan'.missing = missing /\ plan'.api = api
    BY <1>1, <1>2
  <1>4. start \in Nat /\ end \in Nat /\ end <= start
    BY <1>1, ConstantAssumption
  <1>5. \A s \in missing : \E t \in TierAssets(tier), i \in Interval : s \in MissingCsv(t, i, start, end)
    OBVIOUS
  <1>6. \A s \in api : \E t \in TierAssets(tier), i \in Interval : s \in ApiSource(t, i, start, end)
    OBVIOUS
  <1>7. \A t \in TierAssets(tier), i \in Interval :
           MissingCsv(t, i, start, end) \subseteq missing /\ ApiSource(t, i, start, end) \subseteq api
    <2> TAKE t \in TierAssets(tier), i \in Interval
    <2>1. <<t, i>> \in each /\ <<t, i>>[1] = t /\ <<t, i>>[2] = i
      OBVIOUS
    <2>2. QED
      BY <2>1
  <1> HIDE DEF missing, api, each
  <1>8. ASSUME NEW t \in TierAssets(tier), NEW i \in Interval, NEW d \in end..start
        PROVE  LET For(sources) == \E s \in sources :
                       /\ s.asset = t /\ s.interval = i /\ d \in s.newest..s.oldest
               IN IF d < ApiCutoff(i) THEN For(api) /\ ~For(missing)
                  ELSE d > ApiCutoff(i) => For(missing) /\ ~For(api)
    <2> DEFINE For(sources) == \E s \in sources :
                  /\ s.asset = t /\ s.interval = i /\ d \in s.newest..s.oldest
               C == ApiCutoff(i)
    <2>1. C \in Nat /\ d \in Nat /\ end <= d /\ d <= start
      BY <1>4, CutoffFacts
    <2>2. \A s \in missing : s.asset = t /\ s.interval = i =>
             /\ s.newest \in Nat /\ s.newest >= C
      <3> TAKE s \in missing
      <3>1. PICK u \in TierAssets(tier), j \in Interval : s \in MissingCsv(u, j, start, end)
        BY <1>5
      <3>2. s.asset = u /\ s.interval = j /\ s.newest \in Nat /\ s.newest >= ApiCutoff(j)
        BY <1>4, <3>1, MissingFacts
      <3>3. QED
        BY <3>2
    <2>3. \A s \in api : s.asset = t /\ s.interval = i =>
             /\ s.oldest \in Nat /\ s.oldest <= C
      <3> TAKE s \in api
      <3>1. PICK u \in TierAssets(tier), j \in Interval : s \in ApiSource(u, j, start, end)
        BY <1>6
      <3>2. s.asset = u /\ s.interval = j /\ s.oldest \in Nat /\ s.oldest <= ApiCutoff(j)
        BY <1>4, <3>1, ApiFacts
      <3>3. QED
        BY <3>2
    <2>4. CASE d < C
      <3>1. PICK s \in ApiSource(t, i, start, end) : TRUE
        BY <1>4, <2>1, <2>4 DEF ApiSource
      <3>2. s \in api
        BY <1>7, <3>1
      <3>3. /\ s.asset = t /\ s.interval = i /\ s.newest = end
            /\ s.oldest = C \/ s.oldest = start
        BY <1>4, <3>1, ApiFacts
      <3>4. d \in s.newest..s.oldest
        BY <1>4, <2>1, <2>4, <3>3
      <3>5. For(api)
        BY <3>2, <3>3, <3>4
      <3>6. ~For(missing)
        BY <2>1, <2>2, <2>4
      <3>7. QED
        BY <2>4, <3>5, <3>6
    <2>5. CASE d > C
      <3>1. PICK s \in MissingCsv(t, i, start, end) : TRUE
        BY <1>4, <2>1, <2>5 DEF MissingCsv
      <3>2. s \in missing
        BY <1>7, <3>1
      <3>3. /\ s.asset = t /\ s.interval = i /\ s.oldest = start
            /\ s.newest = C \/ s.newest = end
        BY <1>4, <3>1, MissingFacts
      <3>4. d \in s.newest..s.oldest
        BY <1>4, <2>1, <2>5, <3>3
      <3>5. For(missing)
        BY <3>2, <3>3, <3>4
      <3>6. ~For(api)
        BY <2>1, <2>3, <2>5
      <3>7. ~(d < C)
        BY <2>1, <2>5
      <3>8. QED
        BY <3>5, <3>6, <3>7
    <2>6. CASE d = C
      BY <2>1, <2>6
    <2>7. QED
      BY <2>1, <2>4, <2>5, <2>6
  <1>9. QED
    BY <1>3, <1>8 DEF PlanIsWhole

\* Every date that is asked for is planned for, from the API or as missing, and
\* from one of them only.
THEOREM PlanCoversDates == PricesSpec => []PlanIsWhole
  <1>1. PricesInit => PricesTypeOK /\ IdsInv /\ PlanIsWhole
    BY InitPricesFacts DEF PricesInit, PlanIsWhole
  <1>2. PricesTypeOK /\ IdsInv /\ PlanIsWhole /\ [PricesNext]_priceVars => (PricesTypeOK /\ IdsInv /\ PlanIsWhole)'
    <2> SUFFICES ASSUME PricesTypeOK, IdsInv, PlanIsWhole, [PricesNext]_priceVars PROVE PlanIsWhole'
      BY NextPrices
    <2>1. ASSUME UNCHANGED plan PROVE PlanIsWhole'
      BY <2>1 DEF PlanIsWhole
    <2>2. CASE UNCHANGED priceVars
      BY <2>1, <2>2 DEF priceVars
    <2>3. ASSUME NEW p \in Proc, Fetches(p) PROVE PlanIsWhole'
      <3>1. UNCHANGED plan
        BY <2>3 DEF Fetches, ApplyRateLimit, MakeRequest, AnswerFromCache, Starts,
             BackfillGaps, BackfillPrices, HandleGrouped, LoadPrices, ApiCall, Launch, Answer
      <3>2. QED
        BY <2>1, <3>1
    <2>4. ASSUME NEW p \in Proc, Ingesting(p) PROVE PlanIsWhole'
      BY <2>1, <2>4, IngestingKeeps DEF IngestFacts, IngestStep
    <2>5. ASSUME NEW p \in Proc, Ingest(p) PROVE PlanIsWhole'
      BY <2>1, <2>5 DEF Ingest
    <2>6. ASSUME NEW t \in Ticker, EditAsset(t) PROVE PlanIsWhole'
      BY <2>1, <2>6 DEF EditAsset
    <2>7. CASE ClearCache
      BY <2>1, <2>7 DEF ClearCache
    <2>8. CASE CreateIngestionPlan
      BY <2>8, PlanCovers
    <2>9. CASE PassTime
      BY <2>1, <2>9, TickFacts
    <2>10. QED
      BY <2>2, <2>3, <2>4, <2>5, <2>6, <2>7, <2>8, <2>9, StepCases
  <1>3. QED
    BY <1>1, <1>2, PTL DEF PricesSpec
===============================================================================

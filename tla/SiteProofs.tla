------------------------------ MODULE SiteProofs ------------------------------
(***************************************************************************)
(* Proofs about EmailVerification, for any number of users, requests, rows *)
(* and retries.                                                            *)
(***************************************************************************)
EXTENDS EmailVerification, SitePages, FiniteSetTheorems, TLAPS

-----------------------------------------------------------------------------
(* Type correctness.                                                        *)

LEMMA Counted ==
  /\ TypeOK /\ CountRequest => requests' \in 0..MaxRequests
  /\ TypeOK /\ CountFault => faults' \in 0..MaxFaults
  BY BoundAssumption DEF CountRequest, CountFault, TypeOK

LEMMA HeldRow ==
  ASSUME TypeOK, NEW w \in Web, web[w] # "idle"
  PROVE  inst[w] \in Address /\ Row(w) \in Id
  BY DEF TypeOK, Address, Row

LEMMA HoldType ==
  ASSUME TypeOK, NEW w \in Web, NEW kind \in {"mail", "verify", "remove"}, NEW r \in Address,
         Hold(w, kind, r)
  PROVE  /\ web' \in [Web -> {"idle", "mail", "verify", "remove"}]
         /\ inst' \in [Web -> {NoRow} \cup Address]
         /\ \A v \in Web : inst'[v] = NoRow <=> web'[v] = "idle"
  BY NoRowAssumption DEF Hold, TypeOK

LEMMA ReleaseType ==
  ASSUME TypeOK, NEW w \in Web, Release(w)
  PROVE  /\ web' \in [Web -> {"idle", "mail", "verify", "remove"}]
         /\ inst' \in [Web -> {NoRow} \cup Address]
         /\ \A v \in Web : inst'[v] = NoRow <=> web'[v] = "idle"
         /\ requests' = requests
  BY DEF Release, TypeOK

LEMMA InitTypeOK == Init => TypeOK
  <1> SUFFICES ASSUME Init PROVE TypeOK
    OBVIOUS
  <1>1. /\ issued \in 0..MaxRows /\ requests \in 0..MaxRequests /\ faults \in 0..MaxFaults
        /\ tries \in [Id -> 0..MaxRetries]
    BY BoundAssumption DEF Init
  <1>2. /\ web \in [Web -> {"idle", "mail", "verify", "remove"}]
        /\ inst \in [Web -> {NoRow} \cup Address]
        /\ \A w \in Web : inst[w] = NoRow <=> web[w] = "idle"
    BY DEF Init
  <1>3. /\ pc \in [Id -> {"none", "queued", "loaded", "transmitted", "saved"}]
        /\ sent \in [Id -> BOOLEAN] /\ lost \in [Id -> BOOLEAN]
        /\ delivered \in [Id -> Nat] /\ interrupted \in [Id -> Nat]
    BY DEF Init
  <1>4. QED
    BY <1>1, <1>2, <1>3 DEF Init, TypeOK

LEMMA RequestTypeOK ==
  ASSUME TypeOK, NEW w \in Web, Request(w)
  PROVE  TypeOK'
  <1>1. ASSUME NEW u \in User, AddEmail(w, u)
        PROVE  TypeOK'
    <2>1. issued' \in 0..MaxRows /\ addr' \in Address
      BY <1>1, BoundAssumption DEF AddEmail, Address, Id, TypeOK
    <2>2. Hold(w, "mail", addr')
      BY <1>1 DEF AddEmail
    <2>3. /\ web' \in [Web -> {"idle", "mail", "verify", "remove"}]
          /\ inst' \in [Web -> {NoRow} \cup Address]
          /\ \A v \in Web : inst'[v] = NoRow <=> web'[v] = "idle"
      BY <2>1, <2>2, HoldType
    <2>4. QED
      BY <1>1, <2>1, <2>3, Counted DEF AddEmail, TypeOK, mailVars
  <1>2. ASSUME LoadForVerification(w) \/ LoadForRemoval(w)
        PROVE  TypeOK'
    <2>1. addr \in Address /\ \E kind \in {"verify", "remove"} : Hold(w, kind, addr)
      BY <1>2 DEF LoadForVerification, LoadForRemoval, TypeOK
    <2>2. /\ web' \in [Web -> {"idle", "mail", "verify", "remove"}]
          /\ inst' \in [Web -> {NoRow} \cup Address]
          /\ \A v \in Web : inst'[v] = NoRow <=> web'[v] = "idle"
      BY <2>1, HoldType
    <2>3. QED
      BY <1>2, <2>2, Counted DEF LoadForVerification, LoadForRemoval, TypeOK, mailVars
  <1>3. QED
    BY <1>1, <1>2 DEF Request

LEMMA RespondTypeOK ==
  ASSUME TypeOK, NEW w \in Web, Respond(w)
  PROVE  TypeOK'
  <1>1. Release(w) /\ web[w] # "idle"
    BY DEF Respond, CreateVerificationMessage, SaveVerified, RemoveAddress
  <1>2. inst[w] \in Address /\ Row(w) \in Id
    BY <1>1, HeldRow
  <1>3. CASE CreateVerificationMessage(w)
    <2>1. /\ pc' \in [Id -> {"none", "queued", "loaded", "transmitted", "saved"}]
          /\ lost' \in [Id -> BOOLEAN]
          /\ faults' \in 0..MaxFaults
      BY <1>2, <1>3, Counted DEF CreateVerificationMessage, TypeOK
    <2>2. QED
      BY <1>1, <1>3, <2>1, ReleaseType DEF CreateVerificationMessage, TypeOK
  <1>4. CASE SaveVerified(w)
    <2>1. addr' \in {NoRow} \cup Address
      BY <1>2, <1>4 DEF SaveVerified, TypeOK, Address
    <2>2. QED
      BY <1>1, <1>4, <2>1, ReleaseType DEF SaveVerified, TypeOK, mailVars
  <1>5. CASE RemoveAddress(w)
    BY <1>1, <1>5, ReleaseType DEF RemoveAddress, TypeOK, mailVars
  <1>6. QED
    BY <1>3, <1>4, <1>5 DEF Respond

LEMMA EndTaskType ==
  ASSUME TypeOK, NEW i \in Id, EndTask(i)
  PROVE  /\ pc' \in [Id -> {"none", "queued", "loaded", "transmitted", "saved"}]
         /\ lost' \in [Id -> BOOLEAN]
  BY DEF EndTask, TypeOK

LEMMA RetryType ==
  ASSUME TypeOK, NEW i \in Id, RetryOrEnd(i), faults' \in 0..MaxFaults
  PROVE  TypeOK'
  <1>1. interrupted' \in [Id -> Nat]
    BY DEF RetryOrEnd, NoteInterruption, TypeOK
  <1>2. CASE MayRetry(i) /\ ~EndTask(i)
    BY <1>1, <1>2, BoundAssumption DEF MayRetry, RetryOrEnd, TypeOK, webVars
  <1>3. CASE MayRetry(i) /\ EndTask(i)
    BY <1>1, <1>3, BoundAssumption, EndTaskType DEF MayRetry, RetryOrEnd, TypeOK, webVars
  <1>4. CASE ~MayRetry(i)
    BY <1>1, <1>4, EndTaskType DEF RetryOrEnd, TypeOK, webVars
  <1>5. QED
    BY <1>2, <1>3, <1>4

LEMMA TaskTypeOK ==
  ASSUME TypeOK, NEW i \in Id, Work(i) \/ Fail(i) \/ Crash(i)
  PROVE  TypeOK'
  <1>1. CASE LoadEmail(i)
    BY <1>1, EndTaskType DEF LoadEmail, TypeOK, webVars
  <1>2. CASE FailUnconfigured(i)
    BY <1>2, RetryType DEF FailUnconfigured, TypeOK
  <1>3. CASE Transmit(i)
    <2>1. /\ pc' \in [Id -> {"none", "queued", "loaded", "transmitted", "saved"}]
          /\ lost' \in [Id -> BOOLEAN]
      BY <1>3 DEF Transmit, TypeOK
    <2>2. delivered' \in [Id -> Nat]
      BY <1>3 DEF Transmit, TypeOK
    <2>3. faults' \in 0..MaxFaults
      BY <1>3, Counted DEF Transmit, TypeOK
    <2>4. QED
      BY <1>3, <2>1, <2>2, <2>3 DEF Transmit, TypeOK, webVars
  <1>4. CASE SaveSent(i)
    BY <1>4 DEF SaveSent, TypeOK, webVars
  <1>5. CASE Acknowledge(i)
    BY <1>5, EndTaskType DEF Acknowledge, TypeOK, webVars
  <1>6. CASE Fail(i)
    BY <1>6, RetryType, Counted DEF Fail
  <1>7. CASE Crash(i)
    BY <1>7, Counted DEF Crash, NoteInterruption, TypeOK, webVars
  <1>8. QED
    BY <1>1, <1>2, <1>3, <1>4, <1>5, <1>6, <1>7 DEF Work

LEMMA NextTypeOK == TypeOK /\ [Next]_vars => TypeOK'
  <1> SUFFICES ASSUME TypeOK, [Next]_vars PROVE TypeOK'
    OBVIOUS
  <1>1. ASSUME NEW c \in {"on", "off", "absent"}, Configure(c)
        PROVE  TypeOK'
    BY <1>1, Counted DEF Configure, TypeOK, mailVars
  <1>2. CASE UNCHANGED vars
    BY <1>2 DEF vars, webVars, mailVars, TypeOK
  <1>3. QED
    BY <1>1, <1>2, RequestTypeOK, RespondTypeOK, TaskTypeOK DEF Next

\* Every variable keeps its type, for every value of the constants.
THEOREM EmailTypeCorrect == Spec => []TypeOK
  <1>1. QED
    BY InitTypeOK, NextTypeOK, PTL DEF Spec
-----------------------------------------------------------------------------
(* The rows and their messages.                                             *)

\* Numbers above "issued" are unused.
Numbering ==
  /\ addr # NoRow => addr.id <= issued
  /\ \A w \in Web : inst[w] # NoRow => Row(w) <= issued
  /\ \A i \in Id : i > issued => pc[i] = "none" /\ delivered[i] = 0 /\ ~sent[i]

\* A request about to write a message is the only one to do so for its row.
OneWriter ==
  \A w \in Web : web[w] = "mail" =>
      /\ pc[Row(w)] = "none" /\ delivered[Row(w)] = 0 /\ ~sent[Row(w)]
      /\ \A v \in Web : web[v] = "mail" /\ Row(v) = Row(w) => v = w

\* The task's progress agrees with the record, and so does the count.
Recorded(i) ==
  /\ pc[i] \in {"loaded", "transmitted"} => ~sent[i]
  /\ pc[i] = "saved" => sent[i]
  /\ delivered[i] <= 1 + interrupted[i]
  /\ ~sent[i] /\ pc[i] # "transmitted" => delivered[i] <= interrupted[i]

MailInv == Numbering /\ OneWriter /\ \A i \in Id : Recorded(i)

\* A row, and an instance about to make one, is verified by its message's reader.
VerifiedInv ==
  /\ VerifiedWasMailed
  /\ \A w \in Web : web[w] = "verify" => delivered[Row(w)] > 0

\* Copies of one row name one owner.
OwnerInv ==
  \A w \in Web : inst[w] # NoRow =>
      /\ addr # NoRow /\ addr.id = Row(w) => addr.owner = inst[w].owner
      /\ \A v \in Web : inst[v] # NoRow /\ Row(v) = Row(w) => inst[v].owner = inst[w].owner

LEMMA InitInv == Init => MailInv /\ VerifiedInv /\ OwnerInv
  BY DEF Init, MailInv, Numbering, OneWriter, Recorded, VerifiedInv, VerifiedWasMailed, OwnerInv

\* What each step does to the task variables that MailInv speaks of.
LEMMA TaskSteps ==
  ASSUME TypeOK, NEW i \in Id, Work(i) \/ Fail(i) \/ Crash(i)
  PROVE  /\ UNCHANGED <<addr, issued, web, inst>>
         /\ pc[i] # "none"
         /\ \A k \in Id : k # i =>
               /\ pc'[k] = pc[k] /\ delivered'[k] = delivered[k]
               /\ sent'[k] = sent[k] /\ interrupted'[k] = interrupted[k]
         /\ delivered'[i] >= delivered[i]
         /\ Recorded(i) => Recorded(i)'
  <1>1. CASE LoadEmail(i)
    BY <1>1 DEF LoadEmail, EndTask, Recorded, TypeOK, webVars
  <1>2. CASE FailUnconfigured(i)
    BY <1>2 DEF FailUnconfigured, RetryOrEnd, NoteInterruption, EndTask, Recorded, TypeOK, webVars
  <1>3. CASE Transmit(i)
    BY <1>3 DEF Transmit, CountFault, Recorded, TypeOK, webVars
  <1>4. CASE SaveSent(i)
    BY <1>4 DEF SaveSent, Recorded, TypeOK, webVars
  <1>5. CASE Acknowledge(i)
    BY <1>5 DEF Acknowledge, EndTask, Recorded, TypeOK, webVars
  <1>6. CASE Fail(i)
    BY <1>6 DEF Fail, RetryOrEnd, NoteInterruption, EndTask, Recorded, TypeOK, webVars
  <1>7. CASE Crash(i)
    BY <1>7 DEF Crash, NoteInterruption, Recorded, TypeOK, webVars
  <1>8. QED
    BY <1>1, <1>2, <1>3, <1>4, <1>5, <1>6, <1>7 DEF Work

LEMMA NextMailInv == TypeOK /\ MailInv /\ [Next]_vars => MailInv'
  <1> SUFFICES ASSUME TypeOK, MailInv, [Next]_vars PROVE MailInv'
    OBVIOUS
  <1>1. CASE UNCHANGED vars
    BY <1>1 DEF vars, webVars, mailVars, MailInv, Numbering, OneWriter, Recorded, Row
  <1>2. ASSUME NEW c \in {"on", "off", "absent"}, Configure(c)
        PROVE  MailInv'
    BY <1>2 DEF Configure, mailVars, MailInv, Numbering, OneWriter, Recorded, Row
  <1>3. ASSUME NEW w \in Web, NEW u \in User, AddEmail(w, u)
        PROVE  MailInv'
    <2>1. /\ issued' = issued + 1 /\ issued + 1 \in Id /\ addr' # NoRow
          /\ addr'.id = issued + 1
          /\ UNCHANGED <<pc, delivered, sent, interrupted>>
      <3>1. issued' = issued + 1 /\ issued + 1 \in Id
        BY <1>3, BoundAssumption DEF AddEmail, TypeOK, Id
      <3>2. addr' = [id |-> issued + 1, owner |-> u, verified |-> FALSE]
        BY <1>3 DEF AddEmail
      <3>3. addr' \in Address
        BY <3>1, <3>2 DEF Address
      <3>4. UNCHANGED <<pc, delivered, sent, interrupted>>
        BY <1>3 DEF AddEmail, mailVars
      <3>5. QED
        BY <3>1, <3>2, <3>3, <3>4, NoRowAssumption
    <2>2. /\ web' = [web EXCEPT ![w] = "mail"]
          /\ inst' = [inst EXCEPT ![w] = addr']
          /\ web[w] = "idle"
      BY <1>3 DEF AddEmail, Hold
    <2>3. \A v \in Web : v # w => inst'[v] = inst[v] /\ web'[v] = web[v] /\ Row(v)' = Row(v)
      BY <2>2 DEF TypeOK, Row
    <2>4. web'[w] = "mail" /\ inst'[w] = addr' /\ Row(w)' = issued + 1
      BY <2>1, <2>2 DEF TypeOK, Row
    <2>5. \A v \in Web : v # w /\ web[v] # "idle" => Row(v) \in Id /\ Row(v) <= issued
      BY HeldRow DEF MailInv, Numbering, TypeOK
    <2>6. Numbering'
      BY <2>1, <2>3, <2>4, <2>5 DEF MailInv, Numbering, TypeOK, Id
    <2>7. OneWriter'
      BY <2>1, <2>3, <2>4, <2>5 DEF MailInv, Numbering, OneWriter, TypeOK, Id
    <2>8. QED
      BY <2>1, <2>6, <2>7 DEF MailInv, Recorded
  <1>4. ASSUME NEW w \in Web, LoadForVerification(w) \/ LoadForRemoval(w)
        PROVE  MailInv'
    <2>1. /\ UNCHANGED <<addr, issued, pc, delivered, sent, interrupted>>
          /\ addr # NoRow
          /\ \E kind \in {"verify", "remove"} : Hold(w, kind, addr)
      BY <1>4 DEF LoadForVerification, LoadForRemoval, mailVars
    <2>2. /\ web'[w] # "mail" /\ inst'[w] = addr /\ Row(w)' = addr.id
          /\ \A v \in Web : v # w => inst'[v] = inst[v] /\ web'[v] = web[v] /\ Row(v)' = Row(v)
      BY <2>1 DEF Hold, TypeOK, Row
    <2>3. QED
      BY <2>1, <2>2 DEF MailInv, Numbering, OneWriter, Recorded
  <1>5. ASSUME NEW w \in Web, CreateVerificationMessage(w)
        PROVE  MailInv'
    <2>1. /\ UNCHANGED <<addr, issued, delivered, sent, interrupted>>
          /\ web[w] = "mail" /\ Row(w) \in Id
          /\ pc' = pc \/ pc' = [pc EXCEPT ![Row(w)] = "queued"]
      BY <1>5, HeldRow DEF CreateVerificationMessage
    <2>2. /\ web'[w] = "idle" /\ inst'[w] = NoRow
          /\ \A v \in Web : v # w => inst'[v] = inst[v] /\ web'[v] = web[v] /\ Row(v)' = Row(v)
      BY <1>5 DEF CreateVerificationMessage, Release, TypeOK, Row
    <2>3. Row(w) <= issued /\ pc[Row(w)] = "none" /\ delivered[Row(w)] = 0 /\ ~sent[Row(w)]
      BY <2>1 DEF MailInv, Numbering, OneWriter, TypeOK
    <2>4. Numbering'
      <3>1. ASSUME NEW i \in Id, i > issued
            PROVE  pc'[i] = "none" /\ delivered'[i] = 0 /\ ~sent'[i]
        <4>1. pc'[i] = pc[i]
          <5>1. i # Row(w)
            BY <2>1, <2>3, <3>1, BoundAssumption DEF TypeOK, Id
          <5>2. QED
            BY <2>1, <5>1 DEF TypeOK
        <4>2. QED
          BY <2>1, <3>1, <4>1 DEF MailInv, Numbering
      <3>2. \A v \in Web : inst'[v] # NoRow => Row(v)' <= issued
        BY <2>2 DEF MailInv, Numbering
      <3>3. QED
        BY <2>1, <3>1, <3>2 DEF MailInv, Numbering
    <2>5. OneWriter'
      <3> SUFFICES ASSUME NEW v \in Web, web'[v] = "mail"
                   PROVE  /\ pc'[Row(v)'] = "none" /\ delivered'[Row(v)'] = 0 /\ ~sent'[Row(v)']
                          /\ \A x \in Web : web'[x] = "mail" /\ Row(x)' = Row(v)' => x = v
        BY DEF OneWriter
      <3>1. v # w /\ web[v] = "mail" /\ Row(v)' = Row(v) /\ Row(v) \in Id /\ Row(v) # Row(w)
        BY <2>1, <2>2, HeldRow DEF MailInv, OneWriter
      <3>2. QED
        BY <2>1, <2>2, <3>1 DEF MailInv, OneWriter, TypeOK
    <2>6. \A i \in Id : Recorded(i)'
      BY <2>1, <2>3 DEF MailInv, Recorded, TypeOK
    <2>7. QED
      BY <2>4, <2>5, <2>6 DEF MailInv
  <1>6. ASSUME NEW w \in Web, SaveVerified(w) \/ RemoveAddress(w)
        PROVE  MailInv'
    <2>1. /\ UNCHANGED <<issued, pc, delivered, sent, interrupted>>
          /\ web[w] # "idle"
          /\ Release(w)
          /\ addr' \in {addr, NoRow} \/ addr' = [inst[w] EXCEPT !.verified = TRUE]
      BY <1>6 DEF SaveVerified, RemoveAddress, mailVars
    <2>2. /\ web'[w] = "idle" /\ inst'[w] = NoRow
          /\ \A v \in Web : v # w => inst'[v] = inst[v] /\ web'[v] = web[v] /\ Row(v)' = Row(v)
      BY <2>1 DEF Release, TypeOK, Row
    <2>3. inst[w] \in Address /\ inst[w] # NoRow
      BY <2>1, HeldRow, NoRowAssumption
    <2>4. addr' # NoRow => addr'.id <= issued
      BY <2>1, <2>3 DEF MailInv, Numbering, Row, Address
    <2>5. QED
      BY <2>1, <2>2, <2>4 DEF MailInv, Numbering, OneWriter, Recorded
  <1>7. ASSUME NEW i \in Id, Work(i) \/ Fail(i) \/ Crash(i)
        PROVE  MailInv'
    <2>1. UNCHANGED <<addr, issued, web, inst>> /\ i <= issued
      BY <1>7, TaskSteps DEF MailInv, Numbering, TypeOK, Id
    <2>2. \A w \in Web : web[w] = "mail" => Row(w) # i /\ Row(w) \in Id
      BY <1>7, TaskSteps, HeldRow DEF MailInv, OneWriter
    <2>3. Numbering'
      BY <1>7, <2>1, TaskSteps DEF MailInv, Numbering, Row
    <2>4. OneWriter'
      BY <1>7, <2>1, <2>2, TaskSteps DEF MailInv, OneWriter, Row
    <2>5. \A k \in Id : Recorded(k)'
      BY <1>7, TaskSteps DEF MailInv, Recorded
    <2>6. QED
      BY <2>3, <2>4, <2>5 DEF MailInv
  <1>8. QED
    BY <1>1, <1>2, <1>3, <1>4, <1>5, <1>6, <1>7 DEF Next, Request, Respond

\* Lost acknowledgements and retries run a task again, and yet a message goes out
\* twice only if a run stopped between transmitting and recording it.
THEOREM NoMessageSentAgain == Spec => []NoNeedlessDuplicate
  <1>1. TypeOK /\ MailInv => NoNeedlessDuplicate
    BY DEF MailInv, Recorded, NoNeedlessDuplicate
  <1>2. QED
    BY <1>1, InitTypeOK, NextTypeOK, InitInv, NextMailInv, PTL DEF Spec

LEMMA NextVerifiedInv == TypeOK /\ MailInv /\ VerifiedInv /\ [Next]_vars => VerifiedInv'
  <1> SUFFICES ASSUME TypeOK, MailInv, VerifiedInv, [Next]_vars PROVE VerifiedInv'
    OBVIOUS
  <1> USE DEF VerifiedInv, VerifiedWasMailed
  <1>1. CASE UNCHANGED vars
    BY <1>1 DEF vars, webVars, mailVars, Row
  <1>2. ASSUME NEW c \in {"on", "off", "absent"}, Configure(c)
        PROVE  VerifiedInv'
    BY <1>2 DEF Configure, mailVars, Row
  <1>3. ASSUME NEW w \in Web, NEW u \in User, AddEmail(w, u)
        PROVE  VerifiedInv'
    <2>1. ~addr'.verified /\ UNCHANGED delivered
      BY <1>3 DEF AddEmail, mailVars
    <2>2. \A v \in Web : web'[v] = "verify" => web[v] = "verify" /\ inst'[v] = inst[v]
      BY <1>3 DEF AddEmail, Hold, TypeOK
    <2>3. QED
      BY <2>1, <2>2 DEF Row
  <1>4. ASSUME NEW w \in Web, LoadForVerification(w) \/ LoadForRemoval(w)
        PROVE  VerifiedInv'
    <2>1. UNCHANGED <<addr, delivered>>
      BY <1>4 DEF LoadForVerification, LoadForRemoval, mailVars
    <2>2. \A v \in Web : web'[v] = "verify" =>
             \/ web[v] = "verify" /\ inst'[v] = inst[v]
             \/ inst'[v] = addr /\ delivered[addr.id] > 0
      BY <1>4 DEF LoadForVerification, LoadForRemoval, Hold, TypeOK
    <2>3. QED
      BY <2>1, <2>2 DEF Row
  <1>5. ASSUME NEW w \in Web, Respond(w)
        PROVE  VerifiedInv'
    <2>1. Release(w) /\ web[w] # "idle" /\ UNCHANGED delivered
      BY <1>5 DEF Respond, CreateVerificationMessage, SaveVerified, RemoveAddress, mailVars
    <2>2. \A v \in Web : web'[v] = "verify" => web[v] = "verify" /\ inst'[v] = inst[v]
      BY <2>1 DEF Release, TypeOK
    <2>3. CASE SaveVerified(w)
      <3>1. addr' = addr \/ addr' = [inst[w] EXCEPT !.verified = TRUE]
        BY <2>3 DEF SaveVerified
      <3>2. inst[w] \in Address /\ delivered[inst[w].id] > 0
        BY <2>1, <2>3, HeldRow DEF SaveVerified, Row
      <3>3. addr' = addr \/ addr'.id = inst[w].id
        BY <3>1, <3>2 DEF Address
      <3>4. QED
        BY <2>1, <2>2, <3>2, <3>3 DEF Row
    <2>4. CASE ~SaveVerified(w)
      <3>1. addr' = addr \/ addr' = NoRow
        BY <1>5, <2>4 DEF Respond, CreateVerificationMessage, RemoveAddress
      <3>2. QED
        BY <2>1, <2>2, <3>1 DEF Row
    <2>5. QED
      BY <2>3, <2>4
  <1>6. ASSUME NEW i \in Id, Work(i) \/ Fail(i) \/ Crash(i)
        PROVE  VerifiedInv'
    <2>1. UNCHANGED <<addr, web, inst>>
      BY <1>6, TaskSteps
    <2>2. ASSUME NEW k \in Id, delivered[k] > 0
          PROVE  delivered'[k] > 0
      <3>1. delivered[k] \in Nat /\ delivered'[k] \in Nat
        BY <1>6, TaskTypeOK DEF TypeOK
      <3>2. k = i => delivered'[k] >= delivered[k]
        BY <1>6, TaskSteps
      <3>3. k # i => delivered'[k] = delivered[k]
        BY <1>6, TaskSteps
      <3>4. QED
        BY <2>2, <3>1, <3>2, <3>3
    <2>3. /\ \A w \in Web : web[w] = "verify" => Row(w) \in Id
          /\ addr # NoRow => addr.id \in Id
      BY HeldRow DEF TypeOK, Address
    <2>4. QED
      BY <2>1, <2>2, <2>3 DEF Row
  <1>7. QED
    BY <1>1, <1>2, <1>3, <1>4, <1>5, <1>6 DEF Next, Request

\* Whoever verified an address read the message of this registration of it.
THEOREM VerifiedByReader == Spec => []VerifiedWasMailed
  <1>1. VerifiedInv => VerifiedWasMailed
    BY DEF VerifiedInv
  <1>2. QED
    BY <1>1, InitTypeOK, NextTypeOK, InitInv, NextMailInv, NextVerifiedInv, PTL DEF Spec

LEMMA NextOwnerInv == TypeOK /\ MailInv /\ OwnerInv /\ [Next]_vars => OwnerInv'
  <1> SUFFICES ASSUME TypeOK, MailInv, OwnerInv, [Next]_vars PROVE OwnerInv'
    OBVIOUS
  <1>1. CASE UNCHANGED <<addr, inst>>
    BY <1>1 DEF OwnerInv, Row
  <1>2. ASSUME NEW w \in Web, NEW u \in User, AddEmail(w, u)
        PROVE  OwnerInv'
    <2>1. /\ addr'.id = issued + 1 /\ inst'[w] = addr'
          /\ \A v \in Web : v # w => inst'[v] = inst[v]
      BY <1>2 DEF AddEmail, Hold, TypeOK
    <2>2. \A v \in Web : inst[v] # NoRow => inst[v].id # issued + 1
      BY DEF MailInv, Numbering, Row, TypeOK, Address, Id
    <2>3. QED
      BY <2>1, <2>2 DEF OwnerInv, Row
  <1>3. ASSUME NEW w \in Web, LoadForVerification(w) \/ LoadForRemoval(w)
        PROVE  OwnerInv'
    <2>1. addr' = addr /\ addr # NoRow
      BY <1>3 DEF LoadForVerification, LoadForRemoval
    <2>2. inst'[w] = addr /\ \A v \in Web : v # w => inst'[v] = inst[v]
      BY <1>3 DEF LoadForVerification, LoadForRemoval, Hold, TypeOK
    <2>3. QED
      BY <2>1, <2>2 DEF OwnerInv, Row
  <1>4. ASSUME NEW w \in Web, Respond(w)
        PROVE  OwnerInv'
    <2>1. Release(w) /\ web[w] # "idle"
      BY <1>4 DEF Respond, CreateVerificationMessage, SaveVerified, RemoveAddress
    <2>2. inst'[w] = NoRow /\ \A v \in Web : v # w => inst'[v] = inst[v]
      BY <2>1 DEF Release, TypeOK
    <2>3. inst[w] # NoRow /\ inst[w] \in Address
      BY <2>1, HeldRow, NoRowAssumption
    <2>4. \/ addr' = addr \/ addr' = NoRow
          \/ addr'.id = inst[w].id /\ addr'.owner = inst[w].owner
      BY <1>4, <2>3 DEF Respond, CreateVerificationMessage, SaveVerified, RemoveAddress, Address
    <2>5. QED
      BY <2>2, <2>3, <2>4 DEF OwnerInv, Row
  <1>5. ASSUME NEW i \in Id, Work(i) \/ Fail(i) \/ Crash(i)
        PROVE  OwnerInv'
    BY <1>1, <1>5, TaskSteps
  <1>6. ASSUME NEW c \in {"on", "off", "absent"}, Configure(c)
        PROVE  OwnerInv'
    BY <1>1, <1>6 DEF Configure
  <1>7. QED
    BY <1>1, <1>2, <1>3, <1>4, <1>5, <1>6 DEF Next, Request, vars, webVars

LEMMA OwnerStep ==
  TypeOK /\ OwnerInv /\ [Next]_vars => (addr # NoRow /\ addr' # NoRow => addr'.owner = addr.owner)
  <1> SUFFICES ASSUME TypeOK, OwnerInv, [Next]_vars, addr # NoRow, addr' # NoRow, addr' # addr
               PROVE  addr'.owner = addr.owner
    OBVIOUS
  <1>1. PICK w \in Web : SaveVerified(w)
    <2>1. \A w \in Web : ~Request(w)
      BY DEF Request, AddEmail, LoadForVerification, LoadForRemoval
    <2>2. \A i \in Id : ~(Work(i) \/ Fail(i) \/ Crash(i))
      BY TaskSteps
    <2>3. /\ \A c \in {"on", "off", "absent"} : ~Configure(c)
          /\ \A w \in Web : ~CreateVerificationMessage(w) /\ ~RemoveAddress(w)
      BY DEF Configure, CreateVerificationMessage, RemoveAddress
    <2>4. QED
      BY <2>1, <2>2, <2>3 DEF Next, Respond, vars
  <1>2. inst[w] \in Address /\ inst[w] # NoRow
    BY <1>1, HeldRow, NoRowAssumption DEF SaveVerified
  <1>3. addr.id = Row(w) /\ addr' = [inst[w] EXCEPT !.verified = TRUE]
    BY <1>1 DEF SaveVerified
  <1>4. addr'.owner = inst[w].owner
    BY <1>2, <1>3 DEF Address
  <1>5. QED
    BY <1>2, <1>3, <1>4 DEF OwnerInv

\* No request moves a registered address to another user, though a request may save
\* an instance that it loaded long ago.
THEOREM OwnerNeverMoves == Spec => OwnerIsKept
  <1>1. QED
    BY InitTypeOK, NextTypeOK, InitInv, NextMailInv, NextOwnerInv, OwnerStep, PTL
    DEF Spec, OwnerIsKept

-----------------------------------------------------------------------------
(* Every registration is written to.                                        *)

\* A message that was transmitted or recorded went out, or its loss is noted.
Accounted(i) ==
  pc[i] = "transmitted" \/ sent[i] => delivered[i] > 0 \/ lost[i]

MailedInv == UnverifiedIsMailed /\ \A i \in Id : Accounted(i)

\* What a step of a task does to that account.
LEMMA TaskAccounts ==
  ASSUME TypeOK, NEW i \in Id, Recorded(i), Accounted(i), Work(i) \/ Fail(i) \/ Crash(i)
  PROVE  /\ \A k \in Id : k # i => lost'[k] = lost[k]
         /\ lost[i] => lost'[i]
         /\ Accounted(i)'
         /\ pc'[i] = "none" => delivered'[i] > 0 \/ lost'[i]
  <1>1. CASE LoadEmail(i)
    BY <1>1 DEF LoadEmail, EndTask, Recorded, Accounted, TypeOK
  <1>2. CASE FailUnconfigured(i)
    BY <1>2 DEF FailUnconfigured, RetryOrEnd, EndTask, Recorded, Accounted, TypeOK
  <1>3. CASE Transmit(i)
    BY <1>3 DEF Transmit, Recorded, Accounted, TypeOK
  <1>4. CASE SaveSent(i)
    BY <1>4 DEF SaveSent, Recorded, Accounted, TypeOK
  <1>5. CASE Acknowledge(i)
    BY <1>5 DEF Acknowledge, EndTask, Recorded, Accounted, TypeOK
  <1>6. CASE Fail(i)
    BY <1>6 DEF Fail, RetryOrEnd, EndTask, Recorded, Accounted, TypeOK
  <1>7. CASE Crash(i)
    BY <1>7 DEF Crash, Recorded, Accounted, TypeOK
  <1>8. QED
    BY <1>1, <1>2, <1>3, <1>4, <1>5, <1>6, <1>7 DEF Work

LEMMA NextMailedInv == TypeOK /\ MailInv /\ MailedInv /\ [Next]_vars => MailedInv'
  <1> SUFFICES ASSUME TypeOK, MailInv, MailedInv, [Next]_vars PROVE MailedInv'
    OBVIOUS
  <1> DEFINE Same == UNCHANGED <<pc, sent, delivered, lost>>
  <1>a. Same => \A i \in Id : Accounted(i)'
    BY DEF MailedInv, Accounted
  <1>b. addr # NoRow => addr.id \in Id
    BY DEF TypeOK, Address
  <1>1. CASE UNCHANGED <<addr, web, inst>> /\ Same
    BY <1>1 DEF MailedInv, UnverifiedIsMailed, Accounted, Row
  <1>2. ASSUME NEW w \in Web, NEW u \in User, AddEmail(w, u)
        PROVE  MailedInv'
    <2>1. web'[w] = "mail" /\ inst'[w] = addr'
      BY <1>2 DEF AddEmail, Hold, TypeOK
    <2>2. UnverifiedIsMailed'
      BY <2>1 DEF UnverifiedIsMailed, Row
    <2>3. QED
      BY <1>2, <1>a, <2>2 DEF AddEmail, mailVars, MailedInv
  <1>3. ASSUME NEW w \in Web, LoadForVerification(w) \/ LoadForRemoval(w)
        PROVE  MailedInv'
    <2>1. addr' = addr /\ Same
      BY <1>3 DEF LoadForVerification, LoadForRemoval, mailVars
    <2>2. web[w] = "idle" /\ \A v \in Web : v # w => web'[v] = web[v] /\ inst'[v] = inst[v]
      BY <1>3 DEF LoadForVerification, LoadForRemoval, Hold, TypeOK
    <2>3. UnverifiedIsMailed'
      BY <2>1, <2>2 DEF MailedInv, UnverifiedIsMailed, Row
    <2>4. QED
      BY <1>a, <2>1, <2>3 DEF MailedInv
  <1>4. ASSUME NEW w \in Web, CreateVerificationMessage(w)
        PROVE  MailedInv'
    <2>1. web[w] = "mail" /\ \A v \in Web : v # w => web'[v] = web[v] /\ inst'[v] = inst[v]
      BY <1>4 DEF CreateVerificationMessage, Release, TypeOK
    <2>2. Row(w) \in Id
      BY <2>1, HeldRow
    <2>3. pc[Row(w)] = "none" /\ delivered[Row(w)] = 0 /\ ~sent[Row(w)]
      BY <2>1 DEF MailInv, OneWriter
    <2>4. /\ pc'[Row(w)] = "queued" \/ lost'[Row(w)]
          /\ pc'[Row(w)] \in {"none", "queued"}
          /\ \A i \in Id : i # Row(w) => pc'[i] = pc[i] /\ lost'[i] = lost[i]
          /\ UNCHANGED <<addr, sent, delivered>>
      BY <1>4, <2>2, <2>3 DEF CreateVerificationMessage, TypeOK
    <2>5. \A i \in Id : Accounted(i)'
      BY <2>3, <2>4 DEF MailedInv, Accounted
    <2>6. UnverifiedIsMailed'
      <3>1. CASE addr # NoRow /\ addr.id = Row(w)
        BY <2>3, <2>4, <3>1, <1>b DEF UnverifiedIsMailed
      <3>2. CASE addr = NoRow \/ addr.id # Row(w)
        BY <2>1, <2>4, <3>2, <1>b DEF MailedInv, UnverifiedIsMailed, Row
      <3>3. QED
        BY <3>1, <3>2
    <2>7. QED
      BY <2>5, <2>6 DEF MailedInv
  <1>5. ASSUME NEW w \in Web, SaveVerified(w) \/ RemoveAddress(w)
        PROVE  MailedInv'
    <2>1. Same
      BY <1>5 DEF SaveVerified, RemoveAddress, mailVars
    <2>2. web[w] # "mail" /\ \A v \in Web : v # w => web'[v] = web[v] /\ inst'[v] = inst[v]
      BY <1>5 DEF SaveVerified, RemoveAddress, Release, TypeOK
    <2>3. web[w] = "verify" => inst[w] \in Address
      BY HeldRow
    <2>4. addr' = addr \/ addr' = NoRow \/ addr'.verified
      BY <1>5, <2>3 DEF SaveVerified, RemoveAddress, Address
    <2>5. UnverifiedIsMailed'
      BY <2>1, <2>2, <2>4 DEF MailedInv, UnverifiedIsMailed, Row
    <2>6. QED
      BY <1>a, <2>1, <2>5 DEF MailedInv
  <1>6. ASSUME NEW i \in Id, Work(i) \/ Fail(i) \/ Crash(i)
        PROVE  MailedInv'
    <2>1. Recorded(i) /\ Accounted(i)
      BY DEF MailInv, MailedInv
    <2>2. /\ \A k \in Id : k # i => lost'[k] = lost[k]
          /\ lost[i] => lost'[i]
          /\ Accounted(i)'
          /\ pc'[i] = "none" => delivered'[i] > 0 \/ lost'[i]
      BY <1>6, <2>1, TaskAccounts
    <2>3. /\ UNCHANGED <<addr, web, inst>>
          /\ \A k \in Id : k # i => pc'[k] = pc[k] /\ delivered'[k] = delivered[k] /\ sent'[k] = sent[k]
          /\ delivered'[i] >= delivered[i]
      BY <1>6, TaskSteps
    <2>4. \A k \in Id : Accounted(k)'
      BY <2>2, <2>3 DEF MailedInv, Accounted
    <2>5. UnverifiedIsMailed'
      BY <1>b, <2>2, <2>3 DEF MailedInv, UnverifiedIsMailed, Row, TypeOK
    <2>6. QED
      BY <2>4, <2>5 DEF MailedInv
  <1>7. ASSUME NEW c \in {"on", "off", "absent"}, Configure(c)
        PROVE  MailedInv'
    BY <1>1, <1>7 DEF Configure, mailVars
  <1>8. QED
    BY <1>1, <1>2, <1>3, <1>4, <1>5, <1>6, <1>7 DEF Next, Request, Respond, vars, webVars, mailVars

\* An address that waits to be verified has had its message, or will, unless the
\* message was lost in one of the ways the model names.
THEOREM UnverifiedHasItsMail == Spec => []UnverifiedIsMailed
  <1>1. Init => MailedInv
    BY DEF Init, MailedInv, UnverifiedIsMailed, Accounted
  <1>2. MailedInv => UnverifiedIsMailed
    BY DEF MailedInv
  <1>3. QED
    BY <1>1, <1>2, InitTypeOK, NextTypeOK, InitInv, NextMailInv, NextMailedInv, PTL DEF Spec

-----------------------------------------------------------------------------
(***************************************************************************)
(* Proofs about SitePages, for every choice of layers and of the times     *)
(* for which they are kept.                                                *)
(***************************************************************************)

-----------------------------------------------------------------------------
(* Layers.                                                                  *)

LEMMA LayerFacts ==
  ASSUME NEW l \in Layer
  PROVE  /\ Source(l) \in {"gallery", "post", "audits"}
         /\ ItemsOf(l) \in Layer /\ Source(ItemsOf(l)) = Source(l)
         /\ ItemsOf(ItemsOf(l)) = ItemsOf(l) /\ ~IsPage(ItemsOf(l))
         /\ TTL[l] \in Nat \ {0} /\ TTL[ItemsOf(l)] \in Nat \ {0}
  <1>1. CASE l = "albums"
    BY <1>1, ConstantAssumption DEF Layer, Source, ItemsOf, IsPage
  <1>2. CASE l = "posts"
    BY <1>2, ConstantAssumption DEF Layer, Source, ItemsOf, IsPage
  <1>3. CASE l = "sitemap-albums"
    BY <1>3, ConstantAssumption DEF Layer, Source, ItemsOf, IsPage
  <1>4. CASE l = "sitemap-posts"
    BY <1>4, ConstantAssumption DEF Layer, Source, ItemsOf, IsPage
  <1>5. CASE l = "home-albums"
    BY <1>5, ConstantAssumption DEF Layer, Source, ItemsOf, IsPage
  <1>6. CASE l = "home-posts"
    BY <1>6, ConstantAssumption DEF Layer, Source, ItemsOf, IsPage
  <1>7. CASE l = "badge"
    BY <1>7, ConstantAssumption DEF Layer, Source, ItemsOf, IsPage
  <1>8. QED
    BY <1>1, <1>2, <1>3, <1>4, <1>5, <1>6, <1>7 DEF Layer

\* What a request takes from a list and stores for its page has its type.
LEMMA ValueFacts ==
  ASSUME NEW l \in Layer
  PROVE  /\ ValueOf(ItemsOf(l)) = ValueOf(l)
         /\ PagesTypeOK => Truth(l) \in ValueOf(l)
  <1>1. ValueOf(ItemsOf(l)) = ValueOf(l)
    BY LayerFacts DEF ValueOf
  <1>2. CASE Source(l) = "gallery"
    BY <1>1, <1>2 DEF ValueOf, Truth
  <1>3. CASE Source(l) = "post"
    BY <1>1, <1>3 DEF ValueOf, Truth
  <1>4. CASE Source(l) = "audits"
    BY <1>1, <1>4 DEF ValueOf, Truth, PagesTypeOK
  <1>5. QED
    BY <1>2, <1>3, <1>4, LayerFacts

\* Every list and every page of a source may be as old as Longest says.
LEMMA LongestFacts ==
  ASSUME NEW s \in {"gallery", "post", "audits"}
  PROVE  Longest(s) \in Nat /\ \A l \in Layer : Source(l) = s => Stale(l) <= Longest(s)
  <1> DEFINE staleness == {Stale(l) : l \in {l \in Layer : Source(l) = s}}
  <1>1. \A l \in Layer : Stale(l) \in Nat
    BY LayerFacts DEF Stale
  <1>2. \E l \in Layer : Source(l) = s
    <2>1. "albums" \in Layer /\ Source("albums") = "gallery"
      BY DEF Layer, Source
    <2>2. "posts" \in Layer /\ Source("posts") = "post"
      BY DEF Layer, Source
    <2>3. "badge" \in Layer /\ Source("badge") = "audits"
      BY DEF Layer, Source
    <2>4. QED
      BY <2>1, <2>2, <2>3
  <1>3. staleness \subseteq Nat /\ staleness # {}
    BY <1>1, <1>2
  <1>4. \E n \in staleness : \A m \in staleness : m <= n
    <2>1. CASE s = "gallery"
      <3>1. \A l \in Layer : Source(l) = s <=> l \in {"albums", "sitemap-albums", "home-albums"}
        BY <2>1 DEF Layer, Source
      <3>2. staleness = {Stale("albums"), Stale("sitemap-albums"), Stale("home-albums")}
        BY <3>1 DEF Layer
      <3> HIDE DEF staleness
      <3>3. QED
        BY <1>3, <3>2
    <2>2. CASE s = "post"
      <3>1. \A l \in Layer : Source(l) = s <=> l \in {"posts", "sitemap-posts", "home-posts"}
        BY <2>2 DEF Layer, Source
      <3>2. staleness = {Stale("posts"), Stale("sitemap-posts"), Stale("home-posts")}
        BY <3>1 DEF Layer
      <3> HIDE DEF staleness
      <3>3. QED
        BY <1>3, <3>2
    <2>3. CASE s = "audits"
      <3>1. \A l \in Layer : Source(l) = s <=> l = "badge"
        BY <2>3 DEF Layer, Source
      <3>2. staleness = {Stale("badge")}
        BY <3>1 DEF Layer
      <3> HIDE DEF staleness
      <3>3. QED
        BY <1>3, <3>2
    <2>4. QED
      BY <2>1, <2>2, <2>3
  <1>5. Longest(s) \in staleness /\ \A m \in staleness : m <= Longest(s)
    BY <1>4 DEF Longest
  <1>6. QED
    BY <1>3, <1>5

-----------------------------------------------------------------------------
(* Type correctness.                                                        *)

Entry == UNION {[value : ValueOf(l), age : Nat] : l \in Layer}

LayerRequest == UNION {[layer : {l}, value : ValueOf(l), step : {"items", "store"}] : l \in Layer}

CacheOK ==
  /\ cache \in [DOMAIN cache -> Entry] /\ DOMAIN cache \subseteq Layer
  /\ \A l \in DOMAIN cache : cache[l] \in [value : ValueOf(l), age : 0..(TTL[l] - 1)]

IndexOK ==
  /\ rows \in [DOMAIN rows -> [item : Range(Parts), content : 0..2, vector : 0..2]]
  /\ DOMAIN rows \subseteq Nat \ {0} /\ IsFiniteSet(DOMAIN rows)
  /\ command \in [Command -> {None} \cup Rebuild]
  /\ twins \subseteq Range(Parts) /\ cut \subseteq Nat

ContentOK ==
  /\ gallery \in {"none", "private", "public"} /\ post \in 0..2 /\ audits \in Nat
  /\ since \in [{"gallery", "post", "audits"} -> Nat]

AuditOK ==
  audit \in {None} \cup [step : {"native", "fallback", "report"}, retries : 0..AuditRetries]

LEMMA RequestsHaveLayers == \A r : r \in LayerRequest <=> RequestFor(r)
  <1> TAKE r
  <1>1. ASSUME r \in LayerRequest PROVE RequestFor(r)
    <2>1. PICK l \in Layer : r \in [layer : {l}, value : ValueOf(l), step : {"items", "store"}]
      BY <1>1 DEF LayerRequest
    <2>2. QED
      BY <2>1 DEF RequestFor
  <1>2. ASSUME RequestFor(r) PROVE r \in LayerRequest
    <2>1. r \in [layer : {r.layer}, value : ValueOf(r.layer), step : {"items", "store"}]
          /\ r.layer \in Layer
      BY <1>2 DEF RequestFor
    <2>2. QED
      BY <2>1 DEF LayerRequest
  <1>3. QED
    BY <1>1, <1>2

LEMMA CacheForm ==
  ASSUME NEW f
  PROVE  (/\ f = [l \in DOMAIN f |-> f[l]] /\ DOMAIN f \subseteq Layer
          /\ \A l \in DOMAIN f : f[l] \in [value : ValueOf(l), age : 0..(TTL[l] - 1)])
         <=> (/\ f \in [DOMAIN f -> Entry] /\ DOMAIN f \subseteq Layer
              /\ \A l \in DOMAIN f : f[l] \in [value : ValueOf(l), age : 0..(TTL[l] - 1)])
  <1>1. ASSUME NEW l \in Layer, NEW e \in [value : ValueOf(l), age : 0..(TTL[l] - 1)]
        PROVE  e \in Entry
    <2>1. e \in [value : ValueOf(l), age : Nat]
      OBVIOUS
    <2>2. QED
      BY <2>1 DEF Entry
  <1>2. QED
    BY <1>1

LEMMA WebForm ==
  ASSUME NEW f
  PROVE  (f = [w \in Visitor |-> f[w]] /\ \A w \in Visitor : f[w] = None \/ RequestFor(f[w]))
         <=> f \in [Visitor -> {None} \cup LayerRequest]
  BY RequestsHaveLayers

LEMMA TypeParts ==
  /\ PagesTypeOK <=> /\ CacheOK /\ IndexOK /\ ContentOK /\ AuditOK
                     /\ visit \in [Visitor -> {None} \cup LayerRequest] /\ events \in 0..MaxEvents
  /\ PagesTypeOK' <=> /\ CacheOK' /\ IndexOK' /\ ContentOK' /\ AuditOK'
                      /\ visit' \in [Visitor -> {None} \cup LayerRequest] /\ events' \in 0..MaxEvents
  <1>1. PagesTypeOK <=> /\ CacheOK /\ IndexOK /\ ContentOK /\ AuditOK
                        /\ visit \in [Visitor -> {None} \cup LayerRequest] /\ events \in 0..MaxEvents
    BY CacheForm, WebForm DEF PagesTypeOK, CacheOK, IndexOK, ContentOK, AuditOK
  <1>2. PagesTypeOK' <=> /\ CacheOK' /\ IndexOK' /\ ContentOK' /\ AuditOK'
                         /\ visit' \in [Visitor -> {None} \cup LayerRequest] /\ events' \in 0..MaxEvents
    BY CacheForm, WebForm DEF PagesTypeOK, CacheOK, IndexOK, ContentOK, AuditOK
  <1>3. QED
    BY <1>1, <1>2

\* What a step leaves alone keeps its type.
LEMMA Frames ==
  /\ CacheOK /\ UNCHANGED cache => CacheOK'
  /\ IndexOK /\ UNCHANGED indexVars => IndexOK'
  /\ ContentOK /\ UNCHANGED <<gallery, post, audits, since>> => ContentOK'
  /\ AuditOK /\ UNCHANGED audit => AuditOK'
  BY DEF CacheOK, IndexOK, ContentOK, AuditOK, indexVars, Entry, ValueOf, Source

LEMMA RowsCounted ==
  ASSUME events \in 0..MaxEvents, NEW cost \in Nat, Event(cost)
  PROVE  events' \in 0..MaxEvents
  BY ConstantAssumption DEF Event

LEMMA MadeRequest ==
  ASSUME NEW l \in Layer, NEW v \in ValueOf(l), NEW step \in {"items", "store"}
  PROVE  [layer |-> l, value |-> v, step |-> step] \in LayerRequest
  BY DEF LayerRequest

LEMMA RequestFacts ==
  ASSUME visit \in [Visitor -> {None} \cup LayerRequest], NEW w \in Visitor, visit[w] # None
  PROVE  /\ visit[w].layer \in Layer /\ visit[w].value \in ValueOf(visit[w].layer)
         /\ visit[w].step \in {"items", "store"}
         /\ [visit[w] EXCEPT !.step = "store"] \in LayerRequest
         /\ [visit[w] EXCEPT !.step = "store"].layer = visit[w].layer
         /\ [visit[w] EXCEPT !.step = "store"].value = visit[w].value
         /\ [visit[w] EXCEPT !.step = "store"].step = "store"
  <1>1. visit[w] \in LayerRequest
    OBVIOUS
  <1>2. PICK l \in Layer :
          visit[w] \in [layer : {l}, value : ValueOf(l), step : {"items", "store"}]
    BY <1>1 DEF LayerRequest
  <1>3. [visit[w] EXCEPT !.step = "store"]
          \in [layer : {l}, value : ValueOf(l), step : {"items", "store"}]
    BY <1>2
  <1>4. QED
    BY <1>2, <1>3 DEF LayerRequest

LEMMA PutFacts ==
  ASSUME CacheOK, NEW l \in Layer, NEW v \in ValueOf(l), Put(l, v)
  PROVE  /\ CacheOK'
         /\ DOMAIN cache' = DOMAIN cache \cup {l}
         /\ cache'[l] = [value |-> v, age |-> 0]
         /\ \A k \in DOMAIN cache : k # l => cache'[k] = cache[k]
  <1> DEFINE new == [value |-> v, age |-> 0]
  <1>1. /\ DOMAIN cache' = DOMAIN cache \cup {l}
        /\ cache'[l] = new
        /\ \A k \in DOMAIN cache : k # l => cache'[k] = cache[k]
        /\ cache' = [k \in DOMAIN cache' |-> cache'[k]]
    BY DEF Put
  <1>2. new \in [value : ValueOf(l), age : 0..(TTL[l] - 1)]
    BY LayerFacts
  <1>3. new \in Entry
    BY DEF Entry
  <1> HIDE DEF new
  <1>4. DOMAIN cache' \subseteq Layer /\ cache' \in [DOMAIN cache' -> Entry]
    BY <1>1, <1>3 DEF CacheOK
  <1>5. \A k \in DOMAIN cache' : cache'[k] \in [value : ValueOf(k), age : 0..(TTL[k] - 1)]
    BY <1>1, <1>2 DEF CacheOK
  <1>6. CacheOK'
    BY <1>4, <1>5 DEF CacheOK, Entry, ValueOf, Source
  <1>7. QED
    BY <1>1, <1>6 DEF new

\* A visit leaves the caches as they are, and at most begins a request.
LEMMA VisitFacts ==
  ASSUME PagesTypeOK, NEW w \in Visitor, NEW l \in Layer, Visit(w, l)
  PROVE  /\ UNCHANGED <<cache, gallery, post, audits, audit, since, indexVars, events>>
         /\ \/ UNCHANGED visit
            \/ /\ IsPage(l) /\ ItemsOf(l) \in DOMAIN cache
               /\ visit' = [visit EXCEPT ![w] = [layer |-> l, value |-> cache[ItemsOf(l)].value,
                                                 step |-> "store"]]
            \/ visit' = [visit EXCEPT ![w] = [layer |-> l, value |-> Truth(l),
                                              step |-> IF IsPage(l) THEN "items" ELSE "store"]]
  BY DEF Visit, AfterHit, Answer, Kept

LEMMA VisitType ==
  ASSUME PagesTypeOK, NEW w \in Visitor, NEW l \in Layer, Visit(w, l)
  PROVE  PagesTypeOK'
  <1> USE TypeParts
  <1>1. CASE UNCHANGED visit
    BY <1>1, VisitFacts, Frames
  <1>2. CASE /\ IsPage(l) /\ ItemsOf(l) \in DOMAIN cache
             /\ visit' = [visit EXCEPT ![w] = [layer |-> l, value |-> cache[ItemsOf(l)].value,
                                               step |-> "store"]]
    <2>1. cache[ItemsOf(l)].value \in ValueOf(l)
      BY <1>2, ValueFacts DEF CacheOK
    <2>2. [layer |-> l, value |-> cache[ItemsOf(l)].value, step |-> "store"] \in LayerRequest
      BY <2>1, MadeRequest
    <2>3. visit' \in [Visitor -> {None} \cup LayerRequest]
      BY <1>2, <2>2
    <2>4. QED
      BY <2>3, VisitFacts, Frames
  <1>3. CASE visit' = [visit EXCEPT ![w] = [layer |-> l, value |-> Truth(l),
                                            step |-> IF IsPage(l) THEN "items" ELSE "store"]]
    <2>1. [layer |-> l, value |-> Truth(l), step |-> IF IsPage(l) THEN "items" ELSE "store"]
             \in LayerRequest
      BY MadeRequest, ValueFacts
    <2>2. visit' \in [Visitor -> {None} \cup LayerRequest]
      BY <1>3, <2>1
    <2>3. QED
      BY <2>2, VisitFacts, Frames
  <1>4. QED
    BY <1>1, <1>2, <1>3, VisitFacts

LEMMA Visits ==
  ASSUME NEW w \in Visitor, Home(w) \/ Sitemap(w) \/ Badge(w)
  PROVE  \E l \in Layer : Visit(w, l)
  BY ConstantAssumption DEF Home, Sitemap, Badge, Layer

LEMMA StoreItemsType ==
  ASSUME PagesTypeOK, NEW w \in Visitor, StoreItems(w)
  PROVE  PagesTypeOK'
  <1> USE TypeParts
  <1>1. /\ visit[w].layer \in Layer /\ visit[w].value \in ValueOf(ItemsOf(visit[w].layer))
        /\ [visit[w] EXCEPT !.step = "store"] \in LayerRequest
    BY RequestFacts, ValueFacts DEF StoreItems
  <1>2. CacheOK'
    BY <1>1, PutFacts, LayerFacts DEF StoreItems
  <1>3. visit' \in [Visitor -> {None} \cup LayerRequest]
    BY <1>1 DEF StoreItems, Answer
  <1>4. QED
    BY <1>2, <1>3, Frames DEF StoreItems

LEMMA StoreType ==
  ASSUME PagesTypeOK, NEW w \in Visitor, Store(w)
  PROVE  PagesTypeOK'
  <1> USE TypeParts
  <1>1. visit[w].layer \in Layer /\ visit[w].value \in ValueOf(visit[w].layer)
    BY RequestFacts DEF Store
  <1>2. CacheOK'
    BY <1>1, PutFacts, Frames DEF Store
  <1>3. visit' \in [Visitor -> {None} \cup LayerRequest]
    BY DEF Store, Answer
  <1>4. QED
    BY <1>2, <1>3, Frames DEF Store

\* A tick drops what has expired and ages the rest.
LEMMA TickFacts ==
  ASSUME PagesTypeOK, Tick
  PROVE  /\ \A l \in DOMAIN cache' : /\ l \in DOMAIN cache
                                     /\ cache'[l].value = cache[l].value
                                     /\ cache'[l].age = cache[l].age + 1
                                     /\ cache[l].age + 1 < TTL[l]
         /\ CacheOK'
         /\ since' \in [{"gallery", "post", "audits"} -> Nat]
         /\ \A s \in {"gallery", "post", "audits"} : since'[s] <= since[s] + 1
  <1> USE TypeParts
  <1> DEFINE left == {l \in DOMAIN cache : cache[l].age + 1 < TTL[l]}
  <1>1. /\ cache' = [l \in left |-> [cache[l] EXCEPT !.age = @ + 1]]
        /\ DOMAIN cache' = left
    BY DEF Tick
  <1>2. \A l \in DOMAIN cache' :
          /\ l \in DOMAIN cache /\ cache[l].age + 1 < TTL[l] /\ l \in Layer
          /\ cache'[l] = [cache[l] EXCEPT !.age = @ + 1]
          /\ cache[l] \in [value : ValueOf(l), age : 0..(TTL[l] - 1)]
    BY <1>1 DEF CacheOK
  <1>3. \A l \in DOMAIN cache' :
          /\ cache'[l] \in [value : ValueOf(l), age : 0..(TTL[l] - 1)]
          /\ cache'[l].value = cache[l].value /\ cache'[l].age = cache[l].age + 1
    BY <1>2, LayerFacts
  <1>4. \A l \in DOMAIN cache' : cache'[l] \in Entry
    <2> TAKE l \in DOMAIN cache'
    <2>1. l \in Layer /\ cache'[l] \in [value : ValueOf(l), age : Nat]
      BY <1>2, <1>3, LayerFacts
    <2>2. QED
      BY <2>1 DEF Entry
  <1>5. CacheOK'
    BY <1>1, <1>2, <1>3, <1>4 DEF CacheOK, Entry, ValueOf, Source
  <1>6. /\ since' \in [{"gallery", "post", "audits"} -> Nat]
        /\ \A s \in {"gallery", "post", "audits"} : since'[s] <= since[s] + 1
    BY LongestFacts DEF Tick, ContentOK
  <1>7. QED
    BY <1>2, <1>3, <1>5, <1>6

LEMMA TickType ==
  ASSUME PagesTypeOK, Tick
  PROVE  PagesTypeOK'
  BY TypeParts, TickFacts, Frames DEF Tick, ContentOK

LEMMA ContentType ==
  ASSUME PagesTypeOK,
         \/ \E state \in {"none", "private", "public"} : EditAlbum(state)
         \/ \E version \in 0..2 : DeployPost(version)
  PROVE  PagesTypeOK'
  <1> USE TypeParts
  <1>1. ASSUME NEW state \in {"none", "private", "public"}, EditAlbum(state)
        PROVE  PagesTypeOK'
    BY <1>1, RowsCounted, Frames DEF EditAlbum, Changed, ContentOK
  <1>2. ASSUME NEW version \in 0..2, DeployPost(version)
        PROVE  PagesTypeOK'
    BY <1>2, RowsCounted, Frames DEF DeployPost, Changed, ContentOK
  <1>3. QED
    BY <1>1, <1>2

LEMMA RaiseType ==
  ASSUME AuditOK, audit # None, Raise
  PROVE  AuditOK'
  BY ConstantAssumption DEF AuditOK, Raise

LEMMA AuditType ==
  ASSUME PagesTypeOK, RunLighthouseAudit \/ RunTool \/ StoreAudit
  PROVE  PagesTypeOK'
  <1> USE TypeParts
  <1>1. CASE RunLighthouseAudit
    <2>1. AuditOK'
      BY <1>1, ConstantAssumption DEF RunLighthouseAudit, AuditOK
    <2>2. QED
      BY <1>1, <2>1, RowsCounted, Frames DEF RunLighthouseAudit, listVars
  <1>2. CASE RunTool
    <2>1. AuditOK'
      BY <1>2, RaiseType DEF RunTool, AuditOK
    <2>2. QED
      BY <1>2, <2>1, Frames DEF RunTool, listVars
  <1>3. CASE StoreAudit
    <2>1. AuditOK'
      BY <1>3, RaiseType DEF StoreAudit, AuditOK
    <2>2. ContentOK'
      BY <1>3 DEF StoreAudit, ContentOK, Changed
    <2>3. QED
      BY <1>3, <2>1, <2>2, Frames DEF StoreAudit
  <1>4. QED
    BY <1>1, <1>2, <1>3

LEMMA PartFacts ==
  /\ Range(Parts) = {"post", "photos", "albums", "book", "project"}
  /\ Parts \in Seq(Range(Parts)) /\ Tail(Parts) \in Seq(Range(Parts))
  <1>1. Range(Parts) = {"post", "photos", "albums", "book", "project"}
    <2>1. DOMAIN Parts = 1..5
      BY DEF Parts
    <2>2. QED
      BY <2>1 DEF Parts, Range
  <1>2. Parts \in Seq(Range(Parts)) /\ Parts # <<>>
    BY <1>1 DEF Parts
  <1>3. QED
    BY <1>1, <1>2

LEMMA TodoType ==
  ASSUME NEW part \in Range(Parts) \cup {"all"}
  PROVE  Todo(part) \in Seq(Range(Parts))
  <1>1. CASE part = "all"
    BY <1>1, PartFacts DEF Todo
  <1>2. CASE part # "all"
    <2>1. <<part>> \in Seq(Range(Parts)) /\ <<>> \in Seq(Range(Parts))
      BY <1>2
    <2>2. QED
      BY <1>2, <2>1 DEF Todo
  <1>3. QED
    BY <1>1, <1>2

\* What a command at work holds, and what it holds after a step.
LEMMA DoingFacts ==
  ASSUME IndexOK, NEW c \in Command, NEW step, Doing(c, step)
  PROVE  /\ command[c] \in Rebuild /\ Part(c) \in Range(Parts) /\ ContentOf(c) \in 0..2
         /\ Tail(command[c].todo) \in Seq(Range(Parts))
         /\ \A s \in {"find", "insert", "vector"}, i \in Nat :
               /\ [command[c] EXCEPT !.step = s, !.row = i] \in Rebuild
               /\ [command[c] EXCEPT !.todo = Tail(@), !.step = s, !.row = i] \in Rebuild
  <1>1. command[c] \in Rebuild
    BY DEF IndexOK, Doing
  <1>2. command[c].todo \in Seq(Range(Parts)) /\ command[c].todo # <<>> /\ command[c].at \in 0..2
    BY <1>1 DEF Rebuild, Doing
  <1>3. Tail(command[c].todo) \in Seq(Range(Parts)) /\ Part(c) \in Range(Parts)
    BY <1>2 DEF Part
  <1>4. ContentOf(c) \in 0..2
    BY <1>2 DEF ContentOf
  <1>5. \A s \in {"find", "insert", "vector"}, i \in Nat :
               /\ [command[c] EXCEPT !.step = s, !.row = i] \in Rebuild
               /\ [command[c] EXCEPT !.todo = Tail(@), !.step = s, !.row = i] \in Rebuild
    BY <1>1, <1>3 DEF Rebuild
  <1>6. QED
    BY <1>1, <1>3, <1>4, <1>5

\* The next id is free.
LEMMA NewIdFacts ==
  ASSUME IndexOK
  PROVE  NewId \in Nat \ {0} /\ NewId \notin DOMAIN rows
  <1> DEFINE n == Cardinality(DOMAIN rows)
  <1>1. n \in Nat
    BY FS_CardinalityType DEF IndexOK
  <1>2. \E i \in 1..n + 1 : i \notin DOMAIN rows
    <2> SUFFICES ASSUME 1..n + 1 \subseteq DOMAIN rows PROVE FALSE
      OBVIOUS
    <2>1. Cardinality(1..n + 1) <= n
      BY FS_Subset DEF IndexOK
    <2>2. Cardinality(1..n + 1) = n + 1
      BY <1>1, FS_Interval
    <2> HIDE DEF n
    <2>3. QED
      BY <1>1, <2>1, <2>2
  <1>3. QED
    BY <1>1, <1>2 DEF NewId

LEMMA InsertFacts ==
  ASSUME IndexOK, NEW c \in Command, Insert(c)
  PROVE  /\ DOMAIN rows' = DOMAIN rows \cup {NewId} /\ NewId \notin DOMAIN rows
         /\ rows'[NewId] = [item |-> Part(c), content |-> ContentOf(c), vector |-> 0]
         /\ \A i \in DOMAIN rows : rows'[i] = rows[i]
         /\ IndexOK'
  <1> DEFINE new == [item |-> Part(c), content |-> ContentOf(c), vector |-> 0]
  <1>1. NewId \in Nat \ {0} /\ NewId \notin DOMAIN rows
    BY NewIdFacts
  <1>2. new \in [item : Range(Parts), content : 0..2, vector : 0..2]
    <2>1. Doing(c, "insert")
      BY DEF Insert
    <2>2. Part(c) \in Range(Parts) /\ ContentOf(c) \in 0..2
      BY <2>1, DoingFacts
    <2>3. QED
      BY <2>2
  <1>3. [command[c] EXCEPT !.step = "vector", !.row = NewId] \in Rebuild
    BY <1>1, DoingFacts DEF Insert
  <1>4. PICK id : id = NewId
    OBVIOUS
  <1>5. /\ rows' = [i \in DOMAIN rows \cup {id} |-> IF i = id THEN new ELSE rows[i]]
        /\ DOMAIN rows' = DOMAIN rows \cup {id}
    BY <1>4 DEF Insert
  <1>6. rows' \in [DOMAIN rows' -> [item : Range(Parts), content : 0..2, vector : 0..2]]
    BY <1>2, <1>5 DEF IndexOK
  <1>7. IsFiniteSet(DOMAIN rows')
    BY <1>5, FS_AddElement DEF IndexOK
  <1>8. command' \in [Command -> {None} \cup Rebuild]
    BY <1>3 DEF Insert, Go, IndexOK
  <1>9. IndexOK'
    BY <1>1, <1>4, <1>5, <1>6, <1>7, <1>8 DEF IndexOK, Insert
  <1>10. QED
    BY <1>1, <1>4, <1>5, <1>9

LEMMA FindFacts ==
  ASSUME IndexOK, NEW c \in Command, Find(c)
  PROVE  /\ DOMAIN rows' = DOMAIN rows
         /\ \A i \in DOMAIN rows : rows'[i].item = rows[i].item /\ rows'[i].vector = rows[i].vector
         /\ \/ /\ UNCHANGED rows /\ RowsOf(Part(c)) = {}
               /\ command' = [command EXCEPT ![c] = [command[c] EXCEPT !.step = "insert", !.row = 0]]
            \/ \E i \in DOMAIN rows :
                 /\ command' = [command EXCEPT ![c] =
                                  [command[c] EXCEPT !.step = "vector", !.row = i]]
                 /\ \A j \in DOMAIN rows : j # i => rows'[j] = rows[j]
            \/ /\ UNCHANGED rows
               /\ \/ command' = [command EXCEPT ![c] = None]
                  \/ command' = [command EXCEPT ![c] =
                        [command[c] EXCEPT !.todo = Tail(@), !.step = "find", !.row = 0]]
         /\ IndexOK'
  <1>1. ContentOf(c) \in 0..2 /\ Part(c) \in Range(Parts) /\ command[c] \in Rebuild
    BY DoingFacts DEF Find
  <1>2. twins' \subseteq Range(Parts)
    BY <1>1 DEF Find, IndexOK
  <1>3. CASE RowsOf(Part(c)) = {} /\ Go(c, "insert", 0) /\ UNCHANGED rows
    <2>1. [command[c] EXCEPT !.step = "insert", !.row = 0] \in Rebuild
      BY DoingFacts DEF Find
    <2>2. command' \in [Command -> {None} \cup Rebuild]
      BY <1>3, <2>1 DEF Go, IndexOK
    <2>3. IndexOK'
      BY <1>2, <1>3, <2>2 DEF IndexOK, Find
    <2>4. QED
      BY <1>3, <2>3 DEF Go
  <1>4. ASSUME NEW i \in RowsOf(Part(c)),
               rows' = [rows EXCEPT ![i].content = ContentOf(c)], Go(c, "vector", i)
        PROVE  /\ DOMAIN rows' = DOMAIN rows
               /\ \A j \in DOMAIN rows :
                    /\ rows'[j].item = rows[j].item /\ rows'[j].vector = rows[j].vector
                    /\ j # i => rows'[j] = rows[j]
               /\ i \in DOMAIN rows /\ IndexOK'
               /\ command' = [command EXCEPT ![c] =
                                [command[c] EXCEPT !.step = "vector", !.row = i]]
    <2>1. i \in DOMAIN rows /\ i \in Nat
      BY DEF RowsOf, IndexOK
    <2>2. [command[c] EXCEPT !.step = "vector", !.row = i] \in Rebuild
      BY <2>1, DoingFacts DEF Find
    <2>3. command' \in [Command -> {None} \cup Rebuild]
      BY <1>4, <2>2 DEF Go, IndexOK
    <2>4. /\ DOMAIN rows' = DOMAIN rows
          /\ \A j \in DOMAIN rows : rows'[j] = IF j = i THEN [rows[i] EXCEPT !.content = ContentOf(c)]
                                               ELSE rows[j]
      BY <1>4, <2>1 DEF IndexOK
    <2>5. [rows[i] EXCEPT !.content = ContentOf(c)] \in
             [item : Range(Parts), content : 0..2, vector : 0..2]
      BY <1>1, <2>1 DEF IndexOK
    <2>6. rows' \in [DOMAIN rows' -> [item : Range(Parts), content : 0..2, vector : 0..2]]
      BY <1>4, <2>4, <2>5 DEF IndexOK
    <2>7. IndexOK'
      BY <1>2, <2>3, <2>4, <2>6 DEF IndexOK, Find
    <2>8. /\ [rows[i] EXCEPT !.content = ContentOf(c)].item = rows[i].item
          /\ [rows[i] EXCEPT !.content = ContentOf(c)].vector = rows[i].vector
      BY <2>1 DEF IndexOK
    <2>9. QED
      BY <1>4, <2>1, <2>4, <2>7, <2>8 DEF Go
  <1>5. CASE /\ command' = IF Part(c) = "project" THEN [command EXCEPT ![c] = None]
                           ELSE Onward(c)
             /\ UNCHANGED rows
    <2>1. [command[c] EXCEPT !.todo = Tail(@), !.step = "find", !.row = 0] \in Rebuild
      BY DoingFacts DEF Find
    <2>2. \/ command' = [command EXCEPT ![c] = None]
          \/ command' = [command EXCEPT ![c] =
                           [command[c] EXCEPT !.todo = Tail(@), !.step = "find", !.row = 0]]
      BY <1>5 DEF Onward
    <2>3. command' \in [Command -> {None} \cup Rebuild]
      BY <2>1, <2>2 DEF IndexOK
    <2>4. IndexOK'
      BY <1>2, <1>5, <2>3 DEF IndexOK, Find
    <2>5. QED
      BY <1>5, <2>2, <2>4
  <1>6. QED
    BY <1>3, <1>4, <1>5 DEF Find

LEMMA VectorFacts ==
  ASSUME IndexOK, NEW c \in Command, UpdateSearchVector(c)
  PROVE  /\ DOMAIN rows' = DOMAIN rows
         /\ \A i \in DOMAIN rows : rows'[i].item = rows[i].item /\ rows'[i].content = rows[i].content
         /\ \A i \in DOMAIN rows :
               IF i = command[c].row THEN rows'[i].vector = rows'[i].content ELSE rows'[i] = rows[i]
         /\ command' = [command EXCEPT ![c] =
                          [command[c] EXCEPT !.todo = Tail(@), !.step = "find", !.row = 0]]
         /\ IndexOK'
  <1>1. [command[c] EXCEPT !.todo = Tail(@), !.step = "find", !.row = 0] \in Rebuild
    BY DoingFacts DEF UpdateSearchVector
  <1>2. command' = [command EXCEPT ![c] =
                      [command[c] EXCEPT !.todo = Tail(@), !.step = "find", !.row = 0]]
    BY DEF UpdateSearchVector, Onward
  <1>3. command' \in [Command -> {None} \cup Rebuild]
    BY <1>1, <1>2 DEF IndexOK
  <1>4. PICK r : r = command[c].row
    OBVIOUS
  <1>5. CASE r \in DOMAIN rows
    <2>1. /\ DOMAIN rows' = DOMAIN rows
          /\ \A i \in DOMAIN rows :
               rows'[i] = IF i = r THEN [rows[r] EXCEPT !.vector = rows[r].content] ELSE rows[i]
      BY <1>4, <1>5 DEF UpdateSearchVector, VectorFor, IndexOK
    <2>2. rows[r] \in [item : Range(Parts), content : 0..2, vector : 0..2]
      BY <1>5 DEF IndexOK
    <2>3. /\ [rows[r] EXCEPT !.vector = rows[r].content] \in
                [item : Range(Parts), content : 0..2, vector : 0..2]
          /\ [rows[r] EXCEPT !.vector = rows[r].content].item = rows[r].item
          /\ [rows[r] EXCEPT !.vector = rows[r].content].content = rows[r].content
          /\ [rows[r] EXCEPT !.vector = rows[r].content].vector = rows[r].content
      BY <2>2
    <2>4. rows' = [i \in DOMAIN rows' |-> rows'[i]]
      BY <1>4, <1>5 DEF UpdateSearchVector, IndexOK
    <2>5. rows' \in [DOMAIN rows' -> [item : Range(Parts), content : 0..2, vector : 0..2]]
      BY <2>1, <2>3, <2>4 DEF IndexOK
    <2>6. IndexOK'
      BY <1>3, <2>1, <2>5 DEF IndexOK, UpdateSearchVector
    <2>7. QED
      BY <1>2, <1>4, <2>1, <2>3, <2>6
  <1>6. CASE r \notin DOMAIN rows
    <2>1. UNCHANGED rows
      BY <1>4, <1>6 DEF UpdateSearchVector
    <2>2. IndexOK'
      BY <1>3, <2>1 DEF IndexOK, UpdateSearchVector
    <2>3. QED
      BY <1>2, <1>4, <1>6, <2>1, <2>2
  <1>7. QED
    BY <1>5, <1>6

\* A command that begins, and with --clear empties the index for all.
LEMMA RebuildFacts ==
  ASSUME IndexOK, post \in 0..2, NEW c \in Command,
         NEW part \in Range(Parts) \cup {"all"}, NEW clear \in BOOLEAN,
         RebuildSearchIndex(c, part, clear)
  PROVE  /\ command[c] = None /\ command'[c].step = "find"
         /\ UNCHANGED twins
         /\ \/ /\ rows' = <<>> /\ cut' = {}
               /\ \A d \in Command \ {c} :
                    IF command[d] = None THEN command'[d] = None
                    ELSE command'[d] = [command[d] EXCEPT !.row = 0]
            \/ /\ UNCHANGED <<rows, cut>>
               /\ \A d \in Command \ {c} : command'[d] = command[d]
         /\ IndexOK'
  <1> DEFINE new == [todo |-> Todo(part), at |-> post, step |-> "find", row |-> 0]
  <1>1. new \in Rebuild /\ new.step = "find"
    BY TodoType DEF Rebuild
  <1> HIDE DEF new
  <1>2. command[c] = None /\ UNCHANGED twins
    BY DEF RebuildSearchIndex
  <1>3. CASE clear
    <2>1. /\ rows' = <<>> /\ cut' = {}
          /\ command' = [d \in Command |-> IF d = c THEN new
                                           ELSE IF command[d] = None THEN None
                                           ELSE [command[d] EXCEPT !.row = 0]]
      BY <1>3 DEF RebuildSearchIndex, new
    <2>2. \A d \in Command : command[d] # None => [command[d] EXCEPT !.row = 0] \in Rebuild
      BY DEF IndexOK, Rebuild
    <2>3. command' \in [Command -> {None} \cup Rebuild]
      BY <1>1, <2>1, <2>2
    <2>4. DOMAIN rows' = {} /\ rows' = [i \in {} |-> rows'[i]]
      BY <2>1
    <2>5. IndexOK'
      BY <1>2, <2>1, <2>3, <2>4, FS_EmptySet DEF IndexOK
    <2>6. QED
      BY <1>1, <1>2, <2>1, <2>5
  <1>4. CASE ~clear
    <2>1. command' = [command EXCEPT ![c] = new] /\ UNCHANGED <<rows, cut>>
      BY <1>4 DEF RebuildSearchIndex, new
    <2>2. command' \in [Command -> {None} \cup Rebuild]
      BY <1>1, <2>1 DEF IndexOK
    <2>3. IndexOK'
      BY <1>2, <2>1, <2>2 DEF IndexOK
    <2>4. QED
      BY <1>1, <1>2, <2>1, <2>3 DEF IndexOK
  <1>5. QED
    BY <1>3, <1>4

\* The steps of a command that leave the rows alone.
LEMMA OtherIndexSteps ==
  ASSUME IndexOK, NEW c \in Command, RebuildGallery(c) \/ Complete(c) \/ Die(c)
  PROVE  /\ UNCHANGED <<rows, twins>>
         /\ \/ command' = [command EXCEPT ![c] = None]
            \/ /\ Doing(c, "find")
               /\ command' = [command EXCEPT ![c] =
                     [command[c] EXCEPT !.todo = Tail(@), !.step = "find", !.row = 0]]
         /\ IF Doing(c, "vector") THEN cut' = cut \cup {command[c].row} ELSE cut' = cut
         /\ IndexOK'
  <1>1. CASE RebuildGallery(c)
    <2>1. [command[c] EXCEPT !.todo = Tail(@), !.step = "find", !.row = 0] \in Rebuild
      BY <1>1, DoingFacts DEF RebuildGallery
    <2>2. \/ command' = [command EXCEPT ![c] = None]
          \/ command' = [command EXCEPT ![c] =
                 [command[c] EXCEPT !.todo = Tail(@), !.step = "find", !.row = 0]]
      BY <1>1 DEF RebuildGallery, Onward
    <2>3. command' \in [Command -> {None} \cup Rebuild]
      BY <2>1, <2>2 DEF IndexOK
    <2>4. Doing(c, "find") /\ ~Doing(c, "vector") /\ UNCHANGED <<rows, twins, cut>>
      BY <1>1 DEF RebuildGallery, Doing
    <2>5. IndexOK'
      BY <2>3, <2>4 DEF IndexOK
    <2>6. QED
      BY <2>2, <2>4, <2>5
  <1>2. CASE Complete(c)
    <2>1. ~Doing(c, "vector") /\ UNCHANGED <<rows, twins, cut>>
          /\ command' = [command EXCEPT ![c] = None]
      BY <1>2 DEF Complete, Doing
    <2>2. QED
      BY <2>1 DEF IndexOK
  <1>3. CASE Die(c)
    <2>1. /\ command' = [command EXCEPT ![c] = None] /\ UNCHANGED <<rows, twins>>
          /\ IF Doing(c, "vector") THEN cut' = cut \cup {command[c].row} ELSE cut' = cut
      BY <1>3 DEF Die
    <2>2. Doing(c, "vector") => command[c].row \in Nat
      BY DEF Doing, IndexOK, Rebuild
    <2>3. IndexOK'
      BY <2>1, <2>2 DEF IndexOK
    <2>4. QED
      BY <2>1, <2>3
  <1>4. QED
    BY <1>1, <1>2, <1>3

IndexStep(c) ==
  \/ \E part \in Range(Parts) \cup {"all"}, clear \in BOOLEAN :
       RebuildSearchIndex(c, part, clear)
  \/ RebuildGallery(c) \/ Find(c) \/ Insert(c) \/ UpdateSearchVector(c)
  \/ Complete(c) \/ Die(c)

LEMMA IndexType ==
  ASSUME PagesTypeOK, NEW c \in Command, IndexStep(c)
  PROVE  PagesTypeOK'
  <1> USE TypeParts
  <1>1. IndexOK'
    BY RebuildFacts, OtherIndexSteps, FindFacts, InsertFacts, VectorFacts DEF IndexStep, ContentOK
  <1>2. UNCHANGED <<gallery, post, audits, audit, listVars>>
    BY DEF IndexStep, RebuildSearchIndex, RebuildGallery, Find, Insert, UpdateSearchVector,
           Complete, Die
  <1>3. events' \in 0..MaxEvents
    BY RowsCounted DEF IndexStep, RebuildSearchIndex, RebuildGallery, Find, Insert,
                       UpdateSearchVector, Complete, Die
  <1>4. QED
    BY <1>1, <1>2, <1>3, Frames DEF listVars

LEMMA InitType == PagesInit => PagesTypeOK
  <1> SUFFICES ASSUME PagesInit PROVE PagesTypeOK
    OBVIOUS
  <1>1. CacheOK
    <2>1. DOMAIN cache = {} /\ cache = [l \in {} |-> cache[l]]
      BY DEF PagesInit
    <2>2. QED
      BY <2>1 DEF CacheOK
  <1>2. IndexOK
    <2>1. DOMAIN rows = {} /\ rows = [l \in {} |-> rows[l]]
      BY DEF PagesInit
    <2>2. QED
      BY <2>1, FS_EmptySet DEF IndexOK, PagesInit
  <1>3. ContentOK
    BY LongestFacts DEF ContentOK, PagesInit
  <1>4. QED
    BY <1>1, <1>2, <1>3, TypeParts, ConstantAssumption DEF PagesInit, AuditOK

\* Each step is one of a request, of time, of the content, of the audit, or of a
\* command of the index.
LEMMA NextCases ==
  ASSUME PagesTypeOK, [PagesNext]_pagesVars
  PROVE  \/ \E w \in Visitor : (\E l \in Layer : Visit(w, l)) \/ StoreItems(w) \/ Store(w)
         \/ Tick
         \/ \/ \E state \in {"none", "private", "public"} : EditAlbum(state)
            \/ \E version \in 0..2 : DeployPost(version)
         \/ RunLighthouseAudit \/ RunTool \/ StoreAudit
         \/ \E c \in Command : IndexStep(c)
         \/ UNCHANGED pagesVars
  BY Visits DEF PagesNext, IndexStep

LEMMA NextType == PagesTypeOK /\ [PagesNext]_pagesVars => PagesTypeOK'
  <1> SUFFICES ASSUME PagesTypeOK, [PagesNext]_pagesVars PROVE PagesTypeOK'
    OBVIOUS
  <1>1. CASE UNCHANGED pagesVars
    BY <1>1, TypeParts, Frames DEF pagesVars, listVars
  <1>2. QED
    BY <1>1, NextCases, VisitType, StoreItemsType, StoreType, TickType, ContentType,
       AuditType, IndexType

\* Every variable of the pages keeps its type: nothing is kept longer than its
\* TTL, and a list holds what its layer can show.
THEOREM PagesTypeCorrect == PagesSpec => []PagesTypeOK
  <1>1. QED
    BY InitType, NextType, PTL DEF PagesSpec

-----------------------------------------------------------------------------
(* Lists catch up.                                                          *)

\* Ticks by which a layer may have been out of date when it was stored: a page is
\* rendered from a list in its last moment.
Slack(l) == IF IsPage(l) THEN TTL[ItemsOf(l)] - 1 ELSE 0

\* A list as it is, or of before a change since when only so many ticks passed.
Since(l, value, ticks) == value = Truth(l) \/ since[Source(l)] <= ticks

\* What is kept was true within its age, and what a request is about to store is
\* true, or a change has come since it was read.
ListsInv ==
  /\ \A l \in DOMAIN cache : Since(l, cache[l].value, cache[l].age + Slack(l))
  /\ \A w \in Visitor : visit[w] # None =>
       Since(visit[w].layer, visit[w].value,
             IF visit[w].step = "items" THEN 0 ELSE Slack(visit[w].layer))

LEMMA SlackFacts ==
  ASSUME NEW l \in Layer
  PROVE  /\ Slack(l) \in Nat /\ Stale(l) = TTL[l] + Slack(l)
         /\ Slack(ItemsOf(l)) = 0 /\ (IsPage(l) => Slack(l) = TTL[ItemsOf(l)] - 1)
  BY LayerFacts DEF Slack, Stale, IsPage

LEMMA TruthFacts ==
  ASSUME NEW l \in Layer
  PROVE  /\ UNCHANGED gallery /\ Source(l) = "gallery" => Truth(l)' = Truth(l)
         /\ UNCHANGED post /\ Source(l) = "post" => Truth(l)' = Truth(l)
         /\ UNCHANGED audits /\ Source(l) = "audits" => Truth(l)' = Truth(l)
         /\ Truth(ItemsOf(l)) = Truth(l)
  <1>1. Source(ItemsOf(l)) = Source(l)
    BY LayerFacts
  <1>2. Truth(ItemsOf(l)) = Truth(l)
    BY <1>1 DEF Truth
  <1>3. UNCHANGED gallery /\ Source(l) = "gallery" => Truth(l)' = Truth(l)
    BY DEF Truth
  <1>4. UNCHANGED post /\ Source(l) = "post" => Truth(l)' = Truth(l)
    BY DEF Truth
  <1>5. UNCHANGED audits /\ Source(l) = "audits" => Truth(l)' = Truth(l)
    BY DEF Truth
  <1>6. QED
    BY <1>2, <1>3, <1>4, <1>5

LEMMA ListsImplies ==
  ASSUME PagesTypeOK, ListsInv
  PROVE  ListsCatchUp
  <1> SUFFICES ASSUME NEW l \in DOMAIN cache, since[Source(l)] >= Stale(l)
               PROVE  cache[l].value = Truth(l)
    BY DEF ListsCatchUp
  <1>1. l \in Layer /\ cache[l].age \in 0..(TTL[l] - 1)
    BY DEF PagesTypeOK
  <1>2. since[Source(l)] \in Nat
    BY <1>1, LayerFacts DEF PagesTypeOK
  <1>3. ~(since[Source(l)] <= cache[l].age + Slack(l))
    BY <1>1, <1>2, SlackFacts, LayerFacts
  <1>4. QED
    BY <1>3 DEF ListsInv, Since

\* A change of content is behind every list of its source, and no other.
LEMMA ListsChange ==
  ASSUME PagesTypeOK, ListsInv, UNCHANGED <<cache, visit>>,
         NEW s \in {"gallery", "post", "audits"}, since' = [since EXCEPT ![s] = 0],
         \A l \in Layer : Source(l) # s => Truth(l)' = Truth(l)
  PROVE  ListsInv'
  <1>1. ASSUME NEW l \in Layer, NEW value, NEW ticks \in Nat, Since(l, value, ticks)
        PROVE  value = Truth(l)' \/ since'[Source(l)] <= ticks
    <2>1. Source(l) \in {"gallery", "post", "audits"}
      BY LayerFacts
    <2>2. CASE Source(l) = s
      BY <2>1, <2>2 DEF PagesTypeOK
    <2>3. CASE Source(l) # s
      <3>1. since'[Source(l)] = since[Source(l)]
        BY <2>1, <2>3 DEF PagesTypeOK
      <3>2. QED
        BY <1>1, <2>3, <3>1 DEF Since
    <2>4. QED
      BY <2>2, <2>3
  <1>2. \A l \in DOMAIN cache' :
          cache'[l].value = Truth(l)' \/ since'[Source(l)] <= cache'[l].age + Slack(l)
    <2> TAKE l \in DOMAIN cache'
    <2>1. l \in Layer /\ l \in DOMAIN cache /\ cache[l].age + Slack(l) \in Nat
      BY SlackFacts DEF PagesTypeOK
    <2>2. Since(l, cache[l].value, cache[l].age + Slack(l))
      BY <2>1 DEF ListsInv
    <2>3. QED
      BY <1>1, <2>1, <2>2
  <1>3. \A w \in Visitor : visit'[w] # None =>
          \/ visit'[w].value = Truth(visit[w].layer)'
          \/ since'[Source(visit'[w].layer)] <=
               IF visit'[w].step = "items" THEN 0 ELSE Slack(visit'[w].layer)
    <2> SUFFICES ASSUME NEW w \in Visitor, visit[w] # None
                 PROVE  \/ visit[w].value = Truth(visit[w].layer)'
                        \/ since'[Source(visit[w].layer)] <=
                             IF visit[w].step = "items" THEN 0 ELSE Slack(visit[w].layer)
      OBVIOUS
    <2> DEFINE ticks == IF visit[w].step = "items" THEN 0 ELSE Slack(visit[w].layer)
    <2>1. visit[w].layer \in Layer
      BY RequestFacts, TypeParts
    <2>2. ticks \in Nat
      BY <2>1, SlackFacts
    <2>3. Since(visit[w].layer, visit[w].value, ticks)
      BY DEF ListsInv
    <2> HIDE DEF ticks
    <2>4. visit[w].value = Truth(visit[w].layer)' \/ since'[Source(visit[w].layer)] <= ticks
      BY <1>1, <2>1, <2>2, <2>3
    <2>5. QED
      BY <2>4 DEF ticks
  <1>4. QED
    BY <1>2, <1>3 DEF ListsInv, Since, Slack, IsPage, ItemsOf, Source

\* Without a change of content, lists that were true at these ages still are.
LEMMA ListsKept ==
  ASSUME UNCHANGED <<gallery, post, audits, since>>,
         \A l \in DOMAIN cache' : Since(l, cache'[l].value, cache'[l].age + Slack(l)),
         \A w \in Visitor : visit'[w] # None =>
            Since(visit'[w].layer, visit'[w].value,
                  IF visit'[w].step = "items" THEN 0 ELSE Slack(visit'[w].layer))
  PROVE  ListsInv'
  BY DEF ListsInv, Since, Truth

LEMMA VisitLists ==
  ASSUME PagesTypeOK, ListsInv, NEW w \in Visitor, NEW l \in Layer, Visit(w, l)
  PROVE  ListsInv'
  <1>1. UNCHANGED <<cache, gallery, post, audits, since>>
    BY VisitFacts
  <1>2. ASSUME NEW value, NEW step \in {"items", "store"},
               visit' = [visit EXCEPT ![w] = [layer |-> l, value |-> value, step |-> step]],
               Since(l, value, IF step = "items" THEN 0 ELSE Slack(l))
        PROVE  \A v \in Visitor : visit'[v] # None =>
                 Since(visit'[v].layer, visit'[v].value,
                       IF visit'[v].step = "items" THEN 0 ELSE Slack(visit'[v].layer))
    BY <1>2 DEF ListsInv, PagesTypeOK
  <1>3. \A v \in Visitor : visit'[v] # None =>
          Since(visit'[v].layer, visit'[v].value,
                IF visit'[v].step = "items" THEN 0 ELSE Slack(visit'[v].layer))
    <2>1. CASE UNCHANGED visit
      BY <2>1 DEF ListsInv
    <2>2. CASE /\ IsPage(l) /\ ItemsOf(l) \in DOMAIN cache
               /\ visit' = [visit EXCEPT ![w] = [layer |-> l, value |-> cache[ItemsOf(l)].value,
                                                 step |-> "store"]]
      <3>1. PICK k : k = ItemsOf(l)
        OBVIOUS
      <3>2. /\ k \in Layer /\ Source(k) = Source(l) /\ Slack(k) = 0 /\ Truth(k) = Truth(l)
            /\ Slack(l) = TTL[k] - 1
        BY <2>2, <3>1, LayerFacts, SlackFacts, TruthFacts
      <3>3. Since(k, cache[k].value, cache[k].age + Slack(k)) /\ cache[k].age \in 0..(TTL[k] - 1)
        BY <2>2, <3>1 DEF ListsInv, PagesTypeOK
      <3>4. since[Source(l)] \in Nat /\ TTL[k] \in Nat
        BY <3>2, LayerFacts DEF PagesTypeOK
      <3>5. Since(l, cache[k].value, Slack(l))
        BY <3>2, <3>3, <3>4 DEF Since
      <3>6. QED
        BY <1>2, <2>2, <3>1, <3>5
    <2>3. CASE visit' = [visit EXCEPT ![w] = [layer |-> l, value |-> Truth(l),
                                              step |-> IF IsPage(l) THEN "items" ELSE "store"]]
      <3>1. \A ticks : Since(l, Truth(l), ticks)
        BY DEF Since
      <3>2. QED
        BY <1>2, <2>3, <3>1
    <2>4. QED
      BY <2>1, <2>2, <2>3, VisitFacts
  <1>4. QED
    BY <1>1, <1>3, ListsKept DEF ListsInv

LEMMA StoreItemsLists ==
  ASSUME PagesTypeOK, ListsInv, NEW w \in Visitor, StoreItems(w)
  PROVE  ListsInv'
  <1> DEFINE l == visit[w].layer
             k == ItemsOf(l)
             v == visit[w].value
  <1>1. /\ l \in Layer /\ v \in ValueOf(k) /\ k \in Layer
        /\ [visit[w] EXCEPT !.step = "store"].layer = l
        /\ [visit[w] EXCEPT !.step = "store"].value = v
        /\ [visit[w] EXCEPT !.step = "store"].step = "store"
    BY RequestFacts, ValueFacts, LayerFacts, TypeParts DEF StoreItems
  <1>2. Since(l, v, 0)
    BY DEF StoreItems, ListsInv
  <1>3. Source(k) = Source(l) /\ Truth(k) = Truth(l) /\ Slack(k) = 0 /\ Slack(l) \in Nat
        /\ since[Source(l)] \in Nat
    BY <1>1, LayerFacts, TruthFacts, SlackFacts DEF PagesTypeOK
  <1>4. Since(k, v, 0 + Slack(k)) /\ Since(l, v, Slack(l))
    BY <1>2, <1>3 DEF Since
  <1>5. /\ DOMAIN cache' = DOMAIN cache \cup {k}
        /\ cache'[k] = [value |-> v, age |-> 0]
        /\ \A j \in DOMAIN cache : j # k => cache'[j] = cache[j]
    BY <1>1, PutFacts, TypeParts DEF StoreItems
  <1>6. visit' = [visit EXCEPT ![w] = [visit[w] EXCEPT !.step = "store"]]
        /\ UNCHANGED <<gallery, post, audits, since>>
    BY DEF StoreItems, Answer
  <1>7. \A j \in DOMAIN cache' : Since(j, cache'[j].value, cache'[j].age + Slack(j))
    BY <1>4, <1>5 DEF ListsInv
  <1>8. \A u \in Visitor : visit'[u] # None =>
          Since(visit'[u].layer, visit'[u].value,
                IF visit'[u].step = "items" THEN 0 ELSE Slack(visit'[u].layer))
    <2> SUFFICES ASSUME NEW u \in Visitor, visit'[u] # None
                 PROVE  Since(visit'[u].layer, visit'[u].value,
                          IF visit'[u].step = "items" THEN 0 ELSE Slack(visit'[u].layer))
      OBVIOUS
    <2>1. CASE u = w
      <3>1. visit'[u] = [visit[w] EXCEPT !.step = "store"]
        BY <1>6, <2>1 DEF PagesTypeOK
      <3>2. QED
        BY <1>1, <1>4, <3>1
    <2>2. CASE u # w
      BY <1>6, <2>2 DEF ListsInv, PagesTypeOK
    <2>3. QED
      BY <2>1, <2>2
  <1>9. QED
    BY <1>6, <1>7, <1>8, ListsKept

LEMMA StoreLists ==
  ASSUME PagesTypeOK, ListsInv, NEW w \in Visitor, Store(w)
  PROVE  ListsInv'
  <1> DEFINE l == visit[w].layer
             v == visit[w].value
  <1>1. l \in Layer /\ v \in ValueOf(l)
    BY RequestFacts, TypeParts DEF Store
  <1>2. Since(l, v, Slack(l))
    BY DEF Store, ListsInv
  <1>3. Slack(l) \in Nat
    BY <1>1, SlackFacts
  <1>4. visit' = [visit EXCEPT ![w] = None] /\ UNCHANGED <<gallery, post, audits, since>>
    BY DEF Store, Answer
  <1>5. \A j \in DOMAIN cache' : Since(j, cache'[j].value, cache'[j].age + Slack(j))
    <2>1. CASE UNCHANGED cache
      BY <2>1 DEF ListsInv
    <2>2. CASE Put(l, v)
      <3>1. /\ DOMAIN cache' = DOMAIN cache \cup {l}
            /\ cache'[l] = [value |-> v, age |-> 0]
            /\ \A j \in DOMAIN cache : j # l => cache'[j] = cache[j]
        BY <1>1, <2>2, PutFacts, TypeParts
      <3>2. Since(l, v, 0 + Slack(l))
        BY <1>2, <1>3
      <3>3. QED
        BY <3>1, <3>2 DEF ListsInv
    <2>3. QED
      BY <2>1, <2>2 DEF Store
  <1>6. \A u \in Visitor : visit'[u] # None => u # w /\ visit'[u] = visit[u]
    BY <1>4 DEF PagesTypeOK
  <1>7. QED
    BY <1>4, <1>5, <1>6, ListsKept DEF ListsInv

\* Lists age as fast as the time since a change passes.
LEMMA TickLists ==
  ASSUME PagesTypeOK, ListsInv, Tick
  PROVE  ListsInv'
  <1>1. ASSUME NEW l \in DOMAIN cache'
        PROVE  cache'[l].value = Truth(l) \/ since'[Source(l)] <= cache'[l].age + Slack(l)
    <2>1. /\ l \in DOMAIN cache /\ l \in Layer
          /\ cache'[l].value = cache[l].value /\ cache'[l].age = cache[l].age + 1
          /\ cache[l].age \in Nat
      BY TickFacts DEF PagesTypeOK
    <2>2. Source(l) \in {"gallery", "post", "audits"} /\ Slack(l) \in Nat
      BY <2>1, LayerFacts, SlackFacts
    <2>3. since[Source(l)] \in Nat /\ since'[Source(l)] \in Nat
          /\ since'[Source(l)] <= since[Source(l)] + 1
      BY <2>2, TickFacts DEF PagesTypeOK
    <2>4. cache[l].value = Truth(l) \/ since[Source(l)] <= cache[l].age + Slack(l)
      BY <2>1 DEF ListsInv, Since
    <2>5. QED
      BY <2>1, <2>2, <2>3, <2>4
  <1>2. UNCHANGED <<gallery, post, audits>> /\ \A w \in Visitor : visit'[w] = None
    BY DEF Tick
  <1>3. QED
    BY <1>1, <1>2 DEF ListsInv, Since, Truth

LEMMA ContentLists ==
  ASSUME PagesTypeOK, ListsInv,
         \/ \E state \in {"none", "private", "public"} : EditAlbum(state)
         \/ \E version \in 0..2 : DeployPost(version)
         \/ RunLighthouseAudit \/ RunTool \/ StoreAudit
  PROVE  ListsInv'
  <1>1. ASSUME NEW state \in {"none", "private", "public"}, EditAlbum(state)
        PROVE  ListsInv'
    <2>1. \A l \in Layer : Source(l) # "gallery" => Truth(l)' = Truth(l)
      BY <1>1, TruthFacts, LayerFacts DEF EditAlbum
    <2>2. QED
      BY <1>1, <2>1, ListsChange DEF EditAlbum, Changed
  <1>2. ASSUME NEW version \in 0..2, DeployPost(version)
        PROVE  ListsInv'
    <2>1. \A l \in Layer : Source(l) # "post" => Truth(l)' = Truth(l)
      BY <1>2, TruthFacts, LayerFacts DEF DeployPost
    <2>2. QED
      BY <1>2, <2>1, ListsChange DEF DeployPost, Changed
  <1>3. CASE UNCHANGED <<gallery, post, audits, listVars>>
    BY <1>3, ListsKept DEF listVars, ListsInv
  <1>4. CASE StoreAudit /\ Changed("audits")
    <2>1. \A l \in Layer : Source(l) # "audits" => Truth(l)' = Truth(l)
      BY <1>4, TruthFacts, LayerFacts DEF StoreAudit
    <2>2. QED
      BY <1>4, <2>1, ListsChange DEF StoreAudit, Changed
  <1>5. RunLighthouseAudit \/ RunTool \/ StoreAudit =>
          \/ UNCHANGED <<gallery, post, audits, listVars>>
          \/ StoreAudit /\ Changed("audits")
    BY DEF RunLighthouseAudit, RunTool, StoreAudit, listVars
  <1>6. QED
    BY <1>1, <1>2, <1>3, <1>4, <1>5

LEMMA NextLists == PagesTypeOK /\ ListsInv /\ [PagesNext]_pagesVars => ListsInv'
  <1> SUFFICES ASSUME PagesTypeOK, ListsInv, [PagesNext]_pagesVars PROVE ListsInv'
    OBVIOUS
  <1>1. CASE UNCHANGED <<gallery, post, audits, listVars>>
    BY <1>1, ListsKept DEF listVars, ListsInv
  <1>2. (\E c \in Command : IndexStep(c)) \/ UNCHANGED pagesVars
          => UNCHANGED <<gallery, post, audits, listVars>>
    BY DEF IndexStep, RebuildSearchIndex, RebuildGallery, Find, Insert, UpdateSearchVector,
           Complete, Die, pagesVars
  <1>3. QED
    BY <1>1, <1>2, NextCases, VisitLists, StoreItemsLists, StoreLists, TickLists, ContentLists

\* Whatever is kept of an album, a post or an audit that changed follows once its
\* list has expired, and a sitemap's page once both have: no visit, task or audit
\* in any order makes a list older than that.
THEOREM ListsFollow == PagesSpec => []ListsCatchUp
  <1>1. PagesInit => ListsInv
    BY DEF PagesInit, ListsInv
  <1>2. QED
    BY <1>1, InitType, NextType, NextLists, ListsImplies, PTL DEF PagesSpec

-----------------------------------------------------------------------------
(* The index is whole.                                                      *)

AtVector(c, i) == Doing(c, "vector") /\ command[c].row = i

\* An item has one row, and whoever is to insert it has no rival, unless two had
\* looked for it at once; a post is found by its words unless its vector is due.
IndexInv ==
  /\ \A i, j \in DOMAIN rows : rows[i].item = rows[j].item => i = j \/ rows[i].item \in twins
  /\ \A c \in Command : Doing(c, "insert") =>
        \/ Part(c) \in twins
        \/ /\ \A i \in DOMAIN rows : rows[i].item # Part(c)
           /\ \A d \in Command : Doing(d, "insert") /\ Part(d) = Part(c) => d = c
  /\ \A i \in DOMAIN rows : rows[i].content # rows[i].vector =>
        i \in cut \/ \E c \in Command : AtVector(c, i)

LEMMA SearchFacts ==
  ASSUME NEW i \in DOMAIN rows
  PROVE  i \notin SearchView(rows[i].content, "all") /\ i \in SearchView(None, "all")
           => rows[i].content # rows[i].vector
  BY DEF SearchView, SearchBlogPosts, SearchProjects, SearchBooks, RowsOf

LEMMA IndexImplies ==
  ASSUME PagesTypeOK, IndexInv
  PROVE  IndexIsWhole
  <1> SUFFICES ASSUME NEW i \in SearchView(None, "all")
               PROVE  /\ Cardinality(RowsOf(rows[i].item)) > 1 => rows[i].item \in twins
                      /\ i \notin SearchView(rows[i].content, "all") =>
                           i \in cut \/ \E c \in Command : Doing(c, "vector") /\ command[c].row = i
    BY DEF IndexIsWhole
  <1>1. i \in DOMAIN rows
    BY DEF SearchView, SearchBlogPosts, SearchProjects, SearchBooks, RowsOf
  <1>2. ASSUME rows[i].item \notin twins
        PROVE  Cardinality(RowsOf(rows[i].item)) = 1
    <2>1. RowsOf(rows[i].item) = {i}
      BY <1>1, <1>2 DEF IndexInv, RowsOf
    <2>2. QED
      BY <2>1, FS_Singleton
  <1>3. QED
    BY <1>1, <1>2, SearchFacts DEF IndexInv, AtVector

\* The other commands are where they were.
LEMMA OthersStay ==
  ASSUME NEW c \in Command, \A d \in Command \ {c} : command'[d] = command[d],
         NEW d \in Command \ {c}
  PROVE  /\ \A s : Doing(d, s)' <=> Doing(d, s)
         /\ Part(d)' = Part(d) /\ \A i : AtVector(d, i)' <=> AtVector(d, i)
  BY DEF Doing, Part, AtVector

LEMMA InsertIndex ==
  ASSUME IndexOK, IndexInv, NEW c \in Command, Insert(c)
  PROVE  IndexInv'
  <1>1. PICK n : n = NewId
    OBVIOUS
  <1>2. PICK p : p = Part(c)
    OBVIOUS
  <1>3. /\ DOMAIN rows' = DOMAIN rows \cup {n} /\ n \notin DOMAIN rows
        /\ rows'[n].item = p /\ \A i \in DOMAIN rows : rows'[i] = rows[i]
    <2>1. rows'[n] = [item |-> p, content |-> ContentOf(c), vector |-> 0]
      BY <1>1, <1>2, InsertFacts
    <2>2. rows'[n].item = p
      BY <2>1
    <2>3. DOMAIN rows' = DOMAIN rows \cup {n} /\ n \notin DOMAIN rows
      BY <1>1, InsertFacts
    <2>4. \A i \in DOMAIN rows : rows'[i] = rows[i]
      BY InsertFacts
    <2>5. QED
      BY <2>2, <2>3, <2>4
  <1>4. Doing(c, "insert") /\ UNCHANGED <<twins, cut>>
    BY DEF Insert
  <1>5. command' = [command EXCEPT ![c] = [command[c] EXCEPT !.step = "vector", !.row = n]]
    BY <1>1 DEF Insert, Go
  <1>6. command[c] \in Rebuild /\ [command[c] EXCEPT !.step = "vector", !.row = n] \in Rebuild
    BY <1>1, <1>4, DoingFacts, NewIdFacts
  <1>7. AtVector(c, n)' /\ ~Doing(c, "insert")'
    <2>1. command'[c] = [command[c] EXCEPT !.step = "vector", !.row = n]
      BY <1>5 DEF IndexOK
    <2>2. command'[c].step = "vector" /\ command'[c].row = n
          /\ command'[c].todo = command[c].todo /\ command'[c] # None
      BY <1>6, <2>1, ConstantAssumption DEF Rebuild
    <2>3. QED
      BY <1>4, <2>2 DEF AtVector, Doing
  <1>8. \A d \in Command \ {c} : command'[d] = command[d]
    BY <1>5
  <1>9. /\ p \in twins \/ \A i \in DOMAIN rows : rows[i].item # p
        /\ \A d \in Command \ {c} : Doing(d, "insert") /\ Part(d) = p => p \in twins
    BY <1>2, <1>4 DEF IndexInv
  <1>10. \A i, j \in DOMAIN rows' :
           rows'[i].item = rows'[j].item => i = j \/ rows'[i].item \in twins'
    BY <1>3, <1>4, <1>9 DEF IndexInv
  <1>11. \A d \in Command : Doing(d, "insert")' =>
           \/ Part(d)' \in twins'
           \/ /\ \A i \in DOMAIN rows' : rows'[i].item # Part(d)'
              /\ \A e \in Command : Doing(e, "insert")' /\ Part(e)' = Part(d)' => e = d
    <2> SUFFICES ASSUME NEW d \in Command \ {c}, Doing(d, "insert"), Part(d) \notin twins
                 PROVE  /\ \A i \in DOMAIN rows' : rows'[i].item # Part(d)
                        /\ \A e \in Command \ {c} :
                              Doing(e, "insert") /\ Part(e) = Part(d) => e = d
      BY <1>4, <1>7, <1>8, OthersStay
    <2>1. Part(d) # p
      BY <1>9
    <2>2. /\ \A i \in DOMAIN rows : rows[i].item # Part(d)
          /\ \A e \in Command : Doing(e, "insert") /\ Part(e) = Part(d) => e = d
      BY DEF IndexInv
    <2>3. QED
      BY <1>3, <2>1, <2>2
  <1>12. \A i \in DOMAIN rows' : rows'[i].content # rows'[i].vector =>
           i \in cut' \/ \E d \in Command : AtVector(d, i)'
    <2> SUFFICES ASSUME NEW i \in DOMAIN rows', rows'[i].content # rows'[i].vector, i \notin cut
                 PROVE  \E d \in Command : AtVector(d, i)'
      BY <1>4
    <2>1. CASE i = n
      BY <1>7, <2>1
    <2>2. CASE i # n
      <3>1. PICK d \in Command : AtVector(d, i)
        BY <1>3, <2>2 DEF IndexInv
      <3>2. d # c
        BY <1>4, <3>1 DEF AtVector, Doing
      <3>3. QED
        BY <1>8, <3>1, <3>2, OthersStay
    <2>3. QED
      BY <2>1, <2>2
  <1>13. QED
    BY <1>10, <1>11, <1>12 DEF IndexInv

LEMMA FindIndex ==
  ASSUME IndexOK, IndexInv, NEW c \in Command, Find(c)
  PROVE  IndexInv'
  <1>1. PICK p : p = Part(c)
    OBVIOUS
  <1>2. /\ DOMAIN rows' = DOMAIN rows /\ twins \subseteq twins' /\ UNCHANGED cut
        /\ \A i \in DOMAIN rows : rows'[i].item = rows[i].item /\ rows'[i].vector = rows[i].vector
    BY FindFacts DEF Find
  <1>3. Doing(c, "find") /\ ~Doing(c, "insert") /\ \A i : ~AtVector(c, i)
    BY DEF Find, Doing, AtVector
  <1>4. \A d \in Command \ {c} : command'[d] = command[d]
    BY DEF Find, Go, Onward, IndexOK
  <1>5. command[c] \in Rebuild /\ command[c].todo # <<>>
    BY <1>3, DoingFacts DEF Doing
  <1>6. \A i, j \in DOMAIN rows' :
           rows'[i].item = rows'[j].item => i = j \/ rows'[i].item \in twins'
    BY <1>2 DEF IndexInv
  <1>7. ASSUME UNCHANGED rows, RowsOf(p) = {},
               command' = [command EXCEPT ![c] = [command[c] EXCEPT !.step = "insert", !.row = 0]]
        PROVE  IndexInv'
    <2>1. command'[c] = [command[c] EXCEPT !.step = "insert", !.row = 0]
      BY <1>7 DEF IndexOK
    <2>2. Part(c)' = p /\ \A i : ~AtVector(c, i)'
      BY <1>1, <1>5, <2>1 DEF Rebuild, Part, AtVector, Doing
    <2>3. \A i \in DOMAIN rows : rows[i].item # p
      BY <1>7 DEF RowsOf
    <2>4. ASSUME NEW d \in Command \ {c}, Doing(d, "insert"), Part(d) = p
          PROVE  p \in twins'
      <3>1. Contended(c)
        BY <1>1, <2>4 DEF Contended
      <3>2. QED
        BY <1>1, <1>7, <3>1 DEF Find
    <2>5. ASSUME NEW d \in Command, Doing(d, "insert")', Part(d)' \notin twins'
          PROVE  /\ \A i \in DOMAIN rows' : rows'[i].item # Part(d)'
                 /\ \A e \in Command : Doing(e, "insert")' /\ Part(e)' = Part(d)' => e = d
      <3>1. CASE d = c
        BY <1>4, <1>7, <2>2, <2>3, <2>4, <2>5, <3>1, OthersStay
      <3>2. CASE d # c
        <4>1. Doing(d, "insert") /\ Part(d)' = Part(d) /\ Part(d) \notin twins
          BY <1>2, <1>4, <2>5, <3>2, OthersStay
        <4>2. Part(d) # p
          BY <2>4, <2>5, <3>2, <4>1
        <4>3. QED
          BY <1>4, <1>7, <2>2, <3>2, <4>1, <4>2, OthersStay DEF IndexInv
      <3>3. QED
        BY <3>1, <3>2
    <2>6. \A i \in DOMAIN rows' : rows'[i].content # rows'[i].vector =>
             i \in cut' \/ \E d \in Command : AtVector(d, i)'
      <3>1. \A i : \A d \in Command : AtVector(d, i) => AtVector(d, i)'
        BY <1>3, <1>4, OthersStay
      <3>2. QED
        BY <1>2, <1>7, <3>1 DEF IndexInv
    <2>7. QED
      BY <1>6, <2>5, <2>6 DEF IndexInv
  <1>8. ASSUME ~Doing(c, "insert")',
               \A i \in DOMAIN rows : rows'[i] = rows[i] \/ AtVector(c, i)'
        PROVE  IndexInv'
    <2>1. ASSUME NEW d \in Command, Doing(d, "insert")', Part(d)' \notin twins'
          PROVE  /\ \A i \in DOMAIN rows' : rows'[i].item # Part(d)'
                 /\ \A e \in Command : Doing(e, "insert")' /\ Part(e)' = Part(d)' => e = d
      <3>1. d # c
        BY <1>8, <2>1
      <3>2. Doing(d, "insert") /\ Part(d)' = Part(d) /\ Part(d) \notin twins
        BY <1>2, <1>4, <2>1, <3>1, OthersStay
      <3>3. /\ \A i \in DOMAIN rows : rows[i].item # Part(d)
            /\ \A e \in Command : Doing(e, "insert") /\ Part(e) = Part(d) => e = d
        BY <3>2 DEF IndexInv
      <3>4. \A e \in Command : Doing(e, "insert")' /\ Part(e)' = Part(d)' => e = d
        BY <1>4, <1>8, <3>2, <3>3, OthersStay
      <3>5. QED
        BY <1>2, <3>2, <3>3, <3>4
    <2>2. \A i \in DOMAIN rows' : rows'[i].content # rows'[i].vector =>
             i \in cut' \/ \E d \in Command : AtVector(d, i)'
      <3>1. \A i : \A d \in Command : AtVector(d, i) => AtVector(d, i)'
        BY <1>3, <1>4, OthersStay
      <3>2. QED
        BY <1>2, <1>8, <3>1 DEF IndexInv
    <2>3. QED
      BY <1>6, <2>1, <2>2 DEF IndexInv
  <1>9. ASSUME NEW i \in DOMAIN rows,
               command' = [command EXCEPT ![c] = [command[c] EXCEPT !.step = "vector", !.row = i]],
               \A j \in DOMAIN rows : j # i => rows'[j] = rows[j]
        PROVE  IndexInv'
    <2>1. command'[c] = [command[c] EXCEPT !.step = "vector", !.row = i] /\ i \in Nat
      BY <1>9 DEF IndexOK
    <2>2. [command[c] EXCEPT !.step = "vector", !.row = i] \in Rebuild
      BY <1>5, <2>1 DEF Rebuild
    <2>3. AtVector(c, i)' /\ ~Doing(c, "insert")'
      BY <1>5, <2>1, <2>2, ConstantAssumption DEF Rebuild, AtVector, Doing
    <2>4. QED
      BY <1>8, <1>9, <2>3
  <1>10. ASSUME UNCHANGED rows,
                \/ command' = [command EXCEPT ![c] = None]
                \/ command' = [command EXCEPT ![c] =
                     [command[c] EXCEPT !.todo = Tail(@), !.step = "find", !.row = 0]]
         PROVE  IndexInv'
    <2>1. \/ command'[c] = None
          \/ command'[c] = [command[c] EXCEPT !.todo = Tail(@), !.step = "find", !.row = 0]
      BY <1>10 DEF IndexOK
    <2>2. [command[c] EXCEPT !.todo = Tail(@), !.step = "find", !.row = 0].step = "find"
      BY <1>5 DEF Rebuild
    <2>3. ~Doing(c, "insert")'
      BY <2>1, <2>2 DEF Doing
    <2>4. QED
      BY <1>8, <1>10, <2>3
  <1>11. QED
    BY <1>1, <1>7, <1>9, <1>10, FindFacts

\* A step that neither adds a row nor looks for one.
LEMMA QuietIndex ==
  ASSUME IndexOK, IndexInv, NEW c \in Command, UNCHANGED twins,
         ~Doing(c, "insert")', \A d \in Command \ {c} : command'[d] = command[d],
         DOMAIN rows' = DOMAIN rows, \A i \in DOMAIN rows : rows'[i].item = rows[i].item,
         \A i \in DOMAIN rows : rows'[i].content # rows'[i].vector =>
            \/ i \in cut'
            \/ rows'[i] = rows[i] /\ ~AtVector(c, i) /\ cut \subseteq cut'
  PROVE  IndexInv'
  <1>1. \A i, j \in DOMAIN rows' :
           rows'[i].item = rows'[j].item => i = j \/ rows'[i].item \in twins'
    BY DEF IndexInv
  <1>2. ASSUME NEW d \in Command, Doing(d, "insert")', Part(d)' \notin twins'
        PROVE  /\ \A i \in DOMAIN rows' : rows'[i].item # Part(d)'
               /\ \A e \in Command : Doing(e, "insert")' /\ Part(e)' = Part(d)' => e = d
    <2>1. d # c
      BY <1>2
    <2>2. Doing(d, "insert") /\ Part(d)' = Part(d)
      BY <1>2, <2>1, OthersStay
    <2>3. /\ \A i \in DOMAIN rows : rows[i].item # Part(d)
          /\ \A e \in Command : Doing(e, "insert") /\ Part(e) = Part(d) => e = d
      BY <1>2, <2>2 DEF IndexInv
    <2>4. \A e \in Command : Doing(e, "insert")' /\ Part(e)' = Part(d)' => e = d
      BY <2>2, <2>3, OthersStay
    <2>5. QED
      BY <2>2, <2>3, <2>4
  <1>3. ASSUME NEW i \in DOMAIN rows', rows'[i].content # rows'[i].vector, i \notin cut'
        PROVE  \E d \in Command : AtVector(d, i)'
    <2>1. i \in DOMAIN rows /\ rows'[i] = rows[i] /\ ~AtVector(c, i) /\ i \notin cut
      BY <1>3
    <2>2. PICK d \in Command : AtVector(d, i)
      BY <1>3, <2>1 DEF IndexInv
    <2>3. d # c
      BY <2>1, <2>2
    <2>4. QED
      BY <2>2, <2>3, OthersStay
  <1>4. QED
    BY <1>1, <1>2, <1>3 DEF IndexInv

LEMMA RebuildIndex ==
  ASSUME IndexOK, IndexInv, post \in 0..2, NEW c \in Command,
         NEW part \in Range(Parts) \cup {"all"}, NEW clear \in BOOLEAN,
         RebuildSearchIndex(c, part, clear)
  PROVE  IndexInv'
  <1>1. /\ command[c] = None /\ command'[c].step = "find" /\ UNCHANGED twins
    BY RebuildFacts
  <1>2. ~Doing(c, "insert")' /\ ~Doing(c, "vector")
    BY <1>1 DEF Doing
  <1>3. ASSUME rows' = <<>>, cut' = {},
               \A d \in Command \ {c} :
                    IF command[d] = None THEN command'[d] = None
                    ELSE command'[d] = [command[d] EXCEPT !.row = 0]
        PROVE  IndexInv'
    <2>1. DOMAIN rows' = {}
      BY <1>3
    <2>2. ASSUME NEW d \in Command, Doing(d, "insert")'
          PROVE  Doing(d, "insert") /\ Part(d)' = Part(d) /\ d # c
      <3>1. d # c
        BY <1>2, <2>2
      <3>2. command[d] # None /\ command'[d] = [command[d] EXCEPT !.row = 0]
            /\ command[d] \in Rebuild
        BY <1>3, <2>2, <3>1 DEF Doing, IndexOK
      <3>3. command'[d].todo = command[d].todo /\ command'[d].step = command[d].step
        BY <3>2 DEF Rebuild
      <3>4. QED
        BY <2>2, <3>1, <3>2, <3>3 DEF Doing, Part
    <2>3. QED
      BY <1>1, <2>1, <2>2 DEF IndexInv
  <1>4. ASSUME UNCHANGED <<rows, cut>>, \A d \in Command \ {c} : command'[d] = command[d]
        PROVE  IndexInv'
    <2>1. \A i : ~AtVector(c, i)
      BY <1>2 DEF AtVector
    <2>2. QED
      BY <1>1, <1>2, <1>4, <2>1, QuietIndex
  <1>5. QED
    BY <1>3, <1>4, RebuildFacts

LEMMA StepIndex ==
  ASSUME PagesTypeOK, IndexInv, NEW c \in Command, IndexStep(c)
  PROVE  IndexInv'
  <1> USE TypeParts
  <1>1. CASE UpdateSearchVector(c)
    <2>1. Doing(c, "vector") /\ command[c] \in Rebuild /\ UNCHANGED <<twins, cut>>
      BY <1>1, DoingFacts DEF UpdateSearchVector
    <2>2. command'[c] = [command[c] EXCEPT !.todo = Tail(@), !.step = "find", !.row = 0]
          /\ \A d \in Command \ {c} : command'[d] = command[d]
      BY <1>1, VectorFacts DEF IndexOK
    <2>3. [command[c] EXCEPT !.todo = Tail(@), !.step = "find", !.row = 0].step = "find"
      BY <2>1 DEF Rebuild
    <2>4. ~Doing(c, "insert")'
      BY <2>2, <2>3 DEF Doing
    <2>5. \A i \in DOMAIN rows : rows'[i].content # rows'[i].vector =>
            rows'[i] = rows[i] /\ ~AtVector(c, i)
      BY <1>1, VectorFacts DEF AtVector
    <2>6. QED
      BY <1>1, <2>1, <2>2, <2>4, <2>5, VectorFacts, QuietIndex
  <1>2. CASE RebuildGallery(c) \/ Complete(c) \/ Die(c)
    <2>1. command'[c] = None \/ command'[c].step = "find"
      <3>1. CASE command' = [command EXCEPT ![c] = None]
        BY <3>1 DEF IndexOK
      <3>2. CASE /\ Doing(c, "find")
                 /\ command' = [command EXCEPT ![c] =
                     [command[c] EXCEPT !.todo = Tail(@), !.step = "find", !.row = 0]]
        <4>1. command'[c] = [command[c] EXCEPT !.todo = Tail(@), !.step = "find", !.row = 0]
          BY <3>2 DEF IndexOK
        <4>2. [command[c] EXCEPT !.todo = Tail(@), !.step = "find", !.row = 0].step = "find"
          BY <3>2, DoingFacts DEF Rebuild
        <4>3. QED
          BY <4>1, <4>2
      <3>3. QED
        BY <1>2, <3>1, <3>2, OtherIndexSteps
    <2>2. ~Doing(c, "insert")'
      BY <2>1 DEF Doing
    <2>3. \A d \in Command \ {c} : command'[d] = command[d]
      BY <1>2, OtherIndexSteps DEF IndexOK
    <2>4. UNCHANGED <<rows, twins>> /\ cut \subseteq cut'
          /\ \A i : AtVector(c, i) => i \in cut'
      BY <1>2, OtherIndexSteps DEF AtVector
    <2>5. QED
      BY <2>2, <2>3, <2>4, QuietIndex
  <1>3. QED
    BY <1>1, <1>2, InsertIndex, FindIndex, RebuildIndex DEF IndexStep, ContentOK

LEMMA NextIndex == PagesTypeOK /\ IndexInv /\ [PagesNext]_pagesVars => IndexInv'
  <1> SUFFICES ASSUME PagesTypeOK, IndexInv, [PagesNext]_pagesVars PROVE IndexInv'
    OBVIOUS
  <1>1. CASE UNCHANGED indexVars
    BY <1>1 DEF indexVars, IndexInv, Doing, Part, AtVector
  <1>2. CASE UNCHANGED pagesVars
    BY <1>1, <1>2 DEF pagesVars, indexVars
  <1>3. ASSUME NEW w \in Visitor, (\E l \in Layer : Visit(w, l)) \/ StoreItems(w) \/ Store(w)
        PROVE  IndexInv'
    BY <1>1, <1>3 DEF Visit, StoreItems, Store
  <1>4. CASE \/ Tick \/ RunLighthouseAudit \/ RunTool \/ StoreAudit
             \/ \E state \in {"none", "private", "public"} : EditAlbum(state)
             \/ \E version \in 0..2 : DeployPost(version)
    BY <1>1, <1>4 DEF Tick, EditAlbum, DeployPost, RunLighthouseAudit, RunTool, StoreAudit
  <1>5. QED
    BY <1>2, <1>3, <1>4, NextCases, StepIndex

\* The index lists an item once, unless two commands looked for it before either
\* inserted it, and a post is found by its words, unless its vector is still due
\* or its command died.
THEOREM IndexStaysWhole == PagesSpec => []IndexIsWhole
  <1>1. PagesInit => IndexInv
    BY DEF PagesInit, IndexInv, Doing
  <1>2. QED
    BY <1>1, InitType, NextType, NextIndex, IndexImplies, PTL DEF PagesSpec
===============================================================================

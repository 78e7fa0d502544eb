------------------------- MODULE EmailVerification -------------------------
(***************************************************************************)
(* Registering one address for notifications (src/utils).  add_email       *)
(* inserts a row for the address and queues a message with a link that     *)
(* names the row; send_email transmits the message and then records that   *)
(* it did; verify_email loads the row and saves the instance back;         *)
(* delete_email and unsubscribe load it and delete it.                     *)
(*                                                                         *)
(* A row is known by its number, never used again for another row, and so  *)
(* is the one message written when the row is inserted.  The address is    *)
(* unique, so at most one row exists.  Saving an instance whose row is     *)
(* gone inserts it again, as Django's Model.save does.                     *)
(***************************************************************************)
EXTENDS Integers

CONSTANTS
    User,         \* users who may register the address
    Web,          \* requests that may be half done at the same time
    NoRow,        \* the address is not registered
    MaxRetries,   \* max_retries of send_email
    MaxRows,      \* bound: rows inserted for the address
    MaxRequests,  \* bound: requests
    MaxFaults     \* bound: faults

ASSUME BoundAssumption ==
    /\ MaxRetries \in Nat /\ MaxRows \in Nat
    /\ MaxRequests \in Nat /\ MaxFaults \in Nat

Id == 1..MaxRows

Address == [id : Id, owner : User, verified : BOOLEAN]

ASSUME NoRowAssumption == NoRow \notin Address

VARIABLES
    addr,         \* the row of the address, or NoRow
    issued,       \* rows inserted so far
    config,       \* NotificationConfig: emails on, off, or no row at all
    web,          \* web[w]: what a request goes on to do
    inst,         \* inst[w]: the instance it holds
    pc,           \* pc[i]: how far the task that sends message i has come
    tries,        \* tries[i]: its retries
    sent,         \* sent[i]: the message is recorded as sent
    delivered,    \* history: how often message i went out
    interrupted,  \* history: runs cut off between transmitting i and recording it
    lost,         \* history: message i will not go out: refused, swallowed, given up
    requests,     \* requests so far
    faults        \* faults so far

webVars == <<web, inst, requests>>
mailVars == <<pc, tries, sent, delivered, interrupted, lost>>
vars == <<addr, issued, config, webVars, mailVars, faults>>

Row(w) == inst[w].id

-----------------------------------------------------------------------------
(* Requests.                                                                *)

CountRequest == requests < MaxRequests /\ requests' = requests + 1

CountFault == faults < MaxFaults /\ faults' = faults + 1

\* A request takes an instance, and has a second step to do with it.
Hold(w, kind, row) ==
    /\ web[w] = "idle"
    /\ web' = [web EXCEPT ![w] = kind]
    /\ inst' = [inst EXCEPT ![w] = row]

Release(w) ==
    /\ web' = [web EXCEPT ![w] = "idle"]
    /\ inst' = [inst EXCEPT ![w] = NoRow]
    /\ UNCHANGED requests

\* add_email inserts the row.  When the user has it already nothing happens, and
\* when another user has it the insertion fails.
AddEmail(w, u) ==
    /\ CountRequest
    /\ addr = NoRow
    /\ issued < MaxRows
    /\ issued' = issued + 1
    /\ addr' = [id |-> issued + 1, owner |-> u, verified |-> FALSE]
    /\ Hold(w, "mail", addr')
    /\ UNCHANGED <<config, mailVars, faults>>

\* create_verification_message: the message is written and its task queued, or
\* the request fails before that.
CreateVerificationMessage(w) ==
    /\ web[w] = "mail"
    /\ Release(w)
    /\ \/ /\ pc' = [pc EXCEPT ![Row(w)] = "queued"]
          /\ UNCHANGED <<lost, faults>>
       \/ /\ CountFault
          /\ lost' = [lost EXCEPT ![Row(w)] = TRUE]
          /\ UNCHANGED pc
    /\ UNCHANGED <<addr, issued, config, tries, sent, delivered, interrupted>>

\* Mutant: the code of any message that went out is accepted.
LoadWithAnyCode(w) ==
    /\ CountRequest
    /\ addr # NoRow
    /\ \E i \in Id : delivered[i] > 0
    /\ Hold(w, "verify", addr)
    /\ UNCHANGED <<addr, issued, config, mailVars, faults>>

\* verify_email loads the row that the link names, and the code matches: the
\* reader has the message that was written for it.
LoadForVerification(w) ==
    /\ CountRequest
    /\ addr # NoRow
    /\ delivered[addr.id] > 0
    /\ Hold(w, "verify", addr)
    /\ UNCHANGED <<addr, issued, config, mailVars, faults>>

\* The whole instance is saved: over its row, or as a row again when its row is
\* gone.  The insertion fails when the address has another row by now.
SaveVerified(w) ==
    /\ web[w] = "verify"
    /\ Release(w)
    /\ addr' = IF addr = NoRow \/ addr.id = Row(w)
               THEN [inst[w] EXCEPT !.verified = TRUE]
               ELSE addr
    /\ UNCHANGED <<issued, config, mailVars, faults>>

\* delete_email and unsubscribe load the row ...
LoadForRemoval(w) ==
    /\ CountRequest
    /\ addr # NoRow
    /\ Hold(w, "remove", addr)
    /\ UNCHANGED <<addr, issued, config, mailVars, faults>>

\* ... and delete the row with its number, if there still is one.
RemoveAddress(w) ==
    /\ web[w] = "remove"
    /\ Release(w)
    /\ IF addr # NoRow /\ addr.id = Row(w)
       THEN addr' = NoRow
       ELSE UNCHANGED addr
    /\ UNCHANGED <<issued, config, mailVars, faults>>

\* The admin edits, adds or deletes the configuration.
Configure(c) ==
    /\ CountRequest
    /\ config' = c
    /\ UNCHANGED <<addr, issued, web, inst, mailVars, faults>>

-----------------------------------------------------------------------------
(* send_email.                                                              *)

\* The task ends.  A message not sent by now will never be.
EndTask(i) ==
    /\ pc' = [pc EXCEPT ![i] = "none"]
    /\ lost' = [lost EXCEPT ![i] = @ \/ ~sent[i]]

\* Mutant: a message that was sent is sent again.
LoadUnlessOff(i) ==
    /\ pc[i] = "queued"
    /\ config # "absent"
    /\ IF config = "off"
       THEN EndTask(i)
       ELSE pc' = [pc EXCEPT ![i] = "loaded"] /\ UNCHANGED lost
    /\ UNCHANGED <<addr, issued, config, webVars, tries, sent, delivered, interrupted>>
    /\ UNCHANGED faults

\* The task begins, unless emails are disabled or the message was sent.
LoadEmail(i) ==
    /\ pc[i] = "queued"
    /\ config # "absent"
    /\ IF config = "off" \/ sent[i]
       THEN EndTask(i)
       ELSE pc' = [pc EXCEPT ![i] = "loaded"] /\ UNCHANGED lost
    /\ UNCHANGED <<addr, issued, config, webVars, tries, sent, delivered, interrupted>>
    /\ UNCHANGED faults

\* send_mail with fail_silently: the message goes out, or an error is swallowed.
Transmit(i) ==
    /\ pc[i] = "loaded"
    /\ pc' = [pc EXCEPT ![i] = "transmitted"]
    /\ \/ /\ delivered' = [delivered EXCEPT ![i] = @ + 1]
          /\ UNCHANGED <<lost, faults>>
       \/ /\ CountFault
          /\ lost' = [lost EXCEPT ![i] = TRUE]
          /\ UNCHANGED delivered
    /\ UNCHANGED <<addr, issued, config, webVars, tries, sent, interrupted>>

SaveSent(i) ==
    /\ pc[i] = "transmitted"
    /\ pc' = [pc EXCEPT ![i] = "saved"]
    /\ sent' = [sent EXCEPT ![i] = TRUE]
    /\ UNCHANGED <<addr, issued, config, webVars, tries, delivered, interrupted, lost>>
    /\ UNCHANGED faults

\* The broker hears that the task is done.
Acknowledge(i) ==
    /\ pc[i] = "saved"
    /\ EndTask(i)
    /\ UNCHANGED <<addr, issued, config, webVars, tries, sent, delivered, interrupted>>
    /\ UNCHANGED faults

NoteInterruption(i) ==
    interrupted' = [interrupted EXCEPT ![i] = IF pc[i] = "transmitted" THEN @ + 1 ELSE @]

MayRetry(i) == tries[i] < MaxRetries

\* The task raises, and is retried until max_retries.
RetryOrEnd(i) ==
    /\ NoteInterruption(i)
    /\ \/ /\ MayRetry(i)
          /\ pc' = [pc EXCEPT ![i] = "queued"]
          /\ tries' = [tries EXCEPT ![i] = @ + 1]
          /\ UNCHANGED lost
       \/ /\ ~MayRetry(i)
          /\ EndTask(i)
          /\ UNCHANGED tries
    /\ UNCHANGED <<addr, issued, config, webVars, sent, delivered>>

\* There is no NotificationConfig: reading emails_enabled of None raises.
FailUnconfigured(i) ==
    /\ pc[i] = "queued"
    /\ config = "absent"
    /\ RetryOrEnd(i)
    /\ UNCHANGED faults

\* Rendering the message or saving it raises.
Fail(i) ==
    /\ pc[i] \in {"loaded", "transmitted"}
    /\ CountFault
    /\ RetryOrEnd(i)

\* Mutant: tasks are acknowledged when they start.
CrashLosesTask(i) ==
    /\ pc[i] \in {"loaded", "transmitted", "saved"}
    /\ CountFault
    /\ NoteInterruption(i)
    /\ pc' = [pc EXCEPT ![i] = "none"]
    /\ UNCHANGED <<addr, issued, config, webVars, tries, sent, delivered, lost>>

\* The worker dies, and acks_late delivers the task again.
Crash(i) ==
    /\ pc[i] \in {"loaded", "transmitted", "saved"}
    /\ CountFault
    /\ NoteInterruption(i)
    /\ pc' = [pc EXCEPT ![i] = "queued"]
    /\ UNCHANGED <<addr, issued, config, webVars, tries, sent, delivered, lost>>

-----------------------------------------------------------------------------

Init ==
    /\ addr = NoRow
    /\ issued = 0
    /\ config \in {"on", "off", "absent"}
    /\ web = [w \in Web |-> "idle"]
    /\ inst = [w \in Web |-> NoRow]
    /\ pc = [i \in Id |-> "none"]
    /\ tries = [i \in Id |-> 0]
    /\ sent = [i \in Id |-> FALSE]
    /\ delivered = [i \in Id |-> 0]
    /\ interrupted = [i \in Id |-> 0]
    /\ lost = [i \in Id |-> FALSE]
    /\ requests = 0
    /\ faults = 0

Request(w) ==
    \/ \E u \in User : AddEmail(w, u)
    \/ LoadForVerification(w)
    \/ LoadForRemoval(w)

Respond(w) ==
    \/ CreateVerificationMessage(w)
    \/ SaveVerified(w)
    \/ RemoveAddress(w)

Work(i) ==
    \/ LoadEmail(i)
    \/ FailUnconfigured(i)
    \/ Transmit(i)
    \/ SaveSent(i)
    \/ Acknowledge(i)

Next ==
    \/ \E w \in Web : Request(w) \/ Respond(w)
    \/ \E c \in {"on", "off", "absent"} : Configure(c)
    \/ \E i \in Id : Work(i) \/ Fail(i) \/ Crash(i)

Spec == Init /\ [][Next]_vars

\* Workers run what is queued, and a request that has begun ends.
Fairness ==
    /\ \A i \in Id : WF_vars(Work(i))
    /\ \A w \in Web : WF_vars(Respond(w))

FairSpec == Spec /\ Fairness

-----------------------------------------------------------------------------
(* Properties.                                                              *)

TypeOK ==
    /\ addr \in {NoRow} \cup Address
    /\ issued \in 0..MaxRows
    /\ config \in {"on", "off", "absent"}
    /\ web \in [Web -> {"idle", "mail", "verify", "remove"}]
    /\ inst \in [Web -> {NoRow} \cup Address]
    /\ \A w \in Web : inst[w] = NoRow <=> web[w] = "idle"
    /\ pc \in [Id -> {"none", "queued", "loaded", "transmitted", "saved"}]
    /\ tries \in [Id -> 0..MaxRetries]
    /\ sent \in [Id -> BOOLEAN]
    /\ delivered \in [Id -> Nat]
    /\ interrupted \in [Id -> Nat]
    /\ lost \in [Id -> BOOLEAN]
    /\ requests \in 0..MaxRequests
    /\ faults \in 0..MaxFaults

\* A message goes out twice only when a run was cut off between transmitting it
\* and recording it, though lost acknowledgements and retries run its task again
\* (tasks.py:27-56, settings.py:421).
NoNeedlessDuplicate == \A i \in Id : delivered[i] <= 1 + interrupted[i]

\* An address that waits to be verified has had its message, or will, unless the
\* message was lost in a way that "lost" names (views.py:42-44, tasks.py:29-33).
UnverifiedIsMailed ==
    addr # NoRow /\ ~addr.verified =>
        \/ \E w \in Web : web[w] = "mail" /\ Row(w) = addr.id
        \/ pc[addr.id] # "none"
        \/ delivered[addr.id] > 0
        \/ lost[addr.id]

\* Whoever verified an address had the message written for this registration of
\* it, though addresses are removed and registered again meanwhile, and instances
\* are saved when their row is gone (views.py:96-116).
VerifiedWasMailed ==
    addr # NoRow /\ addr.verified => delivered[addr.id] > 0

\* No request moves a registered address to another user: it is removed first
\* (views.py:42, notification.py:27).
OwnerIsKept ==
    [][addr # NoRow /\ addr' # NoRow => addr'.owner = addr.owner]_vars

\* A queued message goes out, or is lost in a way that "lost" names.
QueuedIsSent == \A i \in Id : pc[i] = "queued" ~> (delivered[i] > 0 \/ lost[i])
=============================================================================

------------------------------- MODULE Uptime -------------------------------
(***************************************************************************)
(* One monitor of ActionsUptime (src/projects/ActionsUptime).  An endpoint *)
(* is checked from the server and from an AWS Lambda region, a workflow by *)
(* its badge and by GitHub's API.  Each check records a status; the owner  *)
(* is notified when it differs from the one before.                        *)
(*                                                                         *)
(* An endpoint's most recent status is the one that started last, a        *)
(* workflow's the one that was created last.  The Lambda function posts    *)
(* its answer to a webhook, and again unless it is answered with 200.      *)
(***************************************************************************)
EXTENDS Integers, Sequences, FiniteSets, SequencesExt

CONSTANTS
    Handler,    \* webhook requests at once
    Null,       \* no status, no request, no notification
    MaxChecks,  \* bound: checks queued
    MaxBusy,    \* bound: checks in progress at once
    MaxFailures \* bound: failures, deaths, deletions

ASSUME UptimeAssumption == {MaxChecks, MaxBusy, MaxFailures} \subseteq Nat

Check == 1..MaxChecks

Outcome == {"success", "failure", "error"}

Checker == {"local", "region", "badge", "api"}

\* A row of EndpointStatus or ActionStatus; start is 0 for the latter.
StatusRow == [check : Check, start : 0..MaxChecks, status : Outcome, checker : Checker]

\* EndpointStatusCheckRequest; pk tells a row from one inserted again.
RequestRow == [check : Check, pk : 0..1, received : BOOLEAN]

\* A check: a task and what it holds.
CheckTask ==
    [checker : Checker, start : 0..MaxChecks, status : Outcome,
     at : {"queued", "fetched", "read", "invoked", "answer", "posted", "accepted", "alert",
           "done"},
     previous : StatusRow \cup {Null}]

\* A request to the webhook, with what the handler has read.
Delivery ==
    [check : Check, at : {"begun", "read", "delete", "alert", "except"},
     row : RequestRow \cup {Null}, previous : StatusRow \cup {Null}]

ASSUME NullAssumption ==
    Null \notin StatusRow \cup RequestRow \cup Delivery /\ Null \notin {"success", "failure"}

VARIABLES
    kind,      \* "endpoint", "public" or "private" (workflows)
    life,      \* "absent" until it is added, "alive", "deleted"
    statuses,  \* its rows in the order of their creation
    checks,    \* the checks queued so far: each a task and what it holds
    requests,  \* rows of EndpointStatusCheckRequest
    web,       \* web[h]: a webhook request in progress, or None
    alert,     \* type of the last Notification, or None
    fetches,   \* fetches begun
    disturbed, \* history: statuses or alerts came out of order, or one failed
    twice,     \* history: checks whose answer was handled twice, or in part
    failures

records == <<statuses, alert, disturbed>>
webhook == <<requests, web, twice>>
uptimeVars == <<kind, life, checks, fetches, records, webhook, failures>>

Fails == failures < MaxFailures /\ failures' = failures + 1

-----------------------------------------------------------------------------
(* Statuses and alerts.                                                     *)

\* get_checker_to_use.
CheckerOf == IF kind = "private" THEN "api" ELSE "badge"

Considered ==
    {i \in DOMAIN statuses : kind # "endpoint" => statuses[i].checker = CheckerOf}

LatestOf ==
    CHOOSE i \in Considered : \A j \in Considered :
        IF kind = "endpoint" THEN statuses[j].start <= statuses[i].start ELSE j <= i

MostRecentStatus == IF Considered = {} THEN Null ELSE statuses[LatestOf]

\* In order, a status is compared with the most recent one, and is younger.
InOrder(row, previous) ==
    /\ MostRecentStatus = previous
    /\ previous = Null \/ kind # "endpoint" \/ previous.start < row.start

Record(c, status, previous) ==
    LET row == [check |-> c, start |-> checks[c].start, status |-> status,
                checker |-> checks[c].checker]
    IN  /\ statuses' = Append(statuses, row)
        /\ disturbed' = (disturbed \/ (row.checker # "api" /\ ~ InOrder(row, previous)))

StatusesOf(c) == {i \in DOMAIN statuses : statuses[i].check = c}

Changed(status, previous) == previous # Null /\ previous.status # status

NotificationType(status) == IF status = "failure" THEN "failure" ELSE "success"

\* send_notification: messages for phones and addresses, then the Notification.
\* The dates of an answer to the webhook are text there, see AlertFails.
SendNotification(c) ==
    /\ StatusesOf(c) # {}
    /\ alert' = NotificationType(checks[c].status)
    /\ disturbed' = (disturbed \/ MostRecentStatus.check # c)

-----------------------------------------------------------------------------
(* The tasks.  One that raises ends: there are no retries, and its message   *)
(* was acknowledged before it began.                                        *)

NewCheck(checker) ==
    [checker |-> checker, at |-> "queued", start |-> 0, status |-> "error", previous |-> Null]

Queue(new) ==
    /\ Len(checks) + Len(new) <= MaxChecks
    /\ LET busy == {c \in DOMAIN checks : checks[c].at \notin {"accepted", "done"}}
       IN  Cardinality(busy) + Len(new) <= MaxBusy
    /\ checks' = checks \o new

\* check_all_endpoints_status_interval and check_all_actions_status_interval.
CheckAllStatusInterval ==
    /\ life = "alive"
    /\ Queue(IF kind = "endpoint" THEN <<NewCheck("local"), NewCheck("region")>>
                                  ELSE <<NewCheck("badge"), NewCheck("api")>>)
    /\ UNCHANGED <<kind, life, fetches, records, webhook, failures>>

\* add_endpoint, and add_action, which queues a first check.
Add ==
    /\ life = "absent" /\ life' = "alive"
    /\ IF kind = "endpoint" THEN UNCHANGED checks ELSE Queue(<<NewCheck("badge")>>)
    /\ UNCHANGED <<kind, fetches, records, webhook, failures>>

At(c, checker, at) == checks[c].checker = checker /\ checks[c].at = at

MoveTo(c, at) == checks' = [checks EXCEPT ![c].at = at]

\* Of a task that ended nothing is left but its rows.
End(c) == checks' = [checks EXCEPT ![c] = [NewCheck(@.checker) EXCEPT !.at = "done"]]

\* check_endpoint_function: the request has a start time and an outcome, or fails
\* before it is sent.  Without a start time, the local task raises.
Fetch(c) ==
    /\ At(c, "local", "queued") \/ At(c, "region", "invoked")
    /\ LET next == IF checks[c].checker = "local" THEN "fetched" ELSE "answer"
       IN  \/ /\ fetches' = fetches + 1
              /\ \E status \in {"success", "failure"} :
                   checks' = [checks EXCEPT ![c].status = status, ![c].start = fetches',
                                            ![c].at = next]
           \/ /\ IF checks[c].checker = "local"
                   THEN End(c)
                   ELSE checks' = [checks EXCEPT ![c].status = "failure", ![c].at = next]
              /\ UNCHANGED fetches
    /\ UNCHANGED <<kind, life, records, webhook, failures>>

\* The badge of a private workflow is not looked at.
Unseen(c) == checks[c].checker = "badge" /\ kind = "private"

\* A task raises when the monitor, or the status to notify about, is gone.
Skip(c) ==
    /\ \/ checks[c].at \in {"queued", "fetched", "read"} /\ (life = "deleted" \/ Unseen(c))
       \/ checks[c].at = "alert" /\ StatusesOf(c) = {}
    /\ End(c)
    /\ UNCHANGED <<kind, life, fetches, records, webhook, failures>>

\* After the fetch for an endpoint, before it for a workflow.
ReadPrevious(c) ==
    /\ At(c, "local", "fetched") \/ At(c, "badge", "queued") \/ At(c, "api", "queued")
    /\ life = "alive"
    /\ checks' = [checks EXCEPT ![c].at = "read", ![c].previous = MostRecentStatus]
    /\ UNCHANGED <<kind, life, fetches, records, webhook, failures>>

\* Mutant: previous is read after the status was created.
NotifyOfCreated(c, status) == FALSE

\* The API's check never notifies.
Notify(c, status) == checks[c].checker # "api" /\ Changed(status, checks[c].previous)

\* get_last_workflow_run_status, badge_status: an exception makes an "error".
CreateStatus(c, status) ==
    /\ checks[c].at = "read" /\ life = "alive" /\ ~ Unseen(c)
    /\ checks[c].checker = "local" => status = checks[c].status
    /\ Record(c, status, checks[c].previous)
    /\ IF Notify(c, status)
         THEN checks' = [checks EXCEPT ![c].at = "alert", ![c].status = status]
         ELSE End(c)
    /\ UNCHANGED <<kind, life, fetches, alert, webhook, failures>>

Alert(c) ==
    /\ checks[c].at = "alert"
    /\ SendNotification(c)
    /\ End(c)
    /\ UNCHANGED <<kind, life, fetches, statuses, webhook, failures>>

\* The worker dies, or the database or the broker refuses something.
TaskFails(c) ==
    /\ checks[c].at \in {"queued", "fetched", "read", "alert"}
    /\ Fails
    /\ End(c)
    /\ disturbed' = (disturbed \/ checks[c].at = "alert")
    /\ UNCHANGED <<kind, life, fetches, statuses, alert, webhook>>

-----------------------------------------------------------------------------
(* The Lambda function and the webhook.                                     *)

\* check_endpoint_status_lambda: the request is committed, then the function
\* invoked, which may fail.
InvokeLambda(c) ==
    /\ At(c, "region", "queued") /\ life = "alive"
    /\ requests' = requests \cup {[check |-> c, pk |-> 0, received |-> FALSE]}
    /\ \/ MoveTo(c, "invoked") /\ UNCHANGED failures
       \/ End(c) /\ Fails
    /\ UNCHANGED <<kind, life, fetches, records, web, twice>>

PostToWebhook(h, c) ==
    /\ At(c, "region", "answer") /\ web[h] = Null
    /\ MoveTo(c, "posted")
    /\ web' = [web EXCEPT ![h] = [check |-> c, at |-> "begun", row |-> Null, previous |-> Null]]
    /\ UNCHANGED <<kind, life, fetches, records, requests, twice, failures>>

\* No 200 arrives, though a handler may be at work: post again, or give up.
PostAgain(c) ==
    /\ At(c, "region", "posted")
    /\ Fails
    /\ MoveTo(c, "answer") \/ MoveTo(c, "done")
    /\ UNCHANGED <<kind, life, fetches, records, webhook>>

Handles(h, at) == web[h] # Null /\ web[h].at = at

Step(h, at) == web' = [web EXCEPT ![h].at = at]

\* The request ends, and tells the function so if that still waits.
Respond(h, at) ==
    /\ web' = [web EXCEPT ![h] = Null]
    /\ IF checks[web[h].check].at = "posted" THEN MoveTo(web[h].check, at) ELSE UNCHANGED checks

OpenRequests(c) == {r \in requests : r.check = c /\ ~ r.received}

LoadRequest(h) ==
    /\ Handles(h, "begun")
    /\ LET c == web[h].check
           others == {g \in Handler \ {h} : web[g] # Null /\ web[g].check = c
                                              /\ web[g].at # "begun"}
       IN  \/ /\ OpenRequests(c) = {}
              /\ Respond(h, "accepted")
              /\ UNCHANGED twice
           \/ \E r \in OpenRequests(c) :
                /\ web' = [web EXCEPT ![h].at = "read", ![h].row = r,
                                      ![h].previous = MostRecentStatus]
                /\ twice' = IF others = {} THEN twice ELSE twice \cup {c}
                /\ UNCHANGED checks
    /\ UNCHANGED <<kind, life, fetches, records, requests, failures>>

\* Without a start time, or when the endpoint is gone, the row is refused.
RecordAnswer(h) ==
    /\ Handles(h, "read")
    /\ LET c == web[h].check
       IN  IF life = "alive" /\ checks[c].start > 0
             THEN Record(c, checks[c].status, web[h].previous) /\ Step(h, "delete")
             ELSE Step(h, "except") /\ UNCHANGED <<statuses, disturbed>>
    /\ UNCHANGED <<kind, life, checks, fetches, alert, requests, twice, failures>>

DeleteRequest(h) ==
    /\ Handles(h, "delete")
    /\ requests' = requests \ {web[h].row}
    /\ IF Changed(checks[web[h].check].status, web[h].previous)
         THEN Step(h, "alert") /\ UNCHANGED checks
         ELSE Respond(h, "accepted")
    /\ UNCHANGED <<kind, life, fetches, records, twice, failures>>

AlertOfAnswer(h) ==
    /\ Handles(h, "alert")
    /\ SendNotification(web[h].check)
    /\ Respond(h, "accepted")
    /\ UNCHANGED <<kind, life, fetches, statuses, requests, twice, failures>>

\* With a date on which a certificate or a domain expires, strftime of its text
\* raises.  The instance of a deleted request has no key any more.
AlertFails(h) ==
    /\ Handles(h, "alert")
    /\ web' = [web EXCEPT ![h].at = "except", ![h].row.pk = 1]
    /\ disturbed' = TRUE
    /\ twice' = twice \cup {web[h].check}
    /\ UNCHANGED <<kind, life, checks, fetches, statuses, alert, requests, failures>>

\* Mutant: the request is saved without its response.
SaveUnanswered(row) == (requests \ {row}) \cup {row}

WithResponse(row) == (requests \ {row}) \cup {[row EXCEPT !.received = TRUE]}

\* The handler of exceptions saves the response with the request: an update, or an
\* insert when there is no such row, which fails when the endpoint is gone.
SaveResponse(h) ==
    /\ Handles(h, "except")
    /\ IF life = "alive"
         THEN requests' = WithResponse(web[h].row) /\ Respond(h, "accepted")
         ELSE Respond(h, "answer") /\ UNCHANGED requests
    /\ UNCHANGED <<kind, life, fetches, records, twice, failures>>

\* The web process dies, or the request goes between exists() and first(), which
\* raises: the function sees no 200.
HandlerDies(h) ==
    /\ web[h] # Null
    /\ IF web[h].at = "begun" /\ OpenRequests(web[h].check) = {} THEN UNCHANGED failures
       ELSE Fails
    /\ Respond(h, "answer")
    /\ LET recorded == web[h].at \in {"delete", "alert"}
       IN  /\ twice' = IF recorded THEN twice \cup {web[h].check} ELSE twice
           /\ disturbed' = (disturbed \/ recorded)
    /\ UNCHANGED <<kind, life, fetches, statuses, alert, requests>>

\* The command ingest_requests creates the rows and deletes the requests in one
\* transaction, which fails as a whole when one of them has no start time.
IngestRequests ==
    /\ LET kept == {r \in requests : r.received}
       IN  /\ kept # {} /\ \A r \in kept : checks[r.check].start > 0
           /\ \E order \in SetToSeqs(kept) :
                statuses' = statuses \o
                    [i \in DOMAIN order |->
                       [check |-> order[i].check, start |-> checks[order[i].check].start,
                        status |-> checks[order[i].check].status, checker |-> "region"]]
           /\ requests' = requests \ kept
    /\ disturbed' = TRUE
    /\ UNCHANGED <<kind, life, checks, fetches, alert, web, twice, failures>>

\* delete_endpoint, delete_action: statuses, requests and notifications go, too.
Delete ==
    /\ life = "alive" /\ life' = "deleted"
    /\ Fails
    /\ statuses' = <<>> /\ requests' = {} /\ alert' = Null
    /\ UNCHANGED <<kind, checks, fetches, disturbed, web, twice>>

-----------------------------------------------------------------------------
UptimeInit ==
    /\ kind \in {"endpoint", "public", "private"} /\ life = "absent"
    /\ statuses = <<>> /\ alert = Null /\ disturbed = FALSE
    /\ checks = <<>> /\ fetches = 0
    /\ requests = {} /\ web = [h \in Handler |-> Null] /\ twice = {}
    /\ failures = 0

Work(c) ==
    \/ Fetch(c) \/ Skip(c) \/ ReadPrevious(c) \/ Alert(c) \/ InvokeLambda(c)
    \/ \E status \in Outcome : CreateStatus(c, status)
    \/ \E h \in Handler : PostToWebhook(h, c)

EndpointStatusWebhook(h) ==
    \/ LoadRequest(h) \/ RecordAnswer(h) \/ DeleteRequest(h)
    \/ AlertOfAnswer(h) \/ AlertFails(h) \/ SaveResponse(h)

UptimeNext ==
    \/ Add \/ CheckAllStatusInterval
    \/ \E c \in DOMAIN checks : Work(c) \/ TaskFails(c) \/ PostAgain(c)
    \/ \E h \in Handler : EndpointStatusWebhook(h) \/ HandlerDies(h)
    \/ IngestRequests \/ Delete

UptimeSpec == UptimeInit /\ [][UptimeNext]_uptimeVars

-----------------------------------------------------------------------------
(* Properties.                                                              *)

\* Every variable has its type.
UptimeTypeOK ==
    /\ kind \in {"endpoint", "public", "private"}
    /\ life \in {"absent", "alive", "deleted"}
    /\ statuses \in Seq(StatusRow) /\ alert \in {"success", "failure", Null}
    /\ checks \in Seq(CheckTask) /\ Len(checks) <= MaxChecks /\ fetches \in 0..MaxChecks
    /\ requests \subseteq RequestRow /\ web \in [Handler -> {Null} \cup Delivery]
    /\ disturbed \in BOOLEAN /\ twice \subseteq Check /\ failures \in 0..MaxFailures

\* An answer that the webhook accepted is kept: as a status, or with its request for
\* ingest_requests.  It is kept once, unless two deliveries of it overlapped or a
\* handler failed after it had recorded the status (endpoint_status_webhook).
AnswerIsKeptOnce ==
    \A c \in DOMAIN checks :
        checks[c].at = "accepted" /\ life = "alive" =>
            LET made == {r \in requests : r.check = c}
            IN  /\ StatusesOf(c) # {} \/ \E r \in made : r.received
                /\ c \notin twice => Cardinality(StatusesOf(c)) + Cardinality(made) = 1

\* No alert is about to be sent.
Settled ==
    /\ \A c \in DOMAIN checks : checks[c].at # "alert"
    /\ \A h \in Handler : web[h] # Null => web[h].at \notin {"delete", "alert"}

\* Once the alerts are sent, what the owner heard last is the most recent status;
\* without an alert the status never changed.  Exempt are checks that overtook each
\* other, alerts that failed, and private workflows, about which nobody is notified.
OwnerKnows ==
    Settled /\ ~ disturbed /\ kind # "private" /\ Considered # {} =>
        IF alert = Null
          THEN \A i \in Considered : statuses[i].status = MostRecentStatus.status
          ELSE alert = NotificationType(MostRecentStatus.status)
=============================================================================

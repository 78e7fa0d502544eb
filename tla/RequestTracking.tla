---------------------------- MODULE RequestTracking ----------------------------
(***************************************************************************)
(* Requests, bans and the location of addresses (src/utils).  A middleware *)
(* looks for a ban of the client's address, fingerprint and user agent,    *)
(* and records what it lets through: it gets or creates the rows of the    *)
(* address and of the fingerprint, and creates a TrackedRequest.  Admins   *)
(* ban, edit and delete meanwhile; a task asks a service where the         *)
(* addresses are.                                                          *)
(*                                                                         *)
(* There is no transaction around any of these: statements interleave.     *)
(***************************************************************************)
EXTENDS Integers, Sequences, FiniteSets, SequencesExt, FiniteSetsExt

CONSTANTS
    Ip,          \* global addresses
    Proxy,       \* TRUSTED_PROXY_IPS
    Hash,        \* fingerprints, without the address
    Agent,       \* user agents
    Other,       \* what the other headers that count say
    Sha256,      \* the fingerprint of the headers that count
    Suspect,     \* those that match a suspicious pattern and no allowed bot's
    Pattern,     \* user agent patterns of bans
    Matches,     \* pairs of a pattern and an agent that it matches
    Request,     \* the requests that may come
    Worker,      \* web workers
    Admin,       \* admins that run the action "Ban selected"
    Task,        \* runs of geolocate_missing_ips at once
    BanId,       \* keys of Ban
    None,        \* no header, no row, nothing in progress
    Batch,       \* batch_size
    Most,        \* addresses of a run of the task
    MaxTargets,  \* bound: targets of a ban
    MaxTime,     \* bound: the latest time
    MaxRequests, \* bound: requests that arrive
    MaxEdits,    \* bound: operations of admins
    MaxRuns,     \* bound: runs of the task
    MaxFaults    \* bound: errors of the database

ASSUME BoundAssumption ==
    /\ {Batch, Most} \subseteq Nat \ {0}
    /\ {MaxTargets, MaxTime, MaxRequests, MaxEdits, MaxRuns, MaxFaults} \subseteq Nat

\* What a ban may be on.
Target == Ip \cup Hash \cup Pattern

\* probe: the path is one of REQUEST_TRACKING_SUSPICIOUS_PATHS.
RequestType ==
    [peer : Ip \cup Proxy, forwarded : Ip \cup {None}, real : Ip \cup {None},
     agent : Agent \cup {None}, accept : BOOLEAN, other : Other, probe : BOOLEAN]

Headers == [agent : Agent \cup {None}, accept : BOOLEAN, other : Other]

ASSUME RequestAssumption ==
    /\ Request \subseteq RequestType /\ Suspect \subseteq Agent
    /\ Matches \subseteq Pattern \X Agent /\ Sha256 \in [Headers -> Hash]
    /\ None \notin Target \cup Agent \cup BanId

\* The time when a ban without expires_at ends.
Never == MaxTime + 1

\* A ban has a column for an address, one for a fingerprint and one for a pattern.
Targets ==
    {on \in (SUBSET Target) \ {{}} :
       \A kind \in {Ip, Hash, Pattern} : \A t, u \in on \cap kind : t = u}

Ban == [on : Targets, active : BOOLEAN, expires : 0..Never]

\* Bound: those that admins fill in.
SmallBan == {ban \in Ban : Cardinality(ban.on) <= MaxTargets}

Stage == {"check ip", "check print", "check agent", "get ip", "create ip",
          "get print", "create print", "insert", "failed"}

Tracked == [ip : Ip, print : Hash, suspicious : BOOLEAN]

VARIABLES
    now,
    rows,     \* rows of IPAddress, the newest first
    located,  \* those that have geo_data
    prints,   \* rows of Fingerprint
    bans,     \* bans[b]: a Ban or None
    tracked,  \* rows of TrackedRequest
    req,      \* req[w]: a request in process_request, or None
    banning,  \* banning[a]: what an action has left to ban, and the one at hand
    task,     \* task[t]: the addresses to ask for, and those that were found
    arrivals, edits, runs, faults

tables == <<rows, located, prints, bans, tracked>>
counters == <<arrivals, edits, runs, faults>>
vars == <<now, tables, req, banning, task, counters>>

Fault == faults < MaxFaults /\ faults' = faults + 1

Edit == edits < MaxEdits /\ edits' = edits + 1

-----------------------------------------------------------------------------
(* Requests and bans.                                                       *)

IsGlobalIp(ip) == ip \in Ip

IsTrustedProxy(ip) == ip \in Proxy

\* Forwarded headers count only if a trusted proxy sent them.
GetClientIp(r) ==
    IF IsTrustedProxy(r.peer) /\ IsGlobalIp(r.forwarded) THEN r.forwarded
    ELSE IF IsTrustedProxy(r.peer) /\ IsGlobalIp(r.real) THEN r.real
    ELSE IF IsGlobalIp(r.peer) THEN r.peer ELSE None

\* The forwarded headers are not among those that count.
GetRequestHeaders(r) == [agent |-> r.agent, accept |-> r.accept, other |-> r.other]

\* With include_ip=False, as the middleware and create_from_request use it.
GenerateFingerprint(r) == Sha256[GetRequestHeaders(r)]

IsSuspicious(r) == r.agent = None \/ r.agent \in Suspect \/ r.probe \/ ~ r.accept

TargetsOf(r, at) ==
    CASE at = "check ip"    -> {GetClientIp(r)}
      [] at = "check print" -> {GenerateFingerprint(r)}
      [] at = "check agent" -> {p \in Pattern : <<p, r.agent>> \in Matches}

AllTargets(r) ==
    UNION {TargetsOf(r, at) : at \in {"check ip", "check print", "check agent"}}

EffectiveAt(bs, time) == {b \in BanId : bs[b] # None /\ bs[b].active /\ bs[b].expires > time}

Effective == EffectiveAt(bans, now)

BansOf(ts) == {b \in BanId : bans[b] # None /\ bans[b].on \cap ts # {}}

\* Mutant: the first ban of a target is looked up, then asked whether it holds.
FirstIsEffective(ts) == BansOf(ts) # {} /\ (CHOOSE b \in BansOf(ts) : TRUE) \in Effective

IsBanned(ts) == BansOf(ts) \cap Effective # {}

\* What is banned: pairs of a ban that holds and one of its targets.
BannedTargets(bs, time) ==
    {p \in BanId \X Target : p[1] \in EffectiveAt(bs, time) /\ p[2] \in bs[p[1]].on}

\* Bans of a target of a request that held when it came, and have held since.
StillAgainst(bs, time) ==
    [w \in Worker |-> IF req[w] = None THEN None
                      ELSE [req[w] EXCEPT !.against = @ \cap BannedTargets(bs, time)]]

\* Excluded paths, and clients whose address is unknown, are let through unseen.
Arrive(w, r) ==
    /\ req[w] = None /\ GetClientIp(r) # None
    /\ arrivals < MaxRequests /\ arrivals' = arrivals + 1
    /\ req' = [req EXCEPT ![w] =
                  [request |-> r, at |-> "check ip", lost |-> FALSE, excused |-> FALSE,
                   against |-> {p \in BannedTargets(bans, now) : p[2] \in AllTargets(r)}]]
    /\ UNCHANGED <<now, tables, banning, task, edits, runs, faults>>

AtStage(w, at) == req[w] # None /\ req[w].at = at

Goto(w, at) == req' = [req EXCEPT ![w].at = at]

AfterCheck == [at \in {"check ip", "check print", "check agent"} |->
                 CASE at = "check ip"    -> "check print"
                   [] at = "check print" -> "check agent"
                   [] at = "check agent" -> "get ip"]

\* _check_ip_ban, _check_fingerprint_ban and _check_user_agent_ban.
CheckBan(w) ==
    /\ req[w] # None /\ req[w].at \in DOMAIN AfterCheck
    /\ IF IsBanned(TargetsOf(req[w].request, req[w].at))
         THEN req' = [req EXCEPT ![w] = None]
         ELSE Goto(w, AfterCheck[req[w].at])
    /\ UNCHANGED <<now, tables, banning, task, counters>>

\* An error of the database: the check says that there is no ban.
CheckFails(w) ==
    /\ req[w] # None /\ req[w].at \in DOMAIN AfterCheck
    /\ Fault
    /\ req' = [req EXCEPT ![w].at = AfterCheck[@], ![w].excused = TRUE]
    /\ UNCHANGED <<now, tables, banning, task, arrivals, edits, runs>>

GetRequestFingerprintData(r) == [ip |-> GetClientIp(r), print |-> GenerateFingerprint(r)]

IpOf(w) == GetRequestFingerprintData(req[w].request).ip

PrintOf(w) == GetRequestFingerprintData(req[w].request).print

GetIp(w) ==
    /\ AtStage(w, "get ip")
    /\ Goto(w, IF IpOf(w) \in Range(rows) THEN "get print" ELSE "create ip")
    /\ UNCHANGED <<now, tables, banning, task, counters>>

\* get_or_create gets the row when it cannot be created.
CreateIp(w) ==
    /\ AtStage(w, "create ip")
    /\ Goto(w, "get print")
    /\ rows' = IF IpOf(w) \in Range(rows) THEN rows ELSE <<IpOf(w)>> \o rows
    /\ UNCHANGED <<now, located, prints, bans, tracked, banning, task, counters>>

GetPrint(w) ==
    /\ AtStage(w, "get print")
    /\ Goto(w, IF PrintOf(w) \in prints THEN "insert" ELSE "create print")
    /\ UNCHANGED <<now, tables, banning, task, counters>>

CreatePrint(w) ==
    /\ AtStage(w, "create print")
    /\ Goto(w, "insert")
    /\ prints' = prints \cup {PrintOf(w)}
    /\ UNCHANGED <<now, rows, located, bans, tracked, banning, task, counters>>

\* The TrackedRequest refers to the rows that were got, which may be gone.
Insert(w) ==
    /\ AtStage(w, "insert")
    /\ IF req[w].lost
         THEN Goto(w, "failed") /\ UNCHANGED tracked
         ELSE /\ req' = [req EXCEPT ![w] = None]
              /\ tracked' = tracked \cup
                   {[ip |-> IpOf(w), print |-> PrintOf(w),
                     suspicious |-> IsSuspicious(req[w].request)]}
    /\ UNCHANGED <<now, rows, located, prints, bans, banning, task, counters>>

\* An exception while the request is tracked is logged.
TrackingFails(w) ==
    /\ req[w] # None /\ req[w].at \in {"get ip", "create ip", "get print", "create print", "insert"}
    /\ Fault
    /\ Goto(w, "failed")
    /\ UNCHANGED <<now, tables, banning, task, arrivals, edits, runs>>

\* The view answers a request that could not be tracked.
Finish(w) ==
    /\ AtStage(w, "failed")
    /\ req' = [req EXCEPT ![w] = None]
    /\ UNCHANGED <<now, tables, banning, task, counters>>

-----------------------------------------------------------------------------
(* Admins.                                                                  *)

Tick ==
    /\ now < MaxTime /\ now' = now + 1
    /\ req' = StillAgainst(bans, now')
    /\ UNCHANGED <<tables, banning, task, counters>>

\* What the form of a ban may be filled in with: at least one target, active or not,
\* for ever or for some time.
IsFilledIn(ban) ==
    /\ ban.on \subseteq Range(rows) \cup prints \cup Pattern
    /\ ban.expires >= now

AddBan(b, ban) ==
    /\ bans[b] = None /\ Edit /\ IsFilledIn(ban)
    /\ bans' = [bans EXCEPT ![b] = ban]
    /\ UNCHANGED <<now, rows, located, prints, tracked, req, banning, task, arrivals, runs, faults>>

\* The same form on a ban that exists, its targets included.
EditBan(b, ban) ==
    /\ bans[b] # None /\ Edit /\ IsFilledIn(ban)
    /\ bans' = [bans EXCEPT ![b] = ban]
    /\ req' = StillAgainst(bans', now)
    /\ UNCHANGED <<now, rows, located, prints, tracked, banning, task, arrivals, runs, faults>>

\* activate_bans and deactivate_bans: one UPDATE of the bans selected.
ActivateBans(selected, active) ==
    /\ \A b \in selected : bans[b] # None
    /\ Edit
    /\ bans' = [b \in BanId |->
                  IF b \in selected
                    THEN [on |-> bans[b].on, active |-> active, expires |-> bans[b].expires]
                    ELSE bans[b]]
    /\ req' = StillAgainst(bans', now)
    /\ UNCHANGED <<now, rows, located, prints, tracked, banning, task, arrivals, runs, faults>>

DeleteBan(b) ==
    /\ bans[b] # None /\ Edit
    /\ bans' = [bans EXCEPT ![b] = None]
    /\ req' = StillAgainst(bans', now)
    /\ UNCHANGED <<now, rows, located, prints, tracked, banning, task, arrivals, runs, faults>>

HeldRows(w) ==
    CASE req[w].at \in {"get print", "create print"} -> {IpOf(w)}
      [] req[w].at = "insert" -> {IpOf(w), PrintOf(w)}
      [] OTHER -> {}

\* on_delete=CASCADE: bans go with one of their targets, requests with either.
Cascade(t) ==
    /\ bans' = [b \in BanId |-> IF b \in BansOf({t}) THEN None ELSE bans[b]]
    /\ tracked' = {r \in tracked : r.ip # t /\ r.print # t}
    /\ req' = [w \in Worker |->
                 IF req[w] = None THEN None
                 ELSE [StillAgainst(bans', now)[w] EXCEPT !.lost = @ \/ t \in HeldRows(w)]]

DeleteIp(ip) ==
    /\ Edit
    /\ \E i \in DOMAIN rows : rows[i] = ip /\ rows' = RemoveAt(rows, i)
    /\ located' = located \ {ip}
    /\ Cascade(ip)
    /\ UNCHANGED <<now, prints, banning, task, arrivals, runs, faults>>

DeletePrint(p) ==
    /\ p \in prints /\ Edit
    /\ prints' = prints \ {p}
    /\ Cascade(p)
    /\ UNCHANGED <<now, rows, located, banning, task, arrivals, runs, faults>>

\* ban_ips and ban_fingerprints: the selected rows, one after the other.
BeginBanning(a, todo) ==
    /\ banning[a] = None /\ Edit
    /\ todo # {} /\ (todo \subseteq Range(rows) \/ todo \subseteq prints)
    /\ banning' = [banning EXCEPT ![a] = [todo |-> todo, next |-> None]]
    /\ UNCHANGED <<now, tables, req, task, arrivals, runs, faults>>

\* What remains of an action that has dealt with a target.
Remaining(a, t) ==
    LET todo == banning[a].todo \ {t}
    IN  IF todo = {} THEN None ELSE [todo |-> todo, next |-> None]

\* "already banned": there is a ban that is active, be it expired or not.
LookForBan(a, t) ==
    /\ banning[a] # None /\ banning[a].next = None /\ t \in banning[a].todo
    /\ banning' = [banning EXCEPT ![a] =
                      IF \E b \in BansOf({t}) : bans[b].active
                        THEN Remaining(a, t) ELSE [@ EXCEPT !.next = t]]
    /\ UNCHANGED <<now, tables, req, task, counters>>

\* A target that is gone makes the action fail where it is.
CreateBan(a, b) ==
    /\ banning[a] # None /\ banning[a].next # None
    /\ LET t == banning[a].next
       IN  IF t \in Range(rows) \cup prints
             THEN /\ bans[b] = None
                  /\ bans' = [bans EXCEPT ![b] =
                                 [on |-> {t}, active |-> TRUE, expires |-> Never]]
                  /\ banning' = [banning EXCEPT ![a] = Remaining(a, t)]
             ELSE banning' = [banning EXCEPT ![a] = None] /\ UNCHANGED bans
    /\ UNCHANGED <<now, rows, located, prints, tracked, req, task, counters>>

-----------------------------------------------------------------------------
(* geolocate_missing_ips.                                                   *)

\* The addresses without a location among the first rows, newest first.
MissingAmong[n \in 0..Len(rows)] ==
    IF n = 0 THEN <<>>
    ELSE IF rows[n] \in located THEN MissingAmong[n - 1]
    ELSE Append(MissingAmong[n - 1], rows[n])

Missing == MissingAmong[Len(rows)]

First(n, s) == SubSeq(s, 1, IF n < Len(s) THEN n ELSE Len(s))

GeolocateMissingIps(t) ==
    /\ task[t] = None /\ Missing # <<>>
    /\ runs < MaxRuns /\ runs' = runs + 1
    /\ task' = [task EXCEPT ![t] = [todo |-> First(Most, Missing), results |-> <<>>]]
    /\ UNCHANGED <<now, tables, req, banning, arrivals, edits, faults>>

\* geolocate_ips_batch: of a batch some addresses are found, or none if it failed.
GeolocateBatch(t, found) ==
    /\ task[t] # None /\ task[t].todo # <<>>
    /\ LET batch == First(Batch, task[t].todo)
       IN  /\ found \subseteq Range(batch)
           /\ task' = [task EXCEPT
                 ![t].todo = SubSeq(@, Len(batch) + 1, Len(@)),
                 ![t].results = @ \o [i \in DOMAIN batch |->
                                        [ip |-> batch[i], found |-> batch[i] \in found]]]
    /\ UNCHANGED <<now, tables, req, banning, counters>>

\* Mutant: a result is stored whether there is one or not.
StoreAny(result) ==
    IF result.found THEN located \cup ({result.ip} \cap Range(rows)) ELSE located \ {result.ip}

Store(result) ==
    IF result.found THEN located \cup ({result.ip} \cap Range(rows)) ELSE located

UpdateGeoData(t) ==
    /\ task[t] # None /\ task[t].todo = <<>>
    /\ LET results == task[t].results
       IN  /\ located' = Store(Head(results))
           /\ task' = [task EXCEPT ![t] = IF Len(results) = 1 THEN None
                                          ELSE [@ EXCEPT !.results = Tail(results)]]
    /\ UNCHANGED <<now, rows, prints, bans, tracked, req, banning, counters>>

\* The task raises, or its worker dies: it is tried again as a new run, if at all.
GeolocationFails(t) ==
    /\ task[t] # None
    /\ Fault
    /\ task' = [task EXCEPT ![t] = None]
    /\ UNCHANGED <<now, tables, req, banning, arrivals, edits, runs>>

-----------------------------------------------------------------------------
Init ==
    /\ now = 0
    /\ rows = <<>> /\ located = {} /\ prints = {} /\ tracked = {}
    /\ bans = [b \in BanId |-> None]
    /\ req = [w \in Worker |-> None]
    /\ banning = [a \in Admin |-> None]
    /\ task = [t \in Task |-> None]
    /\ arrivals = 0 /\ edits = 0 /\ runs = 0 /\ faults = 0

Track(w) == GetIp(w) \/ CreateIp(w) \/ GetPrint(w) \/ CreatePrint(w) \/ Insert(w)

ProcessRequest(w) ==
    \/ \E r \in Request : Arrive(w, r)
    \/ CheckBan(w) \/ CheckFails(w)
    \/ Track(w) \/ TrackingFails(w) \/ Finish(w)

Administer ==
    \/ \E b \in BanId :
         \/ \E ban \in SmallBan : AddBan(b, ban) \/ EditBan(b, ban)
         \/ DeleteBan(b)
    \/ \E selected \in (SUBSET BanId) \ {{}}, active \in BOOLEAN : ActivateBans(selected, active)
    \/ \E ip \in Ip : DeleteIp(ip)
    \/ \E p \in Hash : DeletePrint(p)
    \/ \E a \in Admin :
         \/ \E todo \in (SUBSET Ip) \cup (SUBSET Hash) : BeginBanning(a, todo)
         \/ \E t \in Target : LookForBan(a, t)
         \/ \E b \in BanId : CreateBan(a, b)

Geolocate(t) ==
    \/ GeolocateMissingIps(t)
    \/ \E found \in SUBSET Ip : GeolocateBatch(t, found)
    \/ UpdateGeoData(t) \/ GeolocationFails(t)

Next ==
    \/ Tick
    \/ \E w \in Worker : ProcessRequest(w)
    \/ Administer
    \/ \E t \in Task : Geolocate(t)

Spec == Init /\ [][Next]_vars

-----------------------------------------------------------------------------
(* Properties.                                                              *)

\* Every variable has its type, and rows refer to rows.
TypeOK ==
    /\ now \in 0..MaxTime
    /\ rows \in Seq(Ip) /\ IsInjective(rows)
    /\ located \subseteq Range(rows) /\ prints \subseteq Hash
    /\ bans \in [BanId -> Ban \cup {None}]
    /\ \A b \in BanId : bans[b] # None => bans[b].on \subseteq Range(rows) \cup prints \cup Pattern
    /\ tracked \subseteq {r \in Tracked : r.ip \in Range(rows) /\ r.print \in prints}
    /\ req \in [Worker -> {None} \cup
                  [request : RequestType, at : Stage, lost : BOOLEAN, excused : BOOLEAN,
                   against : SUBSET (BanId \X Target)]]
    /\ banning \in [Admin -> {None} \cup
                      [todo : SUBSET (Ip \cup Hash), next : Ip \cup Hash \cup {None}]]
    /\ task \in [Task -> {None} \cup
                   [todo : Seq(Ip), results : Seq([ip : Ip, found : BOOLEAN])]]
    /\ arrivals \in 0..MaxRequests /\ edits \in 0..MaxEdits
    /\ runs \in 0..MaxRuns /\ faults \in 0..MaxFaults

\* No request gets past the checks while its address, its fingerprint or its user
\* agent is the target of a ban that held when it came and has held since, whatever
\* other bans of the same target have expired, were lifted or were given another
\* target (process_request).  Exempt are requests one of whose checks met an error of
\* the database: those let everyone through.  A ban that is moved to a target after
\* the check of that target is too late for the request.
BannedIsNotServed ==
    \A w \in Worker :
        req[w] # None /\ req[w].at \notin DOMAIN AfterCheck /\ ~ req[w].excused =>
            req[w].against = {}

\* Where an address is, once known, is not forgotten while its row stays, though
\* runs of the task overlap and one may fail where another did not
\* (geolocate_missing_ips).
LocationIsKept ==
    [][\A ip \in located : ip \in Range(rows') => ip \in located']_vars
=============================================================================

----------------------------- MODULE PriceSources -----------------------------
(***************************************************************************)
(* How prices are asked for: the sources that pace and retry their         *)
(* requests (src/feefifofunds/services/data_sources/), the commands that   *)
(* work through assets, days or gaps with them (backfill_prices,           *)
(* load_prices, backfill_kraken_gaps), functions wrapped by the decorator  *)
(* api_call, the router that plans which source serves which dates, and    *)
(* the assets, which runs of the ingestion look up and create at once      *)
(* (services/kraken.py) while they are edited.                             *)
(*                                                                         *)
(* Time passes in sleeps and while a request is under way; the code        *)
(* between them takes none.  Prices are a matter of whether there are any. *)
(***************************************************************************)
EXTENDS Integers, Sequences, FiniteSets, SequencesExt

CONSTANTS
    Proc,         \* commands and callers at once
    Ticker,       \* the tickers there may be
    Fiat,         \* FIAT_CURRENCIES
    Listed,       \* Listed[t]: the tier of t by the lists of the code
    Pair,         \* the pairs of which there are files
    Base,         \* Base[q]: pair q without its quote currency
    Names,        \* KRAKEN_TICKER_MAPPING
    Interval,     \* the intervals the router is made for, in minutes
    Limit,        \* API_CANDLE_LIMIT
    Oldest,       \* bound: the oldest date asked for, in minutes before now
    Days,         \* days from --start to --end, and bound: gaps of a run
    Second,       \* ticks to a second
    MassiveDelay, \* RATE_LIMIT_DELAY_SECONDS of Massive, in ticks
    MaxAttempts,  \* max_retries, which counts attempts
    CacheTimeout, \* cache_timeout of api_call, in ticks
    None,
    MaxEvents     \* bound: commands that fetch and plans count three, others one

Tier == {"TIER1", "TIER2", "TIER3", "TIER4", "UNCLASSIFIED"}

\* A command that fetches prices, or a caller of the function.
Fetching ==
    [program : {"gaps", "assets", "days", "asset", "call"},
     source : {"kraken", "massive", "finnhub", "function"}, saves : BOOLEAN,
     left : Nat \ {0}, pc : {"fetch", "sleep", "backoff", "asked"},
     attempt : 1..MaxAttempts]

\* A run of the ingestion, at a file and its ticker.
Ingestion ==
    {r \in [program : {"ingest"}, source : {"file"}, left : 1..2,
            pc : {"file", "bulk", "create", "upgrade"}, ticker : Ticker \cup {None},
            found : BOOLEAN] : r.pc # "file" => r.ticker \in Ticker}

ASSUME ConstantAssumption ==
    /\ Fiat \subseteq Ticker /\ IsFiniteSet(Ticker)
    /\ None \notin Fetching \cup Ingestion /\ "function" \notin Proc
    /\ Interval \subseteq Nat
    /\ Listed \in [Ticker -> Tier \ {"UNCLASSIFIED"}]
    /\ \A q \in Pair : Base[q] \in DOMAIN Names \cup Ticker
    /\ \A b \in DOMAIN Names : Names[b] \in Ticker
    /\ {Second, MassiveDelay, MaxAttempts} \subseteq Nat \ {0}
    /\ {Limit, Oldest, Days, CacheTimeout, MaxEvents} \subseteq Nat

VARIABLES
    doing,    \* doing[p]: what a command is at, or None
    wait,     \* wait[p]: ticks that it still sleeps
    since,    \* since[o]: ticks since _last_request_time of p's source, or
              \* last_called of the function that callers share
    recent,   \* history: the requests of p's source within its delay
    kept,     \* ticks for which the function's result stays cached
    assets,   \* the rows of Asset by their tickers
    known,    \* known[p]: the rows that a run of the ingestion has in memory
    removed,  \* history: removed[t]: how many rows of t were deleted
    plan,     \* the last plan of the router, or None
    events

timeVars == <<wait, since, recent>>
priceVars == <<doing, timeVars, kept, assets, known, removed, plan, events>>

Event(cost) == events + cost <= MaxEvents /\ events' = events + cost

-----------------------------------------------------------------------------
(* Sources.                                                                 *)

Delay(source) ==
    CASE source \in {"kraken", "function"} -> Second
      [] source = "massive" -> MassiveDelay
      [] OTHER -> 0

LongAgo == IF MassiveDelay > Second THEN MassiveDelay ELSE Second

Object(p) == IF doing[p].source = "function" THEN "function" ELSE p

\* A source that has just been made has not sent a request yet.
NewSource(p) ==
    /\ since' = [since EXCEPT ![p] = LongAgo]
    /\ recent' = [recent EXCEPT ![p] = <<>>]

\* One, two seconds: between attempts, none after the last.
Backoff(attempt) == Second * 2^(attempt - 1)

NotedOnce(p) ==
    IF doing[p].source # "function" /\ since[p] = LongAgo
      THEN [since EXCEPT ![p] = 0] ELSE since

\* The sources note the time before a request, and only before the first
\* attempt; the decorator notes it once the function has returned.
Noted(p) ==
    IF doing[p].source # "function" /\ doing[p].attempt = 1
      THEN [since EXCEPT ![p] = 0] ELSE since

Sent(p) ==
    /\ doing' = [doing EXCEPT ![p].pc = "asked"]
    /\ wait' = [wait EXCEPT ![p] = 0]
    /\ since' = Noted(p)
    /\ recent' = IF Delay(doing[p].source) = 0 \/ doing[p].source = "function"
                   THEN recent
                   ELSE [recent EXCEPT ![p] =
                           Append(@, [age |-> 0, retry |-> doing[p].attempt > 1])]

\* A function whose result is cached is not called: the retries are around the
\* cache, and the pacing is around both.
Hit(p) == doing[p].source = "function" /\ kept > 0

ApplyRateLimit(p) ==
    /\ doing[p] # None /\ doing[p].pc = "fetch"
    /\ since[Object(p)] < Delay(doing[p].source)
    /\ doing' = [doing EXCEPT ![p].pc = "sleep"]
    /\ wait' = [wait EXCEPT ![p] = Delay(doing[p].source) - since[Object(p)]]
    /\ UNCHANGED <<since, recent, kept, assets, known, removed, plan, events>>

MakeRequest(p) ==
    /\ doing[p] # None
    /\ \/ doing[p].pc = "fetch" /\ since[Object(p)] >= Delay(doing[p].source)
       \/ doing[p].pc \in {"sleep", "backoff"} /\ wait[p] = 0
    /\ ~Hit(p)
    /\ Sent(p)
    /\ UNCHANGED <<kept, assets, known, removed, plan, events>>

\* What a request comes to: prices, no prices, an error that the source raises at
\* once, or one after which it tries again.  Kraken refuses by a status of 429 or
\* 404 or by a list of errors; its last candle is left out, which may be the only
\* one.
FetchKraken == {"data", "none", "refused", "broken"}

\* The clients of Massive and Finnhub raise whatever they like, at once.
FetchMassive == {"data", "none", "refused"}

\* One row in which a value is missing fails the day.
FetchGrouped == {"data", "none", "refused"}

\* Finnhub has a word for no data.
FetchFinnhub == {"data", "none", "refused"}

Outcomes(r) ==
    CASE r.source = "kraken" -> FetchKraken
      [] r.source = "massive" -> IF r.program = "days" THEN FetchGrouped ELSE FetchMassive
      [] r.source = "finnhub" -> FetchFinnhub
      [] r.source = "function" -> {"data", "none", "broken"}

Retry(p, outcome) == outcome = "broken" /\ doing[p].attempt < MaxAttempts

BackOff(p) ==
    /\ doing' = [doing EXCEPT ![p].pc = "backoff", ![p].attempt = @ + 1]
    /\ wait' = [wait EXCEPT ![p] = Backoff(doing[p].attempt)]
    /\ UNCHANGED <<since, recent, kept>>

-----------------------------------------------------------------------------
(* Commands.                                                                *)

Active(categories) ==
    {t \in DOMAIN assets : assets[t].active /\ assets[t].category \in categories}

\* The source goes with the command.
Ended(p) == doing' = [doing EXCEPT ![p] = None] /\ NewSource(p)

\* A gap, an asset or a day is done with: an error in it is counted and the
\* next one follows.  backfill_prices makes a source for each asset.
StayOnDay(p) ==
    IF doing[p].left = 1
      THEN Ended(p)
      ELSE /\ doing' = [doing EXCEPT ![p].pc = "fetch", ![p].attempt = 1]
           /\ UNCHANGED <<since, recent>>

NextItem(p) ==
    IF doing[p].left = 1
      THEN Ended(p)
      ELSE /\ doing' = [doing EXCEPT ![p].left = @ - 1, ![p].pc = "fetch",
                                     ![p].attempt = 1]
           /\ IF doing[p].program = "assets" THEN NewSource(p)
                                             ELSE UNCHANGED <<since, recent>>

\* AssetPrice has neither the field asset nor timestamp by which prices are to
\* be saved: the first prices end the command.
FieldError(p) == Ended(p)

EndOfFetch(p, outcome) ==
    /\ IF outcome = "data" /\ doing[p].saves THEN FieldError(p) ELSE NextItem(p)
    /\ UNCHANGED kept

EndOfCall(p, outcome) ==
    /\ doing' = [doing EXCEPT ![p] = None]
    /\ IF outcome = "broken"
         THEN UNCHANGED <<since, kept>>
         ELSE /\ since' = [since EXCEPT !["function"] = 0]
              /\ kept' = IF outcome = "data" THEN CacheTimeout ELSE kept
    /\ UNCHANGED recent

Answer(p, outcome) ==
    /\ doing[p] # None /\ doing[p].pc = "asked" /\ outcome \in Outcomes(doing[p])
    /\ IF Retry(p, outcome) THEN BackOff(p)
       ELSE /\ IF doing[p].source = "function" THEN EndOfCall(p, outcome)
                                               ELSE EndOfFetch(p, outcome)
            /\ UNCHANGED wait
    /\ UNCHANGED <<assets, known, removed, plan, events>>

AnswerFromCache(p) ==
    /\ doing[p] # None /\ Hit(p)
    /\ \/ doing[p].pc = "fetch" /\ since["function"] >= Second
       \/ doing[p].pc \in {"sleep", "backoff"} /\ wait[p] = 0
    /\ doing' = [doing EXCEPT ![p] = None]
    /\ since' = [since EXCEPT !["function"] = 0]
    /\ UNCHANGED <<wait, recent, kept, assets, known, removed, plan, events>>

\* Without assets, and without the key of its source, a command sends nothing.
Launch(p, program, source, saves, left) ==
    /\ doing[p] = None /\ left > 0 /\ Event(IF source = "function" THEN 1 ELSE 3)
    /\ doing' = [doing EXCEPT ![p] =
                   [program |-> program, source |-> source, saves |-> saves,
                    left |-> left, pc |-> "fetch", attempt |-> 1]]
    /\ NewSource(p)
    /\ UNCHANGED <<wait, kept, assets, known, removed, plan>>

BackfillGaps(p) == \E n \in 1..Days : Launch(p, "gaps", "kraken", FALSE, n)

BackfillPrices(p) ==
    \E source \in {"massive", "finnhub"}, saves \in BOOLEAN,
       categories \in {{"CRYPTO"}, {"CRYPTO", "CURRENCY"}} :
        Launch(p, "assets", source, saves, Cardinality(Active(categories)))

HandleGrouped(p) ==
    \E saves \in BOOLEAN :
        /\ Active({"CRYPTO", "CURRENCY"}) # {}
        /\ Launch(p, "days", "massive", saves, Days)

LoadPrices(p) ==
    \E source \in {"massive", "finnhub"}, saves \in BOOLEAN :
        /\ DOMAIN assets # {}
        /\ Launch(p, "asset", source, saves, 1)

ApiCall(p) == Launch(p, "call", "function", FALSE, 1)

ClearCache ==
    /\ Event(1) /\ kept' = 0
    /\ UNCHANGED <<doing, timeVars, assets, known, removed, plan>>

-----------------------------------------------------------------------------
(* Assets.  A run of the ingestion has them all in memory when it begins,   *)
(* and looks up or creates the one of each further file it meets.           *)

ParsePair(q) == IF Base[q] \in DOMAIN Names THEN Names[Base[q]] ELSE Base[q]

DetermineCategory(t) == IF t \in Fiat THEN "CURRENCY" ELSE "CRYPTO"

DetermineTier(t) == Listed[t]

\* A row's id counts the rows that its ticker had before.
NewRow(t) == [id |-> removed[t], category |-> DetermineCategory(t),
              tier |-> DetermineTier(t), active |-> TRUE]

Put(f, t, row) == [u \in DOMAIN f \cup {t} |-> IF u = t THEN row ELSE f[u]]

Ingests(p, pc) ==
    doing[p] # None /\ doing[p].program = "ingest" /\ doing[p].pc = pc

At(p, pc) == doing' = [doing EXCEPT ![p].pc = pc]

Ingest(p) ==
    /\ doing[p] = None /\ Event(1)
    /\ doing' = [doing EXCEPT ![p] = [program |-> "ingest", source |-> "file",
                                      left |-> 2, pc |-> "file", ticker |-> None,
                                      found |-> FALSE]]
    /\ known' = [known EXCEPT ![p] = assets]
    /\ UNCHANGED <<timeVars, kept, assets, removed, plan>>

\* The file's asset is known: on to the next file.
Known(p, rows) ==
    /\ known' = [known EXCEPT ![p] = IF doing[p].left = 1 THEN [t \in {} |-> None]
                                      ELSE rows]
    /\ doing' = [doing EXCEPT ![p] = IF @.left = 1 THEN None
                                     ELSE [@ EXCEPT !.left = 1, !.pc = "file",
                                                    !.ticker = None, !.found = FALSE]]

\* _get_or_create_asset, and the first query of bulk_create_assets.
GetOrCreateAsset(p) ==
    /\ Ingests(p, "file")
    /\ \E q \in Pair :
        LET t == ParsePair(q)
        IN IF t \in DOMAIN known[p]
             THEN Known(p, known[p])
             ELSE /\ doing' = [doing EXCEPT ![p].pc = "bulk", ![p].ticker = t,
                                            ![p].found = t \in DOMAIN assets]
                  /\ UNCHANGED known
    /\ UNCHANGED <<timeVars, kept, assets, removed, plan, events>>

\* A row that another run inserted meanwhile is left as it is (ignore_conflicts).
Inserted(p, t) ==
    IF doing[p].found \/ t \in DOMAIN assets THEN assets ELSE Put(assets, t, NewRow(t))

OwnInstances(p, t) ==
    IF doing[p].found THEN assets ELSE Put(assets, t, [NewRow(t) EXCEPT !.id = -1])

\* What is remembered is read from the table once the rows are inserted.
ReadAgain(p, t) == Inserted(p, t)

\* A row that was found and then deleted is missing: get_or_create_asset makes it.
BulkCreateAssets(p) ==
    /\ Ingests(p, "bulk")
    /\ LET t == doing[p].ticker
       IN /\ assets' = Inserted(p, t)
          /\ IF t \in DOMAIN ReadAgain(p, t)
               THEN Known(p, Put(known[p], t, ReadAgain(p, t)[t]))
               ELSE At(p, "create") /\ UNCHANGED known
    /\ UNCHANGED <<timeVars, kept, removed, plan, events>>

\* get_or_create falls back on the row of whoever was faster.
GetOrCreate(p) ==
    /\ Ingests(p, "create")
    /\ LET t == doing[p].ticker
           rows == IF t \in DOMAIN assets THEN assets ELSE Put(assets, t, NewRow(t))
       IN /\ assets' = rows
          /\ IF rows[t].tier = "UNCLASSIFIED"
               THEN At(p, "upgrade") /\ known' = [known EXCEPT ![p] = Put(@, t, rows[t])]
               ELSE Known(p, Put(known[p], t, rows[t]))
    /\ UNCHANGED <<timeVars, kept, removed, plan, events>>

\* The tier alone is saved.  If the row is gone, that fails, and so does the file.
UpdateTier(p) ==
    /\ Ingests(p, "upgrade")
    /\ LET t == doing[p].ticker
       IN IF t \in DOMAIN assets /\ assets[t].id = known[p][t].id
            THEN /\ assets' = [assets EXCEPT ![t].tier = DetermineTier(t)]
                 /\ Known(p, [known[p] EXCEPT ![t].tier = DetermineTier(t)])
            ELSE /\ Known(p, [u \in DOMAIN known[p] \ {t} |-> known[p][u]])
                 /\ UNCHANGED assets
    /\ UNCHANGED <<timeVars, kept, removed, plan, events>>

\* The admin of assets: a new asset has no tier unless one is chosen.
EditAsset(t) ==
    /\ Event(1)
    /\ \/ /\ t \notin DOMAIN assets
          /\ assets' = Put(assets, t, [NewRow(t) EXCEPT !.tier = "UNCLASSIFIED"])
          /\ UNCHANGED removed
       \/ /\ t \in DOMAIN assets
          /\ \E active \in BOOLEAN, tier \in {DetermineTier(t), "UNCLASSIFIED"} :
                assets' = [assets EXCEPT ![t].active = active, ![t].tier = tier]
          /\ UNCHANGED removed
       \/ /\ t \in DOMAIN assets
          /\ assets' = [u \in DOMAIN assets \ {t} |-> assets[u]]
          /\ removed' = [removed EXCEPT ![t] = @ + 1]
    /\ UNCHANGED <<doing, timeVars, kept, known, plan>>

-----------------------------------------------------------------------------
(* The router.  Dates are minutes before now.                               *)

ApiCutoff(interval) == interval * Limit

TierAssets(tier) ==
    {t \in Active({"CRYPTO"}) : tier \in {"ALL", assets[t].tier}}

\* A file of the interval is handed to a parser that takes no pair: an error
\* that nothing catches.  No file is ever found.
FindCsvFiles(interval, files) ==
    IF interval \in files THEN "TypeError" ELSE "none"

Source(t, interval, oldest, newest) ==
    [asset |-> t, interval |-> interval, oldest |-> oldest, newest |-> newest]

Older(a, b) == IF a > b THEN a ELSE b
Newer(a, b) == IF a > b THEN b ELSE a

MissingCsv(t, i, start, end) ==
    IF start > ApiCutoff(i)
      THEN {Source(t, i, start, Older(ApiCutoff(i), end))} ELSE {}

WholeApiSource(t, i, start, end) ==
    IF end <= ApiCutoff(i) THEN {Source(t, i, start, end)} ELSE {}

ApiSource(t, i, start, end) ==
    IF end <= ApiCutoff(i)
      THEN {Source(t, i, Newer(ApiCutoff(i), start), end)} ELSE {}

\* files: the intervals of which there is a file, of whatever pair.
CreateIngestionPlan ==
    \E start, end \in 0..Oldest, files \in SUBSET Interval,
       tier \in {"ALL", "TIER1"} :
        LET fails == \E t \in TierAssets(tier), i \in Interval :
                        /\ start > ApiCutoff(i)
                        /\ FindCsvFiles(i, files) = "TypeError"
            each == TierAssets(tier) \X Interval
        IN /\ end <= start /\ Event(3)
           /\ plan' = IF fails THEN None ELSE
                [assets |-> TierAssets(tier), start |-> start, end |-> end,
                 missing |-> UNION {MissingCsv(x[1], x[2], start, end) : x \in each},
                 api |-> UNION {ApiSource(x[1], x[2], start, end) : x \in each}]
           /\ UNCHANGED <<doing, timeVars, kept, assets, known, removed>>

-----------------------------------------------------------------------------
\* Requests leave the delay in the order in which they were sent.
Aged(requests, delay) ==
    LET older == [i \in DOMAIN requests |-> [requests[i] EXCEPT !.age = @ + 1]]
        within == {i \in DOMAIN older : older[i].age < delay}
    IN  IF within = {} THEN <<>> ELSE SubSeq(older, Min(within), Len(older))

PassTime ==
    /\ wait' = [p \in Proc |-> IF wait[p] = 0 THEN 0 ELSE wait[p] - 1]
    /\ since' = [o \in DOMAIN since |-> IF since[o] = LongAgo THEN LongAgo
                                        ELSE since[o] + 1]
    /\ recent' = [p \in Proc |-> IF doing[p] = None THEN <<>>
                                 ELSE Aged(recent[p], Delay(doing[p].source))]
    /\ kept' = IF kept = 0 THEN 0 ELSE kept - 1
    /\ UNCHANGED <<doing, assets, known, removed, plan, events>>

PricesInit ==
    /\ doing = [p \in Proc |-> None]
    /\ wait = [p \in Proc |-> 0]
    /\ since = [o \in Proc \cup {"function"} |-> LongAgo]
    /\ recent = [p \in Proc |-> <<>>]
    /\ kept = 0
    /\ \E some \in SUBSET Ticker :
        assets = [t \in some |-> [id |-> 0, category |-> DetermineCategory(t),
                                  tier |-> DetermineTier(t), active |-> TRUE]]
    /\ known = [p \in Proc |-> [t \in {} |-> None]]
    /\ removed = [t \in Ticker |-> 0]
    /\ plan = None
    /\ events = 0

Step(p) ==
    \/ ApplyRateLimit(p) \/ MakeRequest(p) \/ AnswerFromCache(p)
    \/ \E outcome \in {"data", "none", "refused", "broken"} : Answer(p, outcome)
    \/ GetOrCreateAsset(p) \/ BulkCreateAssets(p)
    \/ GetOrCreate(p) \/ UpdateTier(p)

Begin(p) ==
    \/ BackfillGaps(p) \/ BackfillPrices(p) \/ HandleGrouped(p)
    \/ LoadPrices(p) \/ ApiCall(p) \/ Ingest(p)

PricesNext ==
    \/ \E p \in Proc : Begin(p) \/ Step(p)
    \/ \E t \in Ticker : EditAsset(t)
    \/ ClearCache \/ CreateIngestionPlan \/ PassTime

\* Every request is answered or times out (30 seconds for Kraken, the timeouts
\* of the libraries otherwise), and a command that need not wait goes on.
PricesSpec ==
    /\ PricesInit /\ [][PricesNext]_priceVars
    /\ WF_priceVars(PassTime) /\ \A p \in Proc : WF_priceVars(Step(p))

-----------------------------------------------------------------------------
(* Properties.                                                              *)

Asset == [id : Nat, category : {"CURRENCY", "CRYPTO"}, tier : Tier, active : BOOLEAN]

AreRows(f) == DOMAIN f \subseteq Ticker /\ f \in [DOMAIN f -> Asset]

\* Every variable has its type.
PricesTypeOK ==
    /\ doing \in [Proc -> {None} \cup Fetching \cup Ingestion]
    /\ wait \in [Proc -> Nat]
    /\ since \in [Proc \cup {"function"} -> 0..LongAgo]
    /\ recent \in [Proc -> Seq([age : Nat, retry : BOOLEAN])]
    /\ kept \in 0..CacheTimeout
    /\ AreRows(assets)
    /\ known = [p \in Proc |-> known[p]] /\ \A p \in Proc : AreRows(known[p])
    /\ removed \in [Ticker -> Nat]
    /\ plan # None =>
          plan.assets \subseteq Ticker /\ {plan.start, plan.end} \subseteq 0..Oldest
    /\ events \in 0..MaxEvents

\* Within the delay of a source that a command holds there are two requests
\* only when the first of them was a retry: the pacing counts from the first
\* attempt.  There are never three (_apply_rate_limit, _make_request).
RequestsArePaced ==
    \A p \in Proc :
        \/ Len(recent[p]) <= 1
        \/ Len(recent[p]) = 2 /\ recent[p][1].retry

\* A command gets through all of its gaps, assets or days, whatever is refused
\* or times out; a wrapped call gives up in the end.
CommandsEnd == \A p \in Proc : doing[p] # None ~> doing[p] = None

\* Prices are stored in another database under ids that it does not check: the
\* id that a run remembers for a ticker is of its row, or of one that was
\* deleted, whoever inserted it first (bulk_create_assets, get_or_create_asset).
KnownIdsAreRows ==
    \A p \in Proc : \A t \in DOMAIN known[p] :
        \/ known[p][t].id \in 0..(removed[t] - 1)
        \/ t \in DOMAIN assets /\ assets[t].id = known[p][t].id

\* Every date asked for is planned for, from the API where that reaches so far
\* back, and only there (create_ingestion_plan).
PlanIsWhole ==
    plan # None =>
        \A t \in plan.assets, i \in Interval, d \in plan.end..plan.start :
            LET For(sources) == \E s \in sources :
                    /\ s.asset = t /\ s.interval = i
                    /\ d \in s.newest..s.oldest
            IN IF d < ApiCutoff(i) THEN For(plan.api) /\ ~For(plan.missing)
               ELSE d > ApiCutoff(i) => For(plan.missing) /\ ~For(plan.api)
=============================================================================

------------------------------ MODULE Coverage ------------------------------
(***************************************************************************)
(* What the ingestion of candles keeps about one asset and interval        *)
(* (src/feefifofunds): the candles in QuestDB, the ranges that are said to *)
(* be covered, and the records of gaps.  CoverageTracker widens and merges *)
(* the ranges; the task backfill_gaps_incremental looks for candles after  *)
(* the last one; the command backfill_kraken_gaps finds short days in      *)
(* QuestDB and fetches them from Kraken.                                   *)
(*                                                                         *)
(* Time is counted in candles of the interval, from a midnight UTC.  A     *)
(* time without a zone is taken for local time by Django and by Python.    *)
(***************************************************************************)
EXTENDS Integers, FiniteSets, FiniteSetsExt

CONSTANTS
    Start,     \* the time at first
    Last,      \* bound: the latest time
    PerDay,    \* candles of a day
    Behind,    \* candles begun between midnight UTC and local midnight (TIME_ZONE)
    Limit,     \* candles that Kraken's API goes back
    Offered,   \* records that get_fillable_gaps returns at most
    Lookback,  \* lookback_days of the task
    Keep,      \* days of cleanup_old_gap_records
    RowId,     \* keys of DataCoverageRange
    GapId,     \* keys of GapRecord
    Worker,    \* workers that may run the task
    None,      \* no row, no record, nothing held
    MaxRuns,   \* bound: operations begun
    MaxFaults  \* bound: failures and deaths

ASSUME BoundAssumption ==
    /\ Last \in Nat \ {0} /\ Start \in 1..Last /\ PerDay \in Nat \ {0}
    /\ Behind \in 0..PerDay
    /\ {Limit, Offered, Lookback, Keep, MaxRuns, MaxFaults} \subseteq Nat
    /\ IsFiniteSet(GapId)

Candle == 1..Last

\* The times that rows may name, a shift to local time included.
Time == 1..Last + Behind

DateRange == {r \in [start : Time, end : Time, count : Nat] : r.start <= r.end}

Status == {"DETECTED", "BACKFILLING", "FILLED", "FAILED", "UNFILLABLE"}

Gap == [start : Nat, end : Nat, fillable : BOOLEAN]

GapRecord == [gap : Gap, status : Status, detected : Candle]

ASSUME SentinelAssumption ==
    None \notin RowId \cup GapId \cup DateRange \cup (RowId \X DateRange) \cup GapRecord

VARIABLES
    now,      \* the candle in progress
    csv,      \* candles stored with source "kraken"
    api,      \* candles stored with source "kraken_api"
    aware,    \* whether the database's answers have a time zone
    rows,     \* rows[i]: a DateRange or None
    tracker,  \* what an update of the coverage goes on to do, and with what
    gaps,     \* gaps[g]: a GapRecord or None
    work,     \* work[w]: the record a run of the task works on
    command,  \* the days a run of the command still has to fill
    claims,   \* fills that a run of the command reported as successful
    stranded, \* history: records whose task died or could not save
    runs,     \* operations begun
    faults    \* faults so far

data == <<now, csv, api, aware>>
ranges == <<rows, tracker>>
records == <<gaps, work, stranded>>
fills == <<command, claims>>
vars == <<data, ranges, records, fills, runs, faults>>

Stored == csv \cup api

\* A time that has no zone, as the database reads or stores it.
AsLocal(t) == t + Behind

\* datetime.now(), beside times in UTC.
LocalNow == now - Behind

\* The rows a query finds, each with its key.
Rows == {<<i, rows[i]>> : i \in {j \in RowId : rows[j] # None}}

Ranges == {x[2] : x \in Rows}

CoverOf(rs) == {t \in Time : \E r \in rs : r.start <= t /\ t <= r.end}

Covered == CoverOf(Ranges)

Begin == runs < MaxRuns /\ runs' = runs + 1

Fault == faults < MaxFaults /\ faults' = faults + 1

\* A candle is completed.
Tick ==
    /\ now < Last
    /\ now' = now + 1
    /\ UNCHANGED <<csv, api, aware, ranges, records, fills, runs, faults>>

\* A file of candles is ingested.
IngestFile(from, to) ==
    /\ Begin
    /\ csv' = csv \cup (from..to)
    /\ UNCHANGED <<now, api, aware, ranges, records, fills, faults>>

-----------------------------------------------------------------------------
(* CoverageTracker.                                                         *)

TrackerIdle == [at |-> "idle", range |-> None, list |-> {}, current |-> None]

\* COUNT(*) counts rows: a candle from both sources counts twice.
RecordCount == Cardinality(csv) + Cardinality(api)

\* The first and the last candle stored, as they will be compared and saved;
\* nothing happens when there is none.
QueryDateRange ==
    /\ tracker.at = "idle" /\ Stored # {}
    /\ Begin
    /\ LET read(t) == IF aware THEN t ELSE AsLocal(t)
       IN  tracker' = [TrackerIdle EXCEPT !.at = "upsert",
                          !.range = [start |-> read(Min(Stored)), end |-> read(Max(Stored)),
                                     count |-> RecordCount]]
    /\ UNCHANGED <<data, rows, records, fills, faults>>

Overlaps(r, q) == r.start <= q.end /\ q.start <= r.end

\* first(): the overlapping row that starts first.
IsFirstOverlap(x) ==
    LET found == {y \in Rows : Overlaps(y[2], tracker.range)}
    IN  x \in found /\ \A y \in found : x[2].start <= y[2].start

\* Mutant: a row that is found keeps its end.
WidenedStart(old, new) ==
    [start |-> Min({old.start, new.start}), end |-> old.end, count |-> new.count]

Widened(old, new) ==
    [start |-> Min({old.start, new.start}), end |-> Max({old.end, new.end}),
     count |-> new.count]

UpdateRange ==
    /\ tracker.at = "upsert" /\ aware
    /\ \E x \in Rows :
          /\ IsFirstOverlap(x)
          /\ rows' = [rows EXCEPT ![x[1]] = Widened(x[2], tracker.range)]
    /\ tracker' = [tracker EXCEPT !.at = "merge"]
    /\ UNCHANGED <<data, records, fills, runs, faults>>

\* min() of a row's date, which has a time zone, and one that has none raises.
UpdateRaises ==
    /\ tracker.at = "upsert" /\ ~ aware
    /\ \E x \in Rows : IsFirstOverlap(x)
    /\ tracker' = TrackerIdle
    /\ UNCHANGED <<data, rows, records, fills, runs, faults>>

CreateRange ==
    /\ tracker.at = "upsert"
    /\ \A x \in Rows : ~ Overlaps(x[2], tracker.range)
    /\ \E i \in RowId : rows[i] = None /\ rows' = [rows EXCEPT ![i] = tracker.range]
    /\ tracker' = [tracker EXCEPT !.at = "merge"]
    /\ UNCHANGED <<data, records, fills, runs, faults>>

\* x is the next of the list, which is sorted by start_date.
IsNext(x, list) == x \in list /\ \A y \in list : x[2].start <= y[2].start

LoadRanges ==
    /\ tracker.at = "merge" /\ tracker.current = None
    /\ IF Cardinality(Rows) <= 1
         THEN tracker' = TrackerIdle
         ELSE \E x \in Rows :
                /\ IsNext(x, Rows)
                /\ tracker' = [tracker EXCEPT !.list = Rows \ {x}, !.current = x]
    /\ UNCHANGED <<data, rows, records, fills, runs, faults>>

\* An overlapping or adjacent range is taken over, and its row deleted.
Touches(current, next) == next.start <= current.end + 1

\* Mutant: ranges sorted by start are taken to be sorted by end, too.
MergedEnd(current, next) ==
    [current EXCEPT !.end = next.end, !.count = current.count + next.count]

Merged(current, next) ==
    [current EXCEPT !.end = Max({current.end, next.end}),
                    !.count = current.count + next.count]

TakeOver(x) ==
    /\ Touches(tracker.current[2], x[2])
    /\ rows' = [rows EXCEPT ![x[1]] = None]
    /\ tracker' = [tracker EXCEPT !.list = tracker.list \ {x},
                       !.current = <<tracker.current[1], Merged(tracker.current[2], x[2])>>]

\* Another one ends current, which is saved.
MoveOn(x) ==
    /\ ~ Touches(tracker.current[2], x[2])
    /\ rows' = [rows EXCEPT ![tracker.current[1]] = tracker.current[2]]
    /\ tracker' = [tracker EXCEPT !.list = tracker.list \ {x}, !.current = x]

MergeNext ==
    /\ tracker.at = "merge" /\ tracker.current # None
    /\ \E x \in tracker.list : IsNext(x, tracker.list) /\ (TakeOver(x) \/ MoveOn(x))
    /\ UNCHANGED <<data, records, fills, runs, faults>>

SaveLast ==
    /\ tracker.at = "merge" /\ tracker.current # None /\ tracker.list = {}
    /\ rows' = [rows EXCEPT ![tracker.current[1]] = tracker.current[2]]
    /\ tracker' = TrackerIdle
    /\ UNCHANGED <<data, records, fills, runs, faults>>

\* Sum("record_count").
Counts(found) == MapThenSumSet(LAMBDA x : x[2].count, found)

\* The issues it reports about what is stored, given the rows; a time without a
\* zone raises.
VerifyCoverageIntegrity(actual, found) ==
    {issue \in {"start", "end", "count"} :
        \/ issue = "start" /\ \A x \in found : x[2].start > actual.start
        \/ issue = "end" /\ \A x \in found : x[2].end < actual.end
        \/ issue = "count" /\ Counts(found) # actual.count}

\* The process dies, or a statement fails and the error is logged: there is no
\* transaction around the merge.
TrackerFails ==
    /\ tracker.at # "idle"
    /\ Fault
    /\ tracker' = TrackerIdle
    /\ UNCHANGED <<data, rows, records, fills, runs>>

-----------------------------------------------------------------------------
(* Gaps and their records.                                                  *)

\* calculate_api_fillability.
ApiFillable(start) == LocalNow - start <= Limit

MakeGap(start, end) ==
    [start |-> AsLocal(start), end |-> AsLocal(end), fillable |-> ApiFillable(start)]

NewRecord(gap, status) == [gap |-> gap, status |-> status, detected |-> now]

Create(g, gap) ==
    /\ gaps[g] = None
    /\ gaps' = [gaps EXCEPT ![g] =
                   NewRecord(gap, IF gap.fillable THEN "DETECTED" ELSE "UNFILLABLE")]

LastTimestamp == Max(Stored)

\* The task looks at the time since the last candle, unless that is too old or
\* not yet a whole candle; it compares times without a zone, and an answer with
\* one raises before anything is recorded.
BackfillGapsIncremental(w) ==
    /\ work[w] = None /\ Stored # {} /\ ~ aware
    /\ Begin
    /\ LET start == LastTimestamp + 1
           gap == MakeGap(start, LocalNow)
       IN  /\ LastTimestamp >= LocalNow - Lookback
           /\ LocalNow - start >= 1
           /\ \E g \in GapId :
                /\ Create(g, gap)
                /\ work' = IF gap.fillable THEN [work EXCEPT ![w] = g] ELSE work
    /\ UNCHANGED <<data, ranges, stranded, fills, faults>>

\* Records that wait to be backfilled, and those that are listed before one of
\* them; of one candle's records, any may come first.
Waiting ==
    {g \in GapId : /\ gaps[g] # None /\ gaps[g].gap.fillable
                   /\ gaps[g].status \in {"DETECTED", "FAILED"}}

Ahead(g) == {h \in Waiting \ {g} : gaps[h].detected >= gaps[g].detected}

\* What is offered to be backfilled, the newest first, and to be downloaded.
GetFillableGaps == {g \in Waiting : Cardinality(Ahead(g)) < Offered}

GetUnfillableGaps == {g \in GapId : gaps[g] # None /\ gaps[g].status = "UNFILLABLE"}

SetStatus(g, status) == gaps' = [gaps EXCEPT ![g].status = status]

MarkBackfilling(w) ==
    /\ work[w] # None /\ gaps[work[w]].status = "DETECTED"
    /\ SetStatus(work[w], "BACKFILLING")
    /\ UNCHANGED <<data, ranges, work, stranded, fills, runs, faults>>

\* Mutant: the error is logged, and the record left as it is.
FetchOnly(w) ==
    /\ work[w] # None /\ gaps[work[w]].status = "BACKFILLING"
    /\ work' = [work EXCEPT ![w] = None]
    /\ UNCHANGED <<data, ranges, gaps, stranded, fills, runs, faults>>

\* fetch_and_save_historical_prices is no method of KrakenDataSource: the call
\* raises, and the handler marks the record.
FetchAndSave(w) ==
    /\ work[w] # None /\ gaps[work[w]].status = "BACKFILLING"
    /\ SetStatus(work[w], "FAILED")
    /\ work' = [work EXCEPT ![w] = None]
    /\ UNCHANGED <<data, ranges, stranded, fills, runs, faults>>

\* The worker dies, or the database refuses a save and the error is recorded.
TaskFails(w) ==
    /\ work[w] # None
    /\ Fault
    /\ stranded' = stranded \cup {work[w]}
    /\ work' = [work EXCEPT ![w] = None]
    /\ UNCHANGED <<data, ranges, gaps, fills, runs>>

\* No record is FILLED, as FetchAndSave shows.
CleanupOldGapRecords ==
    /\ Begin
    /\ gaps' = [g \in GapId |->
                  IF gaps[g] # None /\ gaps[g].status = "FAILED"
                     /\ gaps[g].detected < now - Keep
                    THEN None ELSE gaps[g]]
    /\ gaps' # gaps
    /\ UNCHANGED <<data, ranges, work, stranded, fills, faults>>

-----------------------------------------------------------------------------
(* The command backfill_kraken_gaps.                                        *)

Day(t) == (t - 1) \div PerDay

FirstOf(d) == d * PerDay + 1

\* get_records_per_day counts rows: a candle from both sources counts twice.
RecordsOn(d) ==
    LET on(s) == Cardinality({t \in s : Day(t) = d}) IN on(csv) + on(api)

Short(d) == RecordsOn(d) < PerDay

Days == Day(Min(Stored))..Day(Max(Stored))

\* classify_gap looks at the end of the gap.
ClassifyGap(d) == now - FirstOf(d) <= Limit

\* The runs of short days, each up to the next whole day or to the last day.
DaysOfGaps ==
    {g \in [from : Days, to : Days] :
        /\ Short(g.from)
        /\ g.from = Min(Days) \/ ~ Short(g.from - 1)
        /\ \A d \in g.from..g.to - 1 : Short(d)
        /\ ~ Short(g.to) \/ g.to = Max(Days)}

\* --from-last: from the last candle to now.
DaysFromLast == {[from |-> Day(LastTimestamp), to |-> Day(now)]}

Handle ==
    /\ command = {} /\ Stored # {}
    /\ Begin
    /\ command' \in {{g \in DaysOfGaps : ClassifyGap(g.to)}, DaysFromLast}
    /\ UNCHANGED <<data, ranges, records, claims, faults>>

\* Kraken answers with the complete candles since a time, as far as it goes back.
FetchHistoricalPrices(since) == {t \in since..now - 1 : t > now - Limit}

\* Mutant: the day after the last one with candles.
SinceNext(g) == FirstOf(g.from + 1) + Behind

\* start_date at midnight, without a zone: local midnight.
Since(g) == FirstOf(g.from) + Behind

Claim(g) == [from |-> g.from, to |-> g.to, reach |-> now - Limit, until |-> now]

BackfillGap(g) ==
    /\ g \in command
    /\ command' = command \ {g}
    /\ LET prices == FetchHistoricalPrices(Since(g))
       IN  /\ api' = api \cup prices
           /\ claims' = IF prices = {} THEN claims ELSE claims \cup {Claim(g)}
    /\ UNCHANGED <<now, csv, aware, ranges, records, runs, faults>>

\* A request or a connection fails; some rows may have been flushed.
BackfillGapFails(g) ==
    /\ g \in command
    /\ Fault
    /\ command' = command \ {g}
    /\ \E s \in SUBSET FetchHistoricalPrices(Since(g)) : api' = api \cup s
    /\ UNCHANGED <<now, csv, aware, ranges, records, claims, runs>>

-----------------------------------------------------------------------------
\* A row as an earlier update wrote it.
WrittenRange ==
    {[start |-> t[1], end |-> t[2], count |-> t[2] - t[1] + 1] :
        t \in {u \in (1..Start - 1) \X (1..Start - 1) : u[1] <= u[2]}}

Init ==
    /\ now = Start /\ csv \in SUBSET (1..now - 1) /\ api = {} /\ aware \in BOOLEAN
    /\ rows \in [RowId -> WrittenRange \cup {None}]
    /\ \E i \in RowId : rows[i] = None
    /\ tracker = TrackerIdle
    /\ gaps = [g \in GapId |-> None]
    /\ work = [w \in Worker |-> None] /\ stranded = {}
    /\ command = {} /\ claims = {}
    /\ runs = 0 /\ faults = 0

Track ==
    \/ QueryDateRange \/ UpdateRange \/ UpdateRaises \/ CreateRange
    \/ LoadRanges \/ MergeNext \/ SaveLast

Task(w) == BackfillGapsIncremental(w) \/ MarkBackfilling(w) \/ FetchAndSave(w)

Fill == Handle \/ \E g \in command : BackfillGap(g) \/ BackfillGapFails(g)

Next ==
    \/ Tick
    \/ \E from, to \in 1..now - 1 : from <= to /\ IngestFile(from, to)
    \/ Track \/ TrackerFails
    \/ \E w \in Worker : Task(w) \/ TaskFails(w)
    \/ CleanupOldGapRecords
    \/ Fill

Spec == Init /\ [][Next]_vars

-----------------------------------------------------------------------------
(* Properties.                                                              *)

\* Every variable has its type.
TypeOK ==
    /\ now \in Candle /\ csv \subseteq Candle /\ api \subseteq Candle /\ aware \in BOOLEAN
    /\ rows \in [RowId -> DateRange \cup {None}]
    /\ tracker \in [at : {"idle", "upsert", "merge"}, range : DateRange \cup {None},
                    list : SUBSET (RowId \X DateRange),
                    current : (RowId \X DateRange) \cup {None}]
    /\ gaps \in [GapId -> GapRecord \cup {None}]
    /\ work \in [Worker -> GapId \cup {None}]
    /\ command \subseteq [from : 0..Last, to : 0..Last]
    /\ claims \subseteq [from : 0..Last, to : 0..Last, reach : Int, until : Candle]
    /\ stranded \subseteq GapId
    /\ runs \in 0..MaxRuns /\ faults \in 0..MaxFaults

\* What the rows cover, with the range that a merge holds and has not saved yet.
Held == IF tracker.current = None THEN {} ELSE {tracker.current[2]}

Effective == Covered \cup CoverOf(Held)

\* A merge is cut off, with what it holds.
CutOff == tracker.current # None /\ tracker' = TrackerIdle /\ faults' # faults

\* Merging ranges neither forgets a day nor invents one, at any of its steps: rows
\* are deleted only once their days are held in the range to be saved
\* (merge_overlapping_ranges).  A merge that is cut off in between does forget.
MergeKeepsCoverage ==
    [][ /\ ~ CutOff => Effective \subseteq Effective'
        /\ tracker.at = "merge" => Effective' \subseteq Effective ]_vars

\* Whatever merges that were cut off have forgotten, an update that runs to its end
\* leaves every day covered from the first candle to the last that it found, and
\* verify_coverage_integrity finds no fault with the ends.  It may still find the
\* count wrong, which a merge adds up (update_coverage_for_asset).
UpdateRepairs ==
    [][ tracker.at = "merge" /\ tracker'.at = "idle" /\ faults' = faults =>
          /\ CoverOf({tracker.range}) \subseteq Covered'
          /\ VerifyCoverageIntegrity(tracker.range, Rows') \subseteq {"count"} ]_vars

\* No record is lost sight of: it is offered to be backfilled or downloaded
\* (get_fillable_gaps, get_unfillable_gaps), or waits until fewer than the limit
\* are listed before it, or a worker works on it, unless that worker died or could
\* not save the outcome.
RecordsAreOffered ==
    \A g \in GapId \ stranded :
        gaps[g] # None =>
            \/ g \in GetFillableGaps \cup GetUnfillableGaps
            \/ g \in Waiting /\ Cardinality(Ahead(g)) >= Offered
            \/ \E w \in Worker : work[w] = g

\* After the command reported a gap as filled, no day of it is short that Kraken
\* could still serve as a whole, so that another run does not find it again, but
\* for the first, of which it asked for the candles since local midnight only.
FilledDaysAreWhole ==
    \A c \in claims : \A d \in c.from..c.to - 1 :
        FirstOf(d) > c.reach /\ FirstOf(d + 1) <= c.until =>
            /\ Short(d) => d = c.from
            /\ RecordsOn(d) >= PerDay - Behind
=============================================================================

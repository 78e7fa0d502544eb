--------------------------- MODULE CoverageProofs ---------------------------
(***************************************************************************)
(* Proofs about Coverage, for any length of time, any sizes of days and    *)
(* limits, and any number of ranges, records and workers.                  *)
(***************************************************************************)
EXTENDS Coverage, FiniteSetTheorems, WellFoundedInduction, TLAPS

-----------------------------------------------------------------------------
(* Numbers.                                                                 *)

\* Induction, as a fact about sets: what fails for some number fails for a least.
LEMMA Least ==
  ASSUME NEW S \in SUBSET Nat, S # {}
  PROVE  \E n \in S : \A m \in S : n <= m
  <1>1. PICK n \in S : \A m \in S : ~ (<<m, n>> \in OpToRel(<, Nat))
    BY WFMin, NatLessThanWellFounded
  <1>2. ASSUME NEW m \in S PROVE ~ (m < n)
    BY <1>1, Zenon DEF OpToRel
  <1>3. QED
    BY <1>2

LEMMA MinFacts ==
  ASSUME NEW S \in SUBSET Nat, S # {}
  PROVE  Min(S) \in S /\ \A x \in S : Min(S) <= x
  BY Least DEF Min

LEMMA MaxFacts ==
  ASSUME NEW n \in Nat, NEW S \in SUBSET (0..n), S # {}
  PROVE  Max(S) \in S /\ \A x \in S : x <= Max(S)
  <1> DEFINE T == {k \in Nat : n - k \in S}
  <1>1. T # {}
    <2>1. PICK x \in S : TRUE
      OBVIOUS
    <2>2. n - x \in Nat /\ n - (n - x) = x
      BY <2>1
    <2>3. QED
      BY <2>1, <2>2
  <1>2. PICK k \in T : \A m \in T : k <= m
    BY <1>1, Least
  <1>3. n - k \in S /\ k \in Nat
    BY <1>2
  <1>4. ASSUME NEW x \in S PROVE x <= n - k
    <2>1. n - x \in Nat /\ n - (n - x) = x
      BY <1>4
    <2>2. k <= n - x
      BY <1>2, <1>4, <2>1
    <2>3. QED
      BY <1>3, <1>4, <2>2
  <1>5. \E y \in S : \A x \in S : y >= x
    BY <1>3, <1>4
  <1>6. QED
    BY <1>5 DEF Max

\* The larger and the smaller of two.
LEMMA MaxOfTwo ==
  ASSUME NEW a \in Nat, NEW b \in Nat
  PROVE  /\ Max({a, b}) \in {a, b} /\ a <= Max({a, b}) /\ b <= Max({a, b})
         /\ Min({a, b}) \in {a, b} /\ Min({a, b}) <= a /\ Min({a, b}) <= b
  <1>1. {a, b} \in SUBSET (0..a + b)
    OBVIOUS
  <1>2. QED
    BY <1>1, MaxFacts, MinFacts

LEMMA Bounds ==
  /\ Last \in Nat /\ Last >= 1 /\ Start \in 1..Last /\ PerDay \in Nat /\ PerDay >= 1
  /\ Behind \in Nat /\ Behind <= PerDay
  /\ Limit \in Nat /\ Offered \in Nat /\ Lookback \in Nat /\ Keep \in Nat
  /\ MaxRuns \in Nat /\ MaxFaults \in Nat
  BY BoundAssumption

LEMMA Sentinels ==
  /\ None \notin RowId /\ None \notin GapId /\ None \notin DateRange
  /\ None \notin RowId \X DateRange /\ None \notin GapRecord
  BY SentinelAssumption

\* The candles of a day.
LEMMA DayFacts ==
  /\ \A t \in Candle : Day(t) \in 0..Last
  /\ \A d \in Nat : FirstOf(d) \in Nat /\ FirstOf(d) >= 1 /\ FirstOf(d + 1) = FirstOf(d) + PerDay
  /\ \A d, e \in Nat : d <= e => FirstOf(d) <= FirstOf(e)
  /\ \A d, t \in Nat : FirstOf(d) <= t /\ t < FirstOf(d + 1) => Day(t) = d
  <1> USE Bounds
  <1>1. ASSUME NEW t \in Candle PROVE Day(t) \in 0..Last
    <2>1. t - 1 \in Nat /\ t - 1 <= Last
      BY DEF Candle
    <2>2. (t - 1) \div PerDay \in Nat /\ (t - 1) \div PerDay <= t - 1
      BY <2>1
    <2>3. QED
      BY <2>1, <2>2 DEF Day
  <1>2. ASSUME NEW d \in Nat
        PROVE  FirstOf(d) \in Nat /\ FirstOf(d) >= 1 /\ FirstOf(d + 1) = FirstOf(d) + PerDay
    <2>1. d * PerDay \in Nat /\ (d + 1) * PerDay = d * PerDay + PerDay
      OBVIOUS
    <2>2. QED
      BY <2>1 DEF FirstOf
  <1>3. ASSUME NEW d \in Nat, NEW e \in Nat, d <= e PROVE FirstOf(d) <= FirstOf(e)
    <2>1. PICK k \in Nat : e = d + k
      BY <1>3
    <2>2. e * PerDay = d * PerDay + k * PerDay /\ k * PerDay \in Nat /\ d * PerDay \in Nat
      BY <2>1
    <2>3. QED
      BY <2>2 DEF FirstOf
  <1>4. ASSUME NEW d \in Nat, NEW t \in Nat, FirstOf(d) <= t, t < FirstOf(d + 1)
        PROVE  Day(t) = d
    <2>1. d * PerDay \in Nat /\ (d + 1) * PerDay = d * PerDay + PerDay
      OBVIOUS
    <2>2. PICK r \in 0..PerDay - 1 : t - 1 = d * PerDay + r
      BY <1>4, <2>1 DEF FirstOf
    <2>3. (d * PerDay + r) \div PerDay = d
      OBVIOUS
    <2>4. QED
      BY <2>2, <2>3 DEF Day
  <1>5. QED
    BY <1>1, <1>2, <1>3, <1>4

-----------------------------------------------------------------------------
(* Types, and what a tracker and a task need of the rows and records they   *)
(* hold on to.                                                              *)

DataOK == now \in Candle /\ csv \subseteq Candle /\ api \subseteq Candle /\ aware \in BOOLEAN

RowsOK == rows \in [RowId -> DateRange \cup {None}]

TrackerOK ==
    tracker \in [at : {"idle", "upsert", "merge"}, range : DateRange \cup {None},
                 list : SUBSET (RowId \X DateRange),
                 current : (RowId \X DateRange) \cup {None}]

GapsOK == gaps \in [GapId -> GapRecord \cup {None}]

WorkOK == work \in [Worker -> GapId \cup {None}] /\ stranded \subseteq GapId

FillsOK ==
    /\ command \subseteq [from : 0..Last, to : 0..Last]
    /\ claims \subseteq [from : 0..Last, to : 0..Last, reach : Int, until : Candle]

CountsOK == runs \in 0..MaxRuns /\ faults \in 0..MaxFaults

LEMMA TypeParts ==
  /\ TypeOK <=> /\ DataOK /\ RowsOK /\ TrackerOK /\ GapsOK
                /\ WorkOK /\ FillsOK /\ CountsOK
  /\ TypeOK' <=> /\ DataOK' /\ RowsOK' /\ TrackerOK' /\ GapsOK'
                 /\ WorkOK' /\ FillsOK' /\ CountsOK'
  BY DEF TypeOK, DataOK, RowsOK, TrackerOK, GapsOK, WorkOK, FillsOK, CountsOK

\* An update of the coverage knows the range it is about.
TrackerKnows == tracker.at # "idle" => tracker.range # None

\* A task works on a record that is there and could be filled, and no other task does.
TaskHolds ==
    /\ \A w \in Worker : work[w] # None =>
          /\ gaps[work[w]] # None /\ gaps[work[w]].gap.fillable
          /\ gaps[work[w]].status \in {"DETECTED", "BACKFILLING"}
    /\ \A v, w \in Worker : work[v] # None /\ work[v] = work[w] => v = w

TypeInv == TypeOK /\ TrackerKnows /\ TaskHolds

LEMMA Parts ==
  ASSUME TypeInv
  PROVE  /\ DataOK /\ RowsOK /\ TrackerOK /\ GapsOK /\ WorkOK /\ FillsOK
         /\ CountsOK /\ TrackerKnows /\ TaskHolds
  BY TypeParts DEF TypeInv

LEMMA CandleFacts ==
  /\ Candle = 1..Last /\ \A t \in Candle : t \in Nat /\ t >= 1 /\ t <= Last
  /\ Time = 1..Last + Behind /\ \A t \in Time : t \in Nat /\ t >= 1 /\ t <= Last + Behind
  /\ \A t \in Candle : t \in Time /\ AsLocal(t) \in Time
  /\ \A r \in DateRange :
        r.start \in Time /\ r.end \in Time /\ r.start <= r.end /\ r.count \in Nat
  /\ \A s, e \in Time, n \in Nat :
        s <= e => [start |-> s, end |-> e, count |-> n] \in DateRange
  BY Bounds DEF Candle, Time, DateRange, AsLocal

LEMMA StoredFacts ==
  ASSUME DataOK, Stored # {}
  PROVE  /\ Min(Stored) \in Candle /\ Max(Stored) \in Candle
         /\ \A t \in Stored : Min(Stored) <= t /\ t <= Max(Stored)
         /\ Min(Stored) <= Max(Stored)
         /\ LastTimestamp = Max(Stored)
  <1>1. Stored \in SUBSET Nat /\ Stored \in SUBSET (0..Last) /\ Stored \subseteq Candle
    BY CandleFacts DEF DataOK, Stored
  <1>2. Min(Stored) \in Stored /\ \A t \in Stored : Min(Stored) <= t
    BY <1>1, MinFacts
  <1>3. Max(Stored) \in Stored /\ \A t \in Stored : t <= Max(Stored)
    BY <1>1, Bounds, MaxFacts
  <1>4. QED
    BY <1>1, <1>2, <1>3 DEF LastTimestamp

\* A step's operations begun, and its faults.
LEMMA Counted ==
  ASSUME CountsOK
  PROVE  /\ Begin => runs' \in 0..MaxRuns
         /\ Fault => faults' \in 0..MaxFaults
  BY Bounds DEF CountsOK, Begin, Fault

\* A step about one of the parts leaves the others as they are.
LEMMA Frames ==
  ASSUME TypeInv
  PROVE  /\ UNCHANGED data => DataOK'
         /\ UNCHANGED ranges => RowsOK' /\ TrackerOK' /\ TrackerKnows'
         /\ UNCHANGED records => GapsOK' /\ WorkOK' /\ TaskHolds'
         /\ UNCHANGED fills => FillsOK'
         /\ UNCHANGED <<runs, faults>> => CountsOK'
         /\ Begin /\ UNCHANGED faults => CountsOK'
         /\ Fault /\ UNCHANGED runs => CountsOK'
  <1> USE Parts
  <1>1. UNCHANGED data => DataOK'
    BY DEF data, DataOK
  <1>2. UNCHANGED ranges => RowsOK' /\ TrackerOK' /\ TrackerKnows'
    BY DEF ranges, RowsOK, TrackerOK, TrackerKnows
  <1>3. UNCHANGED records => GapsOK' /\ WorkOK' /\ TaskHolds'
    BY DEF records, GapsOK, WorkOK, TaskHolds
  <1>4. UNCHANGED fills => FillsOK'
    BY DEF fills, FillsOK
  <1>5. /\ UNCHANGED <<runs, faults>> => CountsOK'
        /\ Begin /\ UNCHANGED faults => CountsOK'
        /\ Fault /\ UNCHANGED runs => CountsOK'
    BY Counted DEF CountsOK
  <1>6. QED
    BY <1>1, <1>2, <1>3, <1>4, <1>5

-----------------------------------------------------------------------------
(* Rows and their ranges.                                                   *)

LEMMA RangesFacts ==
  ASSUME RowsOK
  PROVE  /\ Ranges \subseteq DateRange
         /\ \A r : r \in Ranges <=> \E i \in RowId : rows[i] # None /\ rows[i] = r
         /\ \A x : x \in Rows <=> \E i \in RowId : rows[i] # None /\ x = <<i, rows[i]>>
  <1>1. \A x : x \in Rows <=> \E i \in RowId : rows[i] # None /\ x = <<i, rows[i]>>
    BY DEF Rows
  <1>2. \A r : r \in Ranges <=> \E x \in Rows : r = x[2]
    BY DEF Ranges
  <1>3. ASSUME NEW i \in RowId, rows[i] # None PROVE rows[i] \in Ranges
    <2>1. <<i, rows[i]>> \in Rows /\ <<i, rows[i]>>[2] = rows[i]
      BY <1>1, <1>3
    <2>2. QED
      BY <1>2, <2>1
  <1>4. ASSUME NEW r \in Ranges PROVE \E i \in RowId : rows[i] # None /\ rows[i] = r
    <2>1. PICK x \in Rows : r = x[2]
      BY <1>2, <1>4
    <2>2. PICK i \in RowId : rows[i] # None /\ x = <<i, rows[i]>>
      BY <1>1, <2>1
    <2>3. x[2] = rows[i]
      BY <2>2
    <2>4. QED
      BY <2>1, <2>2, <2>3
  <1>5. QED
    BY <1>1, <1>3, <1>4 DEF RowsOK

LEMMA MakeGapFacts ==
  ASSUME now \in Candle, NEW s \in Nat, NEW e \in Int, s <= e
  PROVE  MakeGap(s, e) \in Gap
  <1>1. ApiFillable(s) \in BOOLEAN
    BY DEF ApiFillable
  <1>2. AsLocal(s) \in Nat /\ AsLocal(e) \in Nat
    BY Bounds DEF AsLocal
  <1>3. QED
    BY <1>1, <1>2 DEF MakeGap, Gap

-----------------------------------------------------------------------------
(* Every step keeps the types.                                              *)

LEMMA IdleFacts ==
  /\ TrackerIdle.at = "idle" /\ TrackerIdle.current = None /\ TrackerIdle.range = None
  /\ tracker' = TrackerIdle => TrackerOK' /\ TrackerKnows'
  <1>1. TrackerIdle \in [at : {"idle", "upsert", "merge"}, range : DateRange \cup {None},
                         list : SUBSET (RowId \X DateRange),
                         current : (RowId \X DateRange) \cup {None}]
        /\ TrackerIdle.at = "idle" /\ TrackerIdle.current = None /\ TrackerIdle.range = None
    BY DEF TrackerIdle
  <1>2. QED
    BY <1>1 DEF TrackerOK, TrackerKnows

\* The rows as pairs, and the range that an update is about.
LEMMA PairFacts ==
  ASSUME TypeInv
  PROVE  /\ \A x \in Rows : /\ x \in RowId \X DateRange /\ x[1] \in RowId /\ x[2] \in DateRange
                            /\ rows[x[1]] = x[2] /\ rows[x[1]] # None
         /\ tracker.at # "idle" => tracker.range \in DateRange
         /\ \A x \in tracker.list : x \in RowId \X DateRange /\ x[1] \in RowId /\ x[2] \in DateRange
         /\ tracker.current # None =>
               /\ tracker.current \in RowId \X DateRange
               /\ tracker.current[1] \in RowId /\ tracker.current[2] \in DateRange
  <1> USE Parts
  <1>1. ASSUME NEW x \in Rows
        PROVE  /\ x \in RowId \X DateRange /\ x[1] \in RowId /\ x[2] \in DateRange
               /\ rows[x[1]] = x[2] /\ rows[x[1]] # None
    <2>1. PICK i \in RowId : rows[i] # None /\ x = <<i, rows[i]>>
      BY <1>1, RangesFacts
    <2>2. rows[i] \in DateRange /\ x[1] = i /\ x[2] = rows[i]
      BY <2>1 DEF RowsOK
    <2>3. QED
      BY <2>1, <2>2
  <1>2. tracker.at # "idle" => tracker.range \in DateRange
    BY DEF TrackerOK, TrackerKnows
  <1>3. \A x \in tracker.list : x \in RowId \X DateRange
    BY DEF TrackerOK
  <1>4. tracker.current # None => tracker.current \in RowId \X DateRange
    BY DEF TrackerOK
  <1>5. \A x \in RowId \X DateRange : x[1] \in RowId /\ x[2] \in DateRange
    OBVIOUS
  <1>6. QED
    BY <1>1, <1>2, <1>3, <1>4, <1>5

\* A range reaches as far as both that it replaces.
LEMMA WidenFacts ==
  ASSUME NEW r \in DateRange, NEW q \in DateRange
  PROVE  /\ Widened(r, q) \in DateRange
         /\ Widened(r, q).start <= r.start /\ Widened(r, q).start <= q.start
         /\ r.end <= Widened(r, q).end /\ q.end <= Widened(r, q).end
  <1>1. /\ r.start \in Time /\ r.end \in Time /\ r.start <= r.end
        /\ q.start \in Time /\ q.end \in Time /\ q.start <= q.end /\ q.count \in Nat
    BY CandleFacts
  <1>2. PICK lo \in {r.start, q.start} :
          lo = Min({r.start, q.start}) /\ lo <= r.start /\ lo <= q.start
    BY <1>1, CandleFacts, MaxOfTwo
  <1>3. PICK hi \in {r.end, q.end} : hi = Max({r.end, q.end}) /\ r.end <= hi /\ q.end <= hi
    BY <1>1, CandleFacts, MaxOfTwo
  <1>4. lo \in Time /\ hi \in Time /\ lo <= hi
    BY <1>1, <1>2, <1>3, CandleFacts
  <1>5. [start |-> lo, end |-> hi, count |-> q.count] \in DateRange
    BY <1>1, <1>4, CandleFacts
  <1>6. Widened(r, q) = [start |-> lo, end |-> hi, count |-> q.count]
    BY <1>2, <1>3 DEF Widened
  <1>7. QED
    BY <1>2, <1>3, <1>5, <1>6

LEMMA MergedFacts ==
  ASSUME NEW r \in DateRange, NEW q \in DateRange
  PROVE  /\ Merged(r, q) \in DateRange /\ Merged(r, q).start = r.start
         /\ r.end <= Merged(r, q).end /\ q.end <= Merged(r, q).end
         /\ Merged(r, q).end \in {r.end, q.end}
  <1>1. /\ r.start \in Time /\ r.end \in Time /\ r.start <= r.end /\ q.end \in Time
        /\ r.count \in Nat /\ q.count \in Nat
    BY CandleFacts
  <1>2. PICK hi \in {r.end, q.end} : hi = Max({r.end, q.end}) /\ r.end <= hi /\ q.end <= hi
    BY <1>1, CandleFacts, MaxOfTwo
  <1>3. hi \in Time /\ r.start <= hi
    BY <1>1, <1>2, CandleFacts
  <1>4. PICK n \in Nat : n = r.count + q.count
    BY <1>1
  <1>5. Merged(r, q) = [start |-> r.start, end |-> hi, count |-> n]
    <2>1. r = [start |-> r.start, end |-> r.end, count |-> r.count]
      BY DEF DateRange
    <2>2. Merged(r, q) = [r EXCEPT !.end = hi, !.count = n]
      BY <1>2, <1>4 DEF Merged
    <2>3. QED
      BY <2>1, <2>2
  <1>6. QED
    BY <1>1, <1>2, <1>3, <1>4, <1>5, CandleFacts

LEMMA WriteRow ==
  ASSUME RowsOK, NEW i \in RowId, NEW r \in DateRange \cup {None}, rows' = [rows EXCEPT ![i] = r]
  PROVE  RowsOK' /\ rows'[i] = r /\ \A j \in RowId : j # i => rows'[j] = rows[j]
  BY DEF RowsOK

\* What the tracker goes on with.
LEMMA TrackerFacts ==
  ASSUME TrackerOK
  PROVE  /\ \A at \in {"idle", "upsert", "merge"} : tracker' = [tracker EXCEPT !.at = at] =>
              /\ TrackerOK' /\ tracker'.at = at /\ tracker'.range = tracker.range
              /\ tracker'.current = tracker.current /\ tracker'.list = tracker.list
         /\ \A list \in SUBSET (RowId \X DateRange), current \in RowId \X DateRange :
              tracker' = [tracker EXCEPT !.list = list, !.current = current] =>
                /\ TrackerOK' /\ tracker'.at = tracker.at /\ tracker'.range = tracker.range
                /\ tracker'.current = current /\ tracker'.list = list
  BY DEF TrackerOK

LEMMA RecordCountFacts ==
  ASSUME DataOK
  PROVE  RecordCount \in Nat
  <1>1. IsFiniteSet(Candle) /\ csv \subseteq Candle /\ api \subseteq Candle
    BY Bounds, FS_Interval DEF DataOK, Candle
  <1>2. Cardinality(csv) \in Nat /\ Cardinality(api) \in Nat
    BY <1>1, FS_Subset, FS_CardinalityType
  <1>3. QED
    BY <1>2 DEF RecordCount

LEMMA QueryTypes ==
  ASSUME TypeInv, QueryDateRange
  PROVE  TrackerOK' /\ TrackerKnows' /\ tracker'.at = "upsert" /\ tracker'.current = None
  <1> DEFINE read(t) == IF aware THEN t ELSE AsLocal(t)
  <1>1. /\ Stored # {}
        /\ tracker' = [TrackerIdle EXCEPT !.at = "upsert",
                          !.range = [start |-> read(Min(Stored)), end |-> read(Max(Stored)),
                                     count |-> RecordCount]]
    BY DEF QueryDateRange
  <1>2. PICK a \in Candle, b \in Candle : a = Min(Stored) /\ b = Max(Stored) /\ a <= b
    BY <1>1, Parts, StoredFacts
  <1>3. read(a) \in Time /\ read(b) \in Time /\ read(a) <= read(b)
    BY <1>2, CandleFacts, Bounds DEF AsLocal
  <1>4. PICK from \in Time, to \in Time : from = read(Min(Stored)) /\ to = read(Max(Stored))
                                         /\ from <= to
    BY <1>2, <1>3
  <1> HIDE DEF read
  <1>5. [start |-> from, end |-> to, count |-> RecordCount] \in DateRange
    BY <1>4, Parts, RecordCountFacts, CandleFacts
  <1>6. PICK range \in DateRange :
          range = [start |-> read(Min(Stored)), end |-> read(Max(Stored)), count |-> RecordCount]
    BY <1>4, <1>5
  <1>7. tracker' = [at |-> "upsert", range |-> range, list |-> {}, current |-> None]
    BY <1>1, <1>6 DEF TrackerIdle
  <1>8. QED
    BY <1>7, Sentinels DEF TrackerOK, TrackerKnows

\* One row is written, and covers the range; nothing else that was covered is not.
LEMMA UpsertTypes ==
  ASSUME TypeInv, UpdateRange \/ CreateRange
  PROVE  /\ RowsOK' /\ TrackerOK' /\ TrackerKnows'
         /\ tracker'.at = "merge" /\ tracker'.range = tracker.range
         /\ tracker'.current = tracker.current
         /\ tracker.range \in DateRange
         /\ \E i \in RowId :
              /\ rows'[i] \in DateRange
              /\ rows'[i].start <= tracker.range.start /\ tracker.range.end <= rows'[i].end
              /\ rows[i] # None => rows'[i].start <= rows[i].start /\ rows[i].end <= rows'[i].end
              /\ \A j \in RowId : j # i => rows'[j] = rows[j]
  <1> USE Parts
  <1>1. tracker.at = "upsert" /\ tracker' = [tracker EXCEPT !.at = "merge"]
    BY DEF UpdateRange, CreateRange
  <1>2. tracker.range \in DateRange
    BY <1>1, PairFacts
  <1>3. /\ TrackerOK' /\ TrackerKnows' /\ tracker'.at = "merge" /\ tracker'.range = tracker.range
        /\ tracker'.current = tracker.current
    BY <1>1, <1>2, TrackerFacts DEF TrackerKnows
  <1>4. ASSUME NEW x \in Rows, rows' = [rows EXCEPT ![x[1]] = Widened(x[2], tracker.range)]
        PROVE  RowsOK' /\ \E i \in RowId :
                 /\ rows'[i] \in DateRange
                 /\ rows'[i].start <= tracker.range.start /\ tracker.range.end <= rows'[i].end
                 /\ rows[i] # None => rows'[i].start <= rows[i].start /\ rows[i].end <= rows'[i].end
                 /\ \A j \in RowId : j # i => rows'[j] = rows[j]
    <2>1. x[1] \in RowId /\ x[2] \in DateRange /\ rows[x[1]] = x[2]
      BY PairFacts
    <2>2. PICK new \in DateRange :
            /\ new = Widened(x[2], tracker.range)
            /\ new.start <= x[2].start /\ new.start <= tracker.range.start
            /\ x[2].end <= new.end /\ tracker.range.end <= new.end
      BY <1>2, <2>1, WidenFacts
    <2>3. rows' = [rows EXCEPT ![x[1]] = new]
      BY <1>4, <2>2
    <2>4. RowsOK' /\ rows'[x[1]] = new /\ \A j \in RowId : j # x[1] => rows'[j] = rows[j]
      BY <2>1, <2>3, WriteRow
    <2>5. QED
      BY <2>1, <2>2, <2>4
  <1>5. ASSUME NEW i \in RowId, rows[i] = None, rows' = [rows EXCEPT ![i] = tracker.range]
        PROVE  /\ RowsOK' /\ rows'[i] \in DateRange
               /\ rows'[i].start <= tracker.range.start /\ tracker.range.end <= rows'[i].end
               /\ \A j \in RowId : j # i => rows'[j] = rows[j]
    <2>1. /\ RowsOK' /\ rows'[i] = tracker.range
          /\ \A j \in RowId : j # i => rows'[j] = rows[j]
      BY <1>2, <1>5, WriteRow
    <2>2. QED
      BY <1>2, <2>1, CandleFacts
  <1>6. \/ \E x \in Rows : rows' = [rows EXCEPT ![x[1]] = Widened(x[2], tracker.range)]
        \/ \E i \in RowId : rows[i] = None /\ rows' = [rows EXCEPT ![i] = tracker.range]
    BY DEF UpdateRange, CreateRange
  <1>7. QED
    BY <1>2, <1>3, <1>4, <1>5, <1>6

LEMMA LoadTypes ==
  ASSUME TypeInv, LoadRanges
  PROVE  /\ TrackerOK' /\ TrackerKnows' /\ UNCHANGED rows
         /\ tracker.at = "merge" /\ tracker.current = None
         /\ \/ tracker' = TrackerIdle
            \/ \E x \in Rows :
                 /\ \A y \in Rows : x[2].start <= y[2].start
                 /\ tracker'.list = Rows \ {x} /\ tracker'.current = x
                 /\ tracker'.at = "merge" /\ tracker'.range = tracker.range
  <1> USE Parts
  <1>1. tracker.at = "merge" /\ tracker.current = None /\ UNCHANGED rows
    BY DEF LoadRanges
  <1>2. CASE tracker' = TrackerIdle
    BY <1>1, <1>2, IdleFacts
  <1>3. ASSUME NEW x \in Rows, IsNext(x, Rows),
               tracker' = [tracker EXCEPT !.list = Rows \ {x}, !.current = x]
        PROVE  /\ TrackerOK' /\ TrackerKnows'
               /\ \A y \in Rows : x[2].start <= y[2].start
               /\ tracker'.list = Rows \ {x} /\ tracker'.current = x
               /\ tracker'.at = "merge" /\ tracker'.range = tracker.range
    <2>1. x \in RowId \X DateRange /\ Rows \ {x} \in SUBSET (RowId \X DateRange)
      BY PairFacts
    <2>2. /\ TrackerOK' /\ tracker'.at = tracker.at /\ tracker'.range = tracker.range
          /\ tracker'.current = x /\ tracker'.list = Rows \ {x}
      BY <1>3, <2>1, TrackerFacts
    <2>3. QED
      BY <1>1, <1>3, <2>2 DEF TrackerKnows, IsNext
  <1>4. QED
    BY <1>1, <1>2, <1>3 DEF LoadRanges

LEMMA MergeTypes ==
  ASSUME TypeInv, NEW x \in tracker.list, tracker.at = "merge", tracker.current # None
  PROVE  /\ TakeOver(x) =>
              /\ RowsOK' /\ TrackerOK' /\ TrackerKnows'
              /\ rows'[x[1]] = None /\ \A j \in RowId : j # x[1] => rows'[j] = rows[j]
              /\ tracker'.at = "merge" /\ tracker'.range = tracker.range
              /\ tracker'.list = tracker.list \ {x}
              /\ tracker'.current = <<tracker.current[1], Merged(tracker.current[2], x[2])>>
         /\ MoveOn(x) =>
              /\ RowsOK' /\ TrackerOK' /\ TrackerKnows'
              /\ rows'[tracker.current[1]] = tracker.current[2]
              /\ \A j \in RowId : j # tracker.current[1] => rows'[j] = rows[j]
              /\ tracker'.at = "merge" /\ tracker'.range = tracker.range
              /\ tracker'.list = tracker.list \ {x} /\ tracker'.current = x
  <1> USE Parts
  <1>1. /\ x \in RowId \X DateRange /\ x[1] \in RowId /\ x[2] \in DateRange
        /\ tracker.current[1] \in RowId /\ tracker.current[2] \in DateRange
        /\ tracker.list \ {x} \in SUBSET (RowId \X DateRange)
    BY PairFacts
  <1>2. ASSUME TakeOver(x)
        PROVE  /\ RowsOK' /\ TrackerOK' /\ TrackerKnows'
               /\ rows'[x[1]] = None /\ \A j \in RowId : j # x[1] => rows'[j] = rows[j]
               /\ tracker'.at = "merge" /\ tracker'.range = tracker.range
               /\ tracker'.list = tracker.list \ {x}
               /\ tracker'.current = <<tracker.current[1], Merged(tracker.current[2], x[2])>>
    <2>1. rows' = [rows EXCEPT ![x[1]] = None]
      BY <1>2 DEF TakeOver
    <2>2. RowsOK' /\ rows'[x[1]] = None /\ \A j \in RowId : j # x[1] => rows'[j] = rows[j]
      BY <1>1, <2>1, WriteRow
    <2>3. <<tracker.current[1], Merged(tracker.current[2], x[2])>> \in RowId \X DateRange
      BY <1>1, MergedFacts
    <2>4. PICK new \in RowId \X DateRange :
            new = <<tracker.current[1], Merged(tracker.current[2], x[2])>>
      BY <2>3
    <2>5. tracker' = [tracker EXCEPT !.list = tracker.list \ {x}, !.current = new]
      BY <1>2, <2>4 DEF TakeOver
    <2>6. /\ TrackerOK' /\ tracker'.at = tracker.at /\ tracker'.range = tracker.range
          /\ tracker'.current = new /\ tracker'.list = tracker.list \ {x}
      BY <1>1, <2>5, TrackerFacts
    <2>7. QED
      BY <2>2, <2>4, <2>6 DEF TrackerKnows
  <1>3. ASSUME MoveOn(x)
        PROVE  /\ RowsOK' /\ TrackerOK' /\ TrackerKnows'
               /\ rows'[tracker.current[1]] = tracker.current[2]
               /\ \A j \in RowId : j # tracker.current[1] => rows'[j] = rows[j]
               /\ tracker'.at = "merge" /\ tracker'.range = tracker.range
               /\ tracker'.list = tracker.list \ {x} /\ tracker'.current = x
    <2>1. /\ rows' = [rows EXCEPT ![tracker.current[1]] = tracker.current[2]]
          /\ tracker' = [tracker EXCEPT !.list = tracker.list \ {x}, !.current = x]
      BY <1>3 DEF MoveOn
    <2>2. /\ RowsOK' /\ rows'[tracker.current[1]] = tracker.current[2]
          /\ \A j \in RowId : j # tracker.current[1] => rows'[j] = rows[j]
      BY <1>1, <2>1, WriteRow
    <2>3. /\ TrackerOK' /\ tracker'.at = tracker.at /\ tracker'.range = tracker.range
          /\ tracker'.current = x /\ tracker'.list = tracker.list \ {x}
      BY <1>1, <2>1, TrackerFacts
    <2>4. QED
      BY <2>2, <2>3 DEF TrackerKnows
  <1>4. QED
    BY <1>2, <1>3

LEMMA SaveTypes ==
  ASSUME TypeInv, SaveLast
  PROVE  /\ RowsOK' /\ TrackerOK' /\ TrackerKnows' /\ tracker' = TrackerIdle
         /\ tracker.at = "merge" /\ tracker.current # None
         /\ tracker.current[1] \in RowId /\ tracker.current[2] \in DateRange
         /\ rows'[tracker.current[1]] = tracker.current[2]
         /\ \A j \in RowId : j # tracker.current[1] => rows'[j] = rows[j]
  <1>1. /\ tracker.at = "merge" /\ tracker.current # None /\ tracker' = TrackerIdle
        /\ rows' = [rows EXCEPT ![tracker.current[1]] = tracker.current[2]]
    BY DEF SaveLast
  <1>2. tracker.current[1] \in RowId /\ tracker.current[2] \in DateRange
    BY <1>1, PairFacts
  <1>3. QED
    BY <1>1, <1>2, Parts, WriteRow, IdleFacts

LEMMA TrackStep ==
  ASSUME TypeInv, Track \/ TrackerFails
  PROVE  TypeInv'
  <1> USE Parts
  <1>1. UNCHANGED data /\ UNCHANGED records /\ UNCHANGED fills
    BY DEF Track, QueryDateRange, UpdateRange, UpdateRaises, CreateRange, LoadRanges, MergeNext,
           SaveLast,
           TrackerFails
  <1>2. CountsOK'
    <2>1. UNCHANGED <<runs, faults>> \/ (Begin /\ UNCHANGED faults) \/ (Fault /\ UNCHANGED runs)
      BY DEF Track, QueryDateRange, UpdateRange, UpdateRaises, CreateRange, LoadRanges, MergeNext,
           SaveLast,
             TrackerFails
    <2>2. QED
      BY <2>1, Frames
  <1>3. RowsOK' /\ TrackerOK' /\ TrackerKnows'
    <2>1. CASE QueryDateRange
      BY <2>1, QueryTypes DEF QueryDateRange, RowsOK
    <2>2. CASE UpdateRange \/ CreateRange
      BY <2>2, UpsertTypes
    <2>3. CASE UpdateRaises
      BY <2>3, IdleFacts DEF UpdateRaises, RowsOK
    <2>4. CASE LoadRanges
      BY <2>4, LoadTypes DEF RowsOK
    <2>5. CASE MergeNext
      <3>1. PICK x \in tracker.list :
              /\ tracker.at = "merge" /\ tracker.current # None
              /\ TakeOver(x) \/ MoveOn(x)
        BY <2>5 DEF MergeNext
      <3>2. QED
        BY <3>1, MergeTypes
    <2>6. CASE SaveLast
      BY <2>6, SaveTypes
    <2>7. CASE TrackerFails
      BY <2>7, IdleFacts DEF TrackerFails, RowsOK
    <2>8. QED
      BY <2>1, <2>2, <2>4, <2>5, <2>6, <2>7, <2>3 DEF Track
  <1>4. QED
    BY <1>1, <1>2, <1>3, Frames, TypeParts DEF TypeInv

\* A record is made; another one changes its status.
LEMMA CreateFacts ==
  ASSUME TypeInv, NEW g \in GapId, NEW gap \in Gap, Create(g, gap)
  PROVE  /\ gaps[g] = None /\ GapsOK'
         /\ gaps'[g] # None /\ gaps'[g].gap = gap
         /\ gaps'[g].status = IF gap.fillable THEN "DETECTED" ELSE "UNFILLABLE"
         /\ \A h \in GapId : h # g => gaps'[h] = gaps[h]
         /\ \A w \in Worker : work[w] # g
  <1> USE Parts
  <1> DEFINE status == IF gap.fillable THEN "DETECTED" ELSE "UNFILLABLE"
             new == NewRecord(gap, status)
  <1>1. status \in Status
    BY DEF Status
  <1>2. new \in GapRecord /\ new.gap = gap /\ new.status = status
    <2> HIDE DEF status
    <2>1. now \in Candle
      BY DEF DataOK
    <2>2. QED
      BY <1>1, <2>1 DEF NewRecord, GapRecord
  <1>3. gaps[g] = None /\ gaps' = [gaps EXCEPT ![g] = new]
    BY DEF Create
  <1> HIDE DEF new
  <1>4. new # None
    BY <1>2, Sentinels
  <1>5. \A w \in Worker : work[w] # g
    BY <1>3, Sentinels DEF TaskHolds
  <1>6. gaps'[g] = new /\ GapsOK' /\ \A h \in GapId : h # g => gaps'[h] = gaps[h]
    BY <1>2, <1>3 DEF GapsOK
  <1>7. QED
    BY <1>2, <1>3, <1>4, <1>5, <1>6

LEMMA StatusFacts ==
  ASSUME TypeInv, NEW g \in GapId, gaps[g] # None, NEW status \in Status, SetStatus(g, status)
  PROVE  /\ GapsOK' /\ gaps'[g] # None
         /\ gaps'[g].gap = gaps[g].gap /\ gaps'[g].status = status
         /\ \A h \in GapId : h # g => gaps'[h] = gaps[h]
  <1>1. GapsOK /\ gaps[g] \in GapRecord
    BY Parts DEF GapsOK
  <1> DEFINE new == [gaps[g] EXCEPT !.status = status]
  <1>2. new \in GapRecord /\ new.gap = gaps[g].gap /\ new.status = status
    BY <1>1 DEF GapRecord
  <1>3. gaps' = [gaps EXCEPT ![g] = new]
    BY DEF SetStatus
  <1> HIDE DEF new
  <1>4. QED
    BY <1>1, <1>2, <1>3, Sentinels DEF GapsOK

\* What a run of the task finds, starts with, and does to its record.
LEMMA BackfillFacts ==
  ASSUME TypeInv, NEW w \in Worker, BackfillGapsIncremental(w)
  PROVE  \E g \in GapId, gap \in Gap :
           /\ work[w] = None /\ Create(g, gap)
           /\ work' = IF gap.fillable THEN [work EXCEPT ![w] = g] ELSE work
           /\ Begin /\ UNCHANGED data /\ UNCHANGED ranges /\ UNCHANGED fills
           /\ UNCHANGED <<stranded, faults>>
  <1>1. /\ work[w] = None /\ Stored # {} /\ Begin /\ UNCHANGED data /\ UNCHANGED ranges
        /\ UNCHANGED fills /\ UNCHANGED <<stranded, faults>>
    BY DEF BackfillGapsIncremental
  <1>2. PICK gap : /\ gap = MakeGap(LastTimestamp + 1, LocalNow)
                   /\ \E g \in GapId :
                        /\ Create(g, gap)
                        /\ work' = IF gap.fillable THEN [work EXCEPT ![w] = g] ELSE work
    BY DEF BackfillGapsIncremental
  <1>3. gap \in Gap
    <2>1. LastTimestamp \in Candle /\ now \in Candle /\ LocalNow - (LastTimestamp + 1) >= 1
      BY <1>1, Parts, StoredFacts DEF DataOK, BackfillGapsIncremental
    <2>2. LastTimestamp + 1 \in Nat /\ LocalNow \in Int /\ LastTimestamp + 1 <= LocalNow
      BY <2>1, CandleFacts, Bounds DEF LocalNow
    <2>3. QED
      BY <1>2, <2>1, <2>2, MakeGapFacts
  <1>4. QED
    BY <1>1, <1>2, <1>3

LEMMA TaskStep ==
  ASSUME TypeInv, NEW w \in Worker, Task(w) \/ TaskFails(w)
  PROVE  TypeInv'
  <1> USE Parts
  <1>1. CASE BackfillGapsIncremental(w)
    <2>1. PICK g \in GapId, gap \in Gap :
           /\ work[w] = None /\ Create(g, gap)
           /\ work' = IF gap.fillable THEN [work EXCEPT ![w] = g] ELSE work
           /\ Begin /\ UNCHANGED data /\ UNCHANGED ranges /\ UNCHANGED fills
           /\ UNCHANGED <<stranded, faults>>
      BY <1>1, BackfillFacts
    <2>2. /\ GapsOK' /\ gaps'[g] # None /\ gaps'[g].gap = gap
          /\ gaps'[g].status = IF gap.fillable THEN "DETECTED" ELSE "UNFILLABLE"
          /\ \A h \in GapId : h # g => gaps'[h] = gaps[h]
          /\ \A v \in Worker : work[v] # g
      BY <2>1, CreateFacts
    <2>3. WorkOK'
      BY <2>1 DEF WorkOK
    <2>4. TaskHolds'
      <3>1. \A v \in Worker : work'[v] = work[v] \/ (v = w /\ work'[v] = g /\ gap.fillable)
        BY <2>1 DEF WorkOK
      <3>2. \A v \in Worker : work'[v] # None /\ work'[v] # g => work'[v] \in GapId
        BY <2>3 DEF WorkOK
      <3>3. QED
        BY <2>2, <3>1, <3>2 DEF TaskHolds
    <2>5. QED
      BY <2>1, <2>2, <2>3, <2>4, Frames, TypeParts DEF TypeInv
  <1>2. CASE MarkBackfilling(w) \/ FetchAndSave(w)
    <2>1. /\ work[w] # None /\ UNCHANGED data /\ UNCHANGED ranges /\ UNCHANGED fills
          /\ UNCHANGED <<stranded, runs, faults>>
          /\ \/ SetStatus(work[w], "BACKFILLING") /\ UNCHANGED work
             \/ SetStatus(work[w], "FAILED") /\ work' = [work EXCEPT ![w] = None]
      BY <1>2 DEF MarkBackfilling, FetchAndSave
    <2>2. PICK g \in GapId : g = work[w]
      BY <2>1 DEF WorkOK
    <2>3. gaps[g] # None /\ gaps[g].gap.fillable
      BY <2>1, <2>2 DEF TaskHolds
    <2>4. /\ GapsOK' /\ gaps'[g] # None /\ gaps'[g].gap = gaps[g].gap
          /\ \A h \in GapId : h # g => gaps'[h] = gaps[h]
          /\ UNCHANGED work => gaps'[g].status = "BACKFILLING"
      <3>1. "BACKFILLING" \in Status /\ "FAILED" \in Status /\ None \notin GapId
        BY Sentinels DEF Status
      <3>2. CASE SetStatus(g, "BACKFILLING")
        BY <2>3, <3>1, <3>2, StatusFacts
      <3>3. CASE SetStatus(g, "FAILED") /\ work' = [work EXCEPT ![w] = None]
        <4>1. work'[w] = None /\ work[w] = g
          BY <2>2, <3>3 DEF WorkOK
        <4>2. QED
          BY <2>3, <3>1, <3>3, <4>1, StatusFacts
      <3>4. QED
        BY <2>1, <2>2, <3>2, <3>3
    <2>5. /\ WorkOK'
          /\ \A v \in Worker : v # w => work'[v] = work[v]
          /\ work'[w] = None \/ UNCHANGED work
      BY <2>1 DEF WorkOK
    <2>6. TaskHolds'
      <3>1. CASE UNCHANGED work
        BY <2>2, <2>3, <2>4, <3>1 DEF TaskHolds, WorkOK
      <3>2. CASE work'[w] = None
        <4>1. \A v \in Worker : v # w /\ work[v] # None => work[v] # g /\ work[v] \in GapId
          BY <2>2 DEF TaskHolds, WorkOK
        <4>2. QED
          BY <2>4, <2>5, <3>2, <4>1 DEF TaskHolds
      <3>3. QED
        BY <2>5, <3>1, <3>2
    <2>7. QED
      BY <2>1, <2>4, <2>5, <2>6, Frames, TypeParts DEF TypeInv
  <1>3. CASE TaskFails(w)
    <2>1. /\ work[w] # None /\ stranded' = stranded \cup {work[w]}
          /\ work' = [work EXCEPT ![w] = None] /\ UNCHANGED <<gaps, runs>>
          /\ UNCHANGED data /\ UNCHANGED ranges /\ UNCHANGED fills /\ Fault
      BY <1>3 DEF TaskFails
    <2>2. GapsOK' /\ WorkOK'
      BY <2>1 DEF GapsOK, WorkOK
    <2>3. \A v \in Worker : work'[v] = work[v] \/ work'[v] = None
      BY <2>1 DEF WorkOK
    <2>4. TaskHolds'
      BY <2>1, <2>3 DEF TaskHolds
    <2>5. QED
      BY <2>1, <2>2, <2>4, Frames, TypeParts DEF TypeInv
  <1>4. QED
    BY <1>1, <1>2, <1>3 DEF Task

LEMMA CleanupStep ==
  ASSUME TypeInv, CleanupOldGapRecords
  PROVE  TypeInv'
  <1> USE Parts
  <1>1. /\ Begin /\ UNCHANGED data /\ UNCHANGED ranges /\ UNCHANGED fills
        /\ UNCHANGED <<work, stranded, faults>>
        /\ gaps' = [g \in GapId |->
                      IF gaps[g] # None /\ gaps[g].status = "FAILED"
                         /\ gaps[g].detected < now - Keep
                        THEN None ELSE gaps[g]]
    BY DEF CleanupOldGapRecords
  <1>2. /\ \A g \in GapId : gaps'[g] = gaps[g] \/ (gaps'[g] = None /\ gaps[g].status = "FAILED")
        /\ GapsOK'
    BY <1>1 DEF GapsOK
  <1>3. TaskHolds'
    BY <1>1, <1>2 DEF TaskHolds, WorkOK
  <1>4. WorkOK'
    BY <1>1 DEF WorkOK
  <1>5. QED
    BY <1>1, <1>2, <1>3, <1>4, Frames, TypeParts DEF TypeInv

LEMMA TimeStep ==
  ASSUME TypeInv,
         Tick \/ \E from, to \in 1..now - 1 : from <= to /\ IngestFile(from, to)
  PROVE  TypeInv'
  <1> USE Parts
  <1>1. CASE Tick
    <2>1. /\ now < Last /\ now' = now + 1 /\ UNCHANGED <<csv, api, aware, runs, faults>>
          /\ UNCHANGED ranges /\ UNCHANGED records /\ UNCHANGED fills
      BY <1>1 DEF Tick
    <2>2. DataOK'
      BY <2>1, Bounds DEF DataOK, Candle
    <2>3. QED
      BY <2>1, <2>2, Frames, TypeParts DEF TypeInv
  <1>2. ASSUME NEW from \in 1..now - 1, NEW to \in 1..now - 1, IngestFile(from, to)
        PROVE  TypeInv'
    <2>1. /\ Begin /\ csv' = csv \cup (from..to) /\ UNCHANGED <<now, api, aware, faults>>
          /\ UNCHANGED ranges /\ UNCHANGED records /\ UNCHANGED fills
      BY <1>2 DEF IngestFile
    <2>2. DataOK'
      BY <2>1, Bounds DEF DataOK, Candle
    <2>3. QED
      BY <2>1, <2>2, Frames, TypeParts DEF TypeInv
  <1>3. QED
    BY <1>1, <1>2

\* Kraken has candles that are complete.
LEMMA FetchFacts ==
  ASSUME TypeInv, NEW g \in command
  PROVE  /\ FetchHistoricalPrices(Since(g)) \subseteq Candle
         /\ g \in [from : 0..Last, to : 0..Last]
         /\ Claim(g) \in [from : 0..Last, to : 0..Last, reach : Int, until : Candle]
         /\ Claim(g).from = g.from /\ Claim(g).to = g.to
         /\ Claim(g).reach = now - Limit /\ Claim(g).until = now
  <1>1. g \in [from : 0..Last, to : 0..Last] /\ g.from \in Nat
    BY Parts, Bounds DEF FillsOK
  <1>2. now \in Candle /\ now \in Nat /\ now <= Last
    BY Parts, CandleFacts DEF DataOK
  <1>3. FirstOf(g.from) \in Nat /\ FirstOf(g.from) >= 1
    BY <1>1, DayFacts
  <1>4. FetchHistoricalPrices(Since(g)) \subseteq Candle
    BY <1>2, <1>3, Bounds DEF FetchHistoricalPrices, Since, Candle
  <1>5. now - Limit \in Int
    BY <1>2, Bounds
  <1>6. QED
    BY <1>1, <1>2, <1>4, <1>5 DEF Claim

LEMMA HandleStep ==
  ASSUME TypeInv, Handle
  PROVE  TypeInv'
  <1> USE Parts
  <1>1. /\ Stored # {} /\ Begin /\ UNCHANGED data /\ UNCHANGED ranges /\ UNCHANGED records
        /\ UNCHANGED <<claims, faults>>
        /\ command' \subseteq DaysOfGaps \/ command' = DaysFromLast
    BY DEF Handle
  <1>2. /\ Day(Min(Stored)) \in 0..Last /\ Day(Max(Stored)) \in 0..Last
        /\ Day(LastTimestamp) \in 0..Last /\ Day(now) \in 0..Last
    BY <1>1, StoredFacts, DayFacts DEF DataOK
  <1>3. Days \subseteq 0..Last
    <2>1. PICK a \in 0..Last, b \in 0..Last : a = Day(Min(Stored)) /\ b = Day(Max(Stored))
      BY <1>2
    <2>2. Days = a..b
      BY <2>1 DEF Days
    <2>3. QED
      BY <2>2, Bounds
  <1>4. DaysOfGaps \subseteq [from : 0..Last, to : 0..Last]
    BY <1>3 DEF DaysOfGaps
  <1>5. DaysFromLast \subseteq [from : 0..Last, to : 0..Last]
    BY <1>2 DEF DaysFromLast
  <1>6. FillsOK'
    BY <1>1, <1>4, <1>5 DEF FillsOK
  <1>7. QED
    BY <1>1, <1>6, Frames, TypeParts DEF TypeInv

LEMMA BackfillStep ==
  ASSUME TypeInv, NEW g \in command, BackfillGap(g) \/ BackfillGapFails(g)
  PROVE  TypeInv'
  <1> USE Parts
  <1>1. /\ command' \subseteq command
        /\ claims' \subseteq claims \cup {Claim(g)}
        /\ \E s \in SUBSET FetchHistoricalPrices(Since(g)) : api' = api \cup s
        /\ UNCHANGED <<now, csv, aware, runs>> /\ UNCHANGED ranges /\ UNCHANGED records
        /\ UNCHANGED faults \/ Fault
    <2>1. CASE BackfillGap(g)
      <3>1. /\ api' = api \cup FetchHistoricalPrices(Since(g))
            /\ claims' = claims \/ claims' = claims \cup {Claim(g)}
            /\ command' = command \ {g}
            /\ UNCHANGED <<now, csv, aware, runs, faults>> /\ UNCHANGED ranges /\ UNCHANGED records
        BY <2>1 DEF BackfillGap
      <3>2. QED
        BY <3>1
    <2>2. CASE BackfillGapFails(g)
      BY <2>2 DEF BackfillGapFails
    <2>3. QED
      BY <2>1, <2>2
  <1>2. DataOK'
    BY <1>1, FetchFacts DEF DataOK
  <1>3. FillsOK'
    BY <1>1, FetchFacts DEF FillsOK
  <1>4. QED
    BY <1>1, <1>2, <1>3, Frames, TypeParts DEF TypeInv

LEMMA InitTypeInv == Init => TypeInv
  <1> SUFFICES ASSUME Init PROVE TypeInv
    OBVIOUS
  <1>1. DataOK
    BY Bounds DEF Init, DataOK, Candle
  <1>2. RowsOK
    <2>1. WrittenRange \subseteq DateRange
      <3>1. ASSUME NEW t \in (1..Start - 1) \X (1..Start - 1), t[1] <= t[2]
            PROVE  [start |-> t[1], end |-> t[2], count |-> t[2] - t[1] + 1] \in DateRange
        <4>1. PICK a \in Nat, b \in Nat : a = t[1] /\ b = t[2] /\ a >= 1 /\ b <= Last /\ a <= b
          BY <3>1, Bounds
        <4>2. a \in Time /\ b \in Time /\ b - a + 1 \in Nat
          BY <4>1, CandleFacts, Bounds
        <4>3. [start |-> a, end |-> b, count |-> b - a + 1] \in DateRange
          BY <4>1, <4>2, CandleFacts
        <4>4. QED
          BY <4>1, <4>3
      <3>2. QED
        BY <3>1 DEF WrittenRange
    <2>2. QED
      BY <2>1 DEF Init, RowsOK
  <1>3. TrackerOK /\ TrackerKnows
    BY DEF Init, TrackerIdle, TrackerOK, TrackerKnows
  <1>4. GapsOK /\ WorkOK /\ TaskHolds
    BY DEF Init, GapsOK, WorkOK, TaskHolds
  <1>5. FillsOK /\ CountsOK
    BY Bounds DEF Init, FillsOK, CountsOK
  <1>6. QED
    BY <1>1, <1>2, <1>3, <1>4, <1>5, TypeParts DEF TypeInv

LEMMA NextTypeInv == TypeInv /\ [Next]_vars => TypeInv'
  <1> SUFFICES ASSUME TypeInv, [Next]_vars PROVE TypeInv'
    OBVIOUS
  <1>1. CASE UNCHANGED vars
    <2>1. /\ UNCHANGED data /\ UNCHANGED ranges /\ UNCHANGED records /\ UNCHANGED fills
          /\ UNCHANGED <<runs, faults>>
      BY <1>1 DEF vars
    <2>2. QED
      BY <2>1, Frames, TypeParts DEF TypeInv
  <1>2. CASE Tick \/ \E from, to \in 1..now - 1 : from <= to /\ IngestFile(from, to)
    BY <1>2, TimeStep
  <1>3. CASE Track \/ TrackerFails
    BY <1>3, TrackStep
  <1>4. ASSUME NEW w \in Worker, Task(w) \/ TaskFails(w) PROVE TypeInv'
    BY <1>4, TaskStep
  <1>5. CASE CleanupOldGapRecords
    BY <1>5, CleanupStep
  <1>6. CASE Fill
    BY <1>6, HandleStep, BackfillStep DEF Fill
  <1>7. QED
    BY <1>1, <1>2, <1>3, <1>4, <1>5, <1>6 DEF Next

\* Every variable keeps its type: the candles that are fetched and the ranges
\* that rows are given lie in time, and a task works on a record that is there.
THEOREM CoverageTypeCorrect == Spec => []TypeOK
  <1>1. TypeInv => TypeOK
    BY DEF TypeInv
  <1>2. QED
    BY <1>1, InitTypeInv, NextTypeInv, PTL DEF Spec

-----------------------------------------------------------------------------
(* Records are offered.                                                     *)

\* On a list, or on the part of it that is not shown yet.
Listed(g) ==
    \/ g \in GetFillableGaps \cup GetUnfillableGaps
    \/ g \in Waiting /\ Cardinality(Ahead(g)) >= Offered

LEMMA OfferedFacts ==
  /\ \A g \in GapId : Listed(g) <=>
        /\ gaps[g] # None
        /\ \/ gaps[g].gap.fillable /\ gaps[g].status \in {"DETECTED", "FAILED"}
           \/ gaps[g].status = "UNFILLABLE"
  /\ \A g \in GapId : Listed(g)' <=>
        /\ gaps'[g] # None
        /\ \/ gaps'[g].gap.fillable /\ gaps'[g].status \in {"DETECTED", "FAILED"}
           \/ gaps'[g].status = "UNFILLABLE"
  <1>1. \A S \in SUBSET GapId : Cardinality(S) \in Nat
    BY BoundAssumption, FS_Subset, FS_CardinalityType
  <1>2. \A S \in SUBSET GapId : Cardinality(S) < Offered \/ Cardinality(S) >= Offered
    BY <1>1, Bounds
  <1>3. ASSUME NEW g \in GapId
        PROVE  Listed(g) <=> g \in Waiting \/ g \in GetUnfillableGaps
    <2>1. Ahead(g) \subseteq GapId
      BY DEF Ahead, Waiting
    <2>2. Cardinality(Ahead(g)) < Offered \/ Cardinality(Ahead(g)) >= Offered
      BY <1>2, <2>1
    <2>3. QED
      BY <2>2 DEF Listed, GetFillableGaps
  <1>4. ASSUME NEW g \in GapId
        PROVE  Listed(g)' <=> g \in Waiting' \/ g \in GetUnfillableGaps'
    <2>1. Ahead(g)' \subseteq GapId
      BY DEF Ahead, Waiting
    <2>2. Cardinality(Ahead(g)') < Offered \/ Cardinality(Ahead(g)') >= Offered
      BY <1>2, <2>1
    <2>3. QED
      BY <2>2 DEF Listed, GetFillableGaps
  <1>5. QED
    BY <1>3, <1>4 DEF Waiting, GetUnfillableGaps

LEMMA OfferedByList ==
  /\ RecordsAreOffered <=> \A g \in GapId \ stranded :
        gaps[g] # None => Listed(g) \/ \E w \in Worker : work[w] = g
  /\ RecordsAreOffered' <=> \A g \in GapId \ stranded' :
        gaps'[g] # None => Listed(g)' \/ \E w \in Worker : work'[w] = g
  BY DEF RecordsAreOffered, Listed

\* Records that stay as they are, or go, with those who work on them, stay offered.
LEMMA OthersOffered ==
  ASSUME RecordsAreOffered, NEW g \in GapId, g \notin stranded',
         stranded \subseteq stranded', gaps'[g] = gaps[g] \/ gaps'[g] = None,
         \A w \in Worker : work[w] = g => work'[w] = g, gaps'[g] # None
  PROVE  Listed(g)' \/ \E w \in Worker : work'[w] = g
  BY OfferedFacts, OfferedByList

LEMMA CreateOffered ==
  ASSUME TypeInv, RecordsAreOffered, NEW g \in GapId, NEW gap \in Gap, Create(g, gap),
         \A v \in Worker : work[v] # None => work'[v] = work[v], UNCHANGED stranded
  PROVE  RecordsAreOffered'
  <1>1. /\ gaps'[g] # None /\ gaps'[g].gap = gap
        /\ gaps'[g].status = IF gap.fillable THEN "DETECTED" ELSE "UNFILLABLE"
        /\ \A h \in GapId : h # g => gaps'[h] = gaps[h]
    BY CreateFacts
  <1>2. Listed(g)'
    BY <1>1, OfferedFacts
  <1>3. ASSUME NEW h \in GapId, h \notin stranded', gaps'[h] # None, h # g
        PROVE  Listed(h)' \/ \E w \in Worker : work'[w] = h
    <2>1. h # None
      BY Sentinels
    <2>2. QED
      BY <1>1, <1>3, <2>1, OthersOffered
  <1>4. QED
    BY <1>2, <1>3, OfferedByList

LEMMA TaskOffered ==
  ASSUME TypeInv, RecordsAreOffered, NEW w \in Worker, Task(w) \/ TaskFails(w)
  PROVE  RecordsAreOffered'
  <1> USE Parts
  <1>1. CASE BackfillGapsIncremental(w)
    <2>1. PICK g \in GapId, gap \in Gap :
           /\ work[w] = None /\ Create(g, gap) /\ UNCHANGED stranded
           /\ work' = IF gap.fillable THEN [work EXCEPT ![w] = g] ELSE work
      BY <1>1, BackfillFacts
    <2>2. \A v \in Worker : work[v] # None => work'[v] = work[v]
      BY <2>1 DEF WorkOK
    <2>3. QED
      BY <2>1, <2>2, CreateOffered
  <1>2. ASSUME NEW g \in GapId, work[w] = g, NEW status \in {"BACKFILLING", "FAILED"},
               SetStatus(g, status), UNCHANGED stranded,
               \A v \in Worker : v # w => work'[v] = work[v],
               status = "BACKFILLING" => work'[w] = g
        PROVE  RecordsAreOffered'
    <2>1. gaps[g] # None /\ gaps[g].gap.fillable /\ status \in Status
      BY <1>2, Sentinels DEF TaskHolds, Status
    <2>2. /\ gaps'[g] # None /\ gaps'[g].gap = gaps[g].gap /\ gaps'[g].status = status
          /\ \A h \in GapId : h # g => gaps'[h] = gaps[h]
      BY <1>2, <2>1, StatusFacts
    <2>3. Listed(g)' \/ \E v \in Worker : work'[v] = g
      BY <1>2, <2>1, <2>2, OfferedFacts
    <2>4. ASSUME NEW h \in GapId, h \notin stranded', gaps'[h] # None, h # g
          PROVE  Listed(h)' \/ \E v \in Worker : work'[v] = h
      BY <1>2, <2>2, <2>4, OthersOffered
    <2>5. QED
      BY <2>3, <2>4, OfferedByList
  <1>3. CASE MarkBackfilling(w)
    <2>1. work[w] # None /\ SetStatus(work[w], "BACKFILLING") /\ UNCHANGED <<work, stranded>>
      BY <1>3 DEF MarkBackfilling
    <2>2. PICK g \in GapId : g = work[w]
      BY <2>1 DEF WorkOK
    <2>3. QED
      BY <1>2, <2>1, <2>2
  <1>4. CASE FetchAndSave(w)
    <2>1. /\ work[w] # None /\ SetStatus(work[w], "FAILED") /\ UNCHANGED stranded
          /\ work' = [work EXCEPT ![w] = None]
      BY <1>4 DEF FetchAndSave
    <2>2. PICK g \in GapId : g = work[w]
      BY <2>1 DEF WorkOK
    <2>3. \A v \in Worker : v # w => work'[v] = work[v]
      BY <2>1 DEF WorkOK
    <2>4. QED
      BY <1>2, <2>1, <2>2, <2>3
  <1>5. CASE TaskFails(w)
    <2>1. /\ stranded' = stranded \cup {work[w]} /\ UNCHANGED gaps
          /\ work' = [work EXCEPT ![w] = None]
      BY <1>5 DEF TaskFails
    <2>2. ASSUME NEW h \in GapId, h \notin stranded', gaps'[h] # None
          PROVE  Listed(h)' \/ \E v \in Worker : work'[v] = h
      <3>1. \A v \in Worker : work[v] = h => work'[v] = h
        BY <2>1, <2>2 DEF WorkOK
      <3>2. QED
        BY <2>1, <2>2, <3>1, OthersOffered
    <2>3. QED
      BY <2>2, OfferedByList
  <1>6. QED
    BY <1>1, <1>3, <1>4, <1>5 DEF Task

\* No record is lost sight of: each is offered to be backfilled or downloaded, or
\* waits behind as many as are offered, or a worker works on it, unless that worker died or could not save the outcome
\* (get_fillable_gaps, get_unfillable_gaps; backfill_gaps_incremental's handlers).
THEOREM RecordsStayOffered == Spec => []RecordsAreOffered
  <1> DEFINE Inv == TypeInv /\ RecordsAreOffered
  <1>1. Init => Inv
    BY InitTypeInv, Sentinels DEF Init, RecordsAreOffered
  <1>2. Inv /\ [Next]_vars => Inv'
    <2> SUFFICES ASSUME TypeInv, RecordsAreOffered, [Next]_vars PROVE RecordsAreOffered'
      BY NextTypeInv
    <2>1. ASSUME UNCHANGED <<gaps, work, stranded>> PROVE RecordsAreOffered'
      BY <2>1, OthersOffered, OfferedByList
    <2>2. CASE UNCHANGED vars
      BY <2>1, <2>2 DEF vars, records
    <2>3. CASE \/ Tick \/ Track \/ TrackerFails \/ Fill
               \/ \E from, to \in 1..now - 1 : from <= to /\ IngestFile(from, to)
      BY <2>1, <2>3 DEF Tick, Track, QueryDateRange, UpdateRange, UpdateRaises, CreateRange,
                        LoadRanges, MergeNext, SaveLast, TrackerFails, Fill, Handle, BackfillGap,
                        BackfillGapFails, IngestFile, records
    <2>4. ASSUME NEW w \in Worker, Task(w) \/ TaskFails(w) PROVE RecordsAreOffered'
      BY <2>4, TaskOffered
    <2>5. CASE CleanupOldGapRecords
      <3>1. /\ UNCHANGED <<work, stranded>>
            /\ \A g \in GapId : gaps'[g] = gaps[g] \/ gaps'[g] = None
        BY <2>5 DEF CleanupOldGapRecords
      <3>2. QED
        BY <3>1, OthersOffered, OfferedByList
    <2>6. QED
      BY <2>2, <2>3, <2>4, <2>5 DEF Next
  <1>3. Inv => RecordsAreOffered
    OBVIOUS
  <1> HIDE DEF Inv
  <1>4. QED
    BY <1>1, <1>2, <1>3, PTL DEF Spec

-----------------------------------------------------------------------------
(* Days that were filled.  A day that Kraken could serve was fetched, the   *)
(* first one from local midnight on, and candles are never deleted.         *)

\* The candles of a day, but for the first n.
DayFrom(d, n) == FirstOf(d) + n..FirstOf(d) + PerDay - 1

\* Whatever of a claim was in reach, from the first candle of a day to its last, is
\* stored, but for the first candles of its first day.
Fetched ==
    \A c \in claims : \A d \in c.from..c.to - 1 :
        FirstOf(d) > c.reach /\ FirstOf(d + 1) <= c.until =>
            /\ DayFrom(d, Behind) \subseteq api
            /\ d # c.from => DayFrom(d, 0) \subseteq api

\* As many candles as the rest of a day has.
LEMMA RestOfDay ==
  ASSUME TypeInv, NEW d \in Nat, NEW n \in 0..PerDay, DayFrom(d, n) \subseteq api
  PROVE  RecordsOn(d) \in Nat /\ RecordsOn(d) >= PerDay - n
  <1> DEFINE On(s) == {t \in s : Day(t) = d}
  <1>1. n \in Nat /\ n <= PerDay /\ FirstOf(d) + n \in Int /\ FirstOf(d) + PerDay - 1 \in Int
        /\ FirstOf(d) \in Nat
    BY DayFacts, Bounds
  <1>2. IsFiniteSet(DayFrom(d, n)) /\ Cardinality(DayFrom(d, n)) = PerDay - n
    <2>1. PICK a \in Int, b \in Int : a = FirstOf(d) + n /\ b = FirstOf(d) + PerDay - 1
      BY <1>1
    <2>2. IsFiniteSet(a..b) /\ Cardinality(a..b) = IF a > b THEN 0 ELSE b - a + 1
      BY FS_Interval
    <2>3. (IF a > b THEN 0 ELSE b - a + 1) = PerDay - n
      BY <1>1, <2>1, Bounds
    <2>4. QED
      BY <2>1, <2>2, <2>3 DEF DayFrom
  <1>3. \A t \in DayFrom(d, n) : Day(t) = d
    <2>1. ASSUME NEW t \in DayFrom(d, n) PROVE Day(t) = d
      <3>1. PICK a \in Nat, b \in Int :
              a = FirstOf(d) /\ b = FirstOf(d) + PerDay - 1 /\ t \in a + n..b
        BY <1>1, <2>1 DEF DayFrom
      <3>2. FirstOf(d + 1) = FirstOf(d) + PerDay
        BY DayFacts
      <3>3. t \in Nat /\ FirstOf(d) <= t /\ t < FirstOf(d + 1)
        BY <1>1, <3>1, <3>2, Bounds
      <3>4. QED
        BY <3>3, DayFacts
    <2>2. QED
      BY <2>1
  <1>4. IsFiniteSet(Candle) /\ csv \subseteq Candle /\ api \subseteq Candle
    BY Parts, Bounds, FS_Interval DEF DataOK, Candle
  <1>5. IsFiniteSet(On(csv)) /\ IsFiniteSet(On(api))
    <2>1. On(csv) \subseteq Candle /\ On(api) \subseteq Candle
      BY <1>4
    <2>2. QED
      BY <1>4, <2>1, FS_Subset
  <1>6. DayFrom(d, n) \subseteq On(api)
    BY <1>3
  <1>7. Cardinality(On(api)) >= PerDay - n /\ Cardinality(On(api)) \in Nat
        /\ Cardinality(On(csv)) \in Nat
    <2>1. Cardinality(On(api)) \in Nat /\ Cardinality(On(csv)) \in Nat
      BY <1>5, FS_CardinalityType
    <2>2. Cardinality(DayFrom(d, n)) <= Cardinality(On(api))
      BY <1>5, <1>6, FS_Subset
    <2>3. QED
      BY <1>1, <1>2, <2>1, <2>2, Bounds
  <1>8. RecordsOn(d) = Cardinality(On(csv)) + Cardinality(On(api))
    BY DEF RecordsOn
  <1> HIDE DEF On
  <1>9. QED
    BY <1>1, <1>7, <1>8, Bounds

LEMMA FetchedDay ==
  ASSUME TypeInv, NEW g \in command, NEW d \in g.from..g.to - 1,
         FirstOf(d) > now - Limit, FirstOf(d + 1) <= now
  PROVE  /\ DayFrom(d, Behind) \subseteq FetchHistoricalPrices(Since(g))
         /\ d # g.from => DayFrom(d, 0) \subseteq FetchHistoricalPrices(Since(g))
  <1>1. g.from \in Nat /\ g.to \in Nat
    BY FetchFacts, Bounds
  <1>2. d \in Nat /\ g.from <= d /\ (d # g.from => g.from + 1 <= d)
    BY <1>1
  <1>3. /\ FirstOf(d) \in Nat /\ FirstOf(g.from) \in Nat /\ FirstOf(g.from) <= FirstOf(d)
        /\ FirstOf(d + 1) = FirstOf(d) + PerDay
    BY <1>1, <1>2, DayFacts
  <1>4. d # g.from => FirstOf(g.from) + PerDay <= FirstOf(d)
    <2>1. PICK a \in Nat : a = g.from
      BY <1>1
    <2>2. a + 1 \in Nat /\ FirstOf(a + 1) = FirstOf(a) + PerDay
      BY DayFacts
    <2>3. QED
      BY <1>2, <2>1, <2>2, DayFacts
  <1>5. now \in Nat
    BY Parts, CandleFacts DEF DataOK
  <1>6. QED
    BY <1>3, <1>4, <1>5, Bounds DEF DayFrom, FetchHistoricalPrices, Since

\* After the command reported a gap as filled, no day of it is short that Kraken could
\* still serve as a whole, so that the next run does not find it again, but for the
\* first, which has what is left of it after local midnight (backfill_gap,
\* fetch_historical_prices, detect_gaps).
THEOREM FilledDaysStayWhole == Spec => []FilledDaysAreWhole
  <1> DEFINE Inv == TypeInv /\ Fetched
  <1>1. Init => Inv
    BY InitTypeInv DEF Init, Fetched
  <1>2. Inv /\ [Next]_vars => Inv'
    <2> SUFFICES ASSUME TypeInv, Fetched, [Next]_vars PROVE Fetched'
      BY NextTypeInv
    <2>1. ASSUME claims' \subseteq claims, api \subseteq api' PROVE Fetched'
      BY <2>1 DEF Fetched, DayFrom, FirstOf
    <2>2. CASE UNCHANGED vars
      BY <2>1, <2>2 DEF vars, data, fills
    <2>3. CASE \/ Tick \/ Track \/ TrackerFails \/ CleanupOldGapRecords
               \/ \E from, to \in 1..now - 1 : from <= to /\ IngestFile(from, to)
               \/ \E w \in Worker : Task(w) \/ TaskFails(w)
      BY <2>1, <2>3 DEF Tick, Track, QueryDateRange, UpdateRange, UpdateRaises, CreateRange,
                        LoadRanges, MergeNext, SaveLast, TrackerFails, CleanupOldGapRecords, IngestFile, Task,
                        BackfillGapsIncremental, MarkBackfilling, FetchAndSave, TaskFails,
                        data, fills
    <2>4. CASE Handle
      BY <2>1, <2>4 DEF Handle, data
    <2>5. ASSUME NEW g \in command, BackfillGap(g) PROVE Fetched'
      <3>1. /\ api' = api \cup FetchHistoricalPrices(Since(g))
            /\ claims' \subseteq claims \cup {Claim(g)}
        BY <2>5 DEF BackfillGap
      <3>2. /\ Claim(g).from = g.from /\ Claim(g).to = g.to
            /\ Claim(g).reach = now - Limit /\ Claim(g).until = now
        BY FetchFacts
      <3>3. ASSUME NEW d \in g.from..g.to - 1, FirstOf(d) > now - Limit, FirstOf(d + 1) <= now
            PROVE  /\ DayFrom(d, Behind) \subseteq api'
                   /\ d # g.from => DayFrom(d, 0) \subseteq api'
        BY <3>1, <3>3, FetchedDay
      <3>4. ASSUME NEW c \in claims', NEW d \in c.from..c.to - 1,
                   FirstOf(d) > c.reach, FirstOf(d + 1) <= c.until
            PROVE  /\ DayFrom(d, Behind) \subseteq api'
                   /\ d # c.from => DayFrom(d, 0) \subseteq api'
        <4>1. CASE c \in claims
          BY <3>1, <3>4, <4>1 DEF Fetched
        <4>2. CASE c = Claim(g)
          BY <3>2, <3>3, <3>4, <4>2
        <4>3. QED
          BY <3>1, <4>1, <4>2
      <3>5. QED
        BY <3>4 DEF Fetched, DayFrom, FirstOf
    <2>6. ASSUME NEW g \in command, BackfillGapFails(g) PROVE Fetched'
      BY <2>1, <2>6 DEF BackfillGapFails
    <2>7. QED
      BY <2>2, <2>3, <2>4, <2>5, <2>6 DEF Next, Fill
  <1>3. Inv => FilledDaysAreWhole
    <2> SUFFICES ASSUME TypeInv, Fetched, NEW c \in claims, NEW d \in c.from..c.to - 1,
                        FirstOf(d) > c.reach, FirstOf(d + 1) <= c.until
                 PROVE  /\ Short(d) => d = c.from
                        /\ RecordsOn(d) >= PerDay - Behind
      BY DEF FilledDaysAreWhole
    <2>1. c.from \in Nat /\ c.to \in Nat
      BY Parts, Bounds DEF FillsOK
    <2>2. /\ d \in Nat /\ DayFrom(d, Behind) \subseteq api
          /\ d # c.from => DayFrom(d, 0) \subseteq api
      BY <2>1 DEF Fetched
    <2>3. Behind \in 0..PerDay /\ 0 \in 0..PerDay
      BY Bounds
    <2>4. RecordsOn(d) \in Nat /\ RecordsOn(d) >= PerDay - Behind
      BY <2>2, <2>3, RestOfDay
    <2>5. ASSUME d # c.from PROVE ~ Short(d)
      <3>1. RecordsOn(d) >= PerDay - 0
        BY <2>2, <2>3, <2>5, RestOfDay
      <3>2. QED
        BY <2>4, <3>1, Bounds DEF Short
    <2>6. QED
      BY <2>4, <2>5
  <1> HIDE DEF Inv
  <1>4. QED
    BY <1>1, <1>2, <1>3, PTL DEF Spec

-----------------------------------------------------------------------------
(* The merge.  What the tracker holds has grown from the row it will be     *)
(* saved in; the rows still on its list are as they were, and start later.  *)

MergeHolds ==
    tracker.current # None =>
        LET i == tracker.current[1]
            r == tracker.current[2]
        IN  /\ rows[i] # None /\ rows[i].start = r.start /\ rows[i].end <= r.end
            /\ \A x \in tracker.list :
                  x[1] # i /\ rows[x[1]] = x[2] /\ r.start <= x[2].start

\* Nothing is held outside of a merge.
HoldsInMerge == tracker.at # "merge" => tracker.current = None

\* Since the row was written, the whole range is covered.
RangeCovered == tracker.at = "merge" => CoverOf({tracker.range}) \subseteq Effective

MergeInv == HoldsInMerge /\ MergeHolds /\ RangeCovered

LEMMA EffectiveFacts ==
  /\ \A t : t \in Effective <=> /\ t \in Time
                                /\ \/ \E r \in Ranges : r.start <= t /\ t <= r.end
                                   \/ /\ tracker.current # None
                                      /\ tracker.current[2].start <= t
                                      /\ t <= tracker.current[2].end
  /\ \A t : t \in Effective' <=> /\ t \in Time
                                 /\ \/ \E r \in Ranges' : r.start <= t /\ t <= r.end
                                    \/ /\ tracker'.current # None
                                       /\ tracker'.current[2].start <= t
                                       /\ t <= tracker'.current[2].end
  BY DEF Effective, Covered, CoverOf, Held

LEMMA RangesPrimed ==
  ASSUME RowsOK'
  PROVE  /\ Ranges' \subseteq DateRange
         /\ \A r : r \in Ranges' <=> \E i \in RowId : rows'[i] # None /\ rows'[i] = r
  <1>1. \A x : x \in Rows' <=> \E i \in RowId : rows'[i] # None /\ x = <<i, rows'[i]>>
    BY DEF Rows
  <1>2. \A r : r \in Ranges' <=> \E x \in Rows' : r = x[2]
    BY DEF Ranges
  <1>3. ASSUME NEW i \in RowId, rows'[i] # None PROVE rows'[i] \in Ranges'
    <2>1. <<i, rows'[i]>> \in Rows' /\ <<i, rows'[i]>>[2] = rows'[i]
      BY <1>1, <1>3
    <2>2. QED
      BY <1>2, <2>1
  <1>4. ASSUME NEW r \in Ranges' PROVE \E i \in RowId : rows'[i] # None /\ rows'[i] = r
    <2>1. PICK x \in Rows' : r = x[2]
      BY <1>2, <1>4
    <2>2. PICK i \in RowId : rows'[i] # None /\ x = <<i, rows'[i]>>
      BY <1>1, <2>1
    <2>3. x[2] = rows'[i]
      BY <2>2
    <2>4. QED
      BY <2>1, <2>2, <2>3
  <1>5. QED
    BY <1>3, <1>4 DEF RowsOK

\* What is covered, by the keys of rows.
In(t, r) == r # None /\ r.start <= t /\ t <= r.end

LEMMA CoverByRows ==
  ASSUME RowsOK, RowsOK', TrackerOK, TrackerOK'
  PROVE  /\ \A t \in Time :
               /\ t \in Effective <=> \/ \E i \in RowId : In(t, rows[i])
                                      \/ tracker.current # None /\ In(t, tracker.current[2])
               /\ t \in Effective' <=> \/ \E i \in RowId : In(t, rows'[i])
                                       \/ tracker'.current # None /\ In(t, tracker'.current[2])
         /\ Effective \subseteq Time /\ Effective' \subseteq Time
  <1>1. tracker.current # None => tracker.current[2] # None
    <2>1. \A x \in RowId \X DateRange : x[2] # None
      BY Sentinels
    <2>2. QED
      BY <2>1 DEF TrackerOK
  <1>2. tracker'.current # None => tracker'.current[2] # None
    <2>1. \A x \in RowId \X DateRange : x[2] # None
      BY Sentinels
    <2>2. QED
      BY <2>1 DEF TrackerOK
  <1>3. \A t : (\E r \in Ranges : r.start <= t /\ t <= r.end) <=> \E i \in RowId : In(t, rows[i])
    BY RangesFacts DEF In
  <1>4. \A t : (\E r \in Ranges' : r.start <= t /\ t <= r.end) <=> \E i \in RowId : In(t, rows'[i])
    BY RangesPrimed DEF In
  <1>5. QED
    BY <1>1, <1>2, <1>3, <1>4, EffectiveFacts DEF In

LEMMA Same ==
  ASSUME UNCHANGED ranges
  PROVE  Effective' = Effective /\ (MergeInv => MergeInv')
  BY DEF ranges, Effective, Covered, CoverOf, Ranges, Rows, Held, MergeInv, MergeHolds,
         HoldsInMerge, RangeCovered

LEMMA QueryMerge ==
  ASSUME TypeInv, TypeInv', MergeInv, QueryDateRange
  PROVE  MergeInv' /\ Effective \subseteq Effective'
  <1>1. tracker.current = None /\ UNCHANGED rows
    BY DEF QueryDateRange, MergeInv, HoldsInMerge
  <1>2. tracker'.at = "upsert" /\ tracker'.current = None
    BY QueryTypes
  <1>3. RowsOK /\ RowsOK' /\ TrackerOK /\ TrackerOK'
    BY TypeParts DEF TypeInv
  <1>4. Effective \subseteq Effective'
    BY <1>1, <1>2, <1>3, CoverByRows
  <1>5. QED
    BY <1>2, <1>4 DEF MergeInv, MergeHolds, HoldsInMerge, RangeCovered

\* The row that was found, widened, or the row that was made, covers the range.
LEMMA UpsertMerge ==
  ASSUME TypeInv, TypeInv', MergeInv, UpdateRange \/ CreateRange
  PROVE  MergeInv' /\ Effective \subseteq Effective'
  <1>1. tracker.current = None
    BY DEF UpdateRange, CreateRange, MergeInv, HoldsInMerge
  <1>2. PICK i \in RowId :
          /\ rows'[i] \in DateRange
          /\ rows'[i].start <= tracker.range.start /\ tracker.range.end <= rows'[i].end
          /\ rows[i] # None => rows'[i].start <= rows[i].start /\ rows[i].end <= rows'[i].end
          /\ \A j \in RowId : j # i => rows'[j] = rows[j]
    BY UpsertTypes
  <1>3. /\ tracker'.at = "merge" /\ tracker'.range = tracker.range /\ tracker'.current = None
        /\ tracker.range \in DateRange
    BY <1>1, UpsertTypes
  <1>4. RowsOK /\ RowsOK' /\ TrackerOK /\ TrackerOK'
    BY TypeParts DEF TypeInv
  <1>5. rows'[i] # None
    BY <1>2, Sentinels
  <1>6. ASSUME NEW t \in Effective PROVE t \in Effective'
    <2>1. t \in Time
      BY <1>4, <1>6, CoverByRows
    <2>2. PICK j \in RowId : In(t, rows[j])
      BY <1>1, <1>4, <1>6, <2>1, CoverByRows
    <2>3. CASE j # i
      BY <1>2, <1>4, <2>1, <2>2, <2>3, CoverByRows
    <2>4. CASE j = i
      <3>1. rows[i] \in DateRange /\ rows[i].start <= t /\ t <= rows[i].end
        BY <1>4, <2>2, <2>4 DEF In, RowsOK
      <3>2. rows'[i].start <= t /\ t <= rows'[i].end
        BY <1>2, <2>1, <3>1, CandleFacts, Sentinels
      <3>3. In(t, rows'[i])
        BY <1>5, <3>2 DEF In
      <3>4. QED
        BY <1>4, <2>1, <3>3, CoverByRows
    <2>5. QED
      BY <2>3, <2>4
  <1>7. CoverOf({tracker.range}) \subseteq Effective'
    <2>1. ASSUME NEW t \in CoverOf({tracker.range}) PROVE t \in Effective'
      <3>1. t \in Time /\ tracker.range.start <= t /\ t <= tracker.range.end
        BY DEF CoverOf
      <3>2. rows'[i].start <= t /\ t <= rows'[i].end
        BY <1>2, <1>3, <3>1, CandleFacts
      <3>3. In(t, rows'[i])
        BY <1>5, <3>2 DEF In
      <3>4. QED
        BY <1>4, <3>1, <3>3, CoverByRows
    <2>2. QED
      BY <2>1
  <1>8. QED
    BY <1>3, <1>6, <1>7 DEF MergeInv, MergeHolds, HoldsInMerge, RangeCovered

LEMMA RaiseMerge ==
  ASSUME TypeInv, TypeInv', MergeInv, UpdateRaises
  PROVE  MergeInv' /\ Effective' = Effective /\ tracker.at # "merge"
  <1>1. tracker.at = "upsert" /\ tracker.current = None /\ UNCHANGED rows
        /\ tracker' = TrackerIdle
    BY DEF UpdateRaises, MergeInv, HoldsInMerge
  <1>2. tracker'.at = "idle" /\ tracker'.current = None
    BY <1>1, IdleFacts
  <1>3. RowsOK /\ RowsOK' /\ TrackerOK /\ TrackerOK'
    BY TypeParts DEF TypeInv
  <1>4. Effective' = Effective
    BY <1>1, <1>2, <1>3, CoverByRows
  <1>5. QED
    BY <1>1, <1>2, <1>4 DEF MergeInv, MergeHolds, HoldsInMerge, RangeCovered

\* What the merge goes on with is what a row says.
LEMMA LoadMerge ==
  ASSUME TypeInv, TypeInv', MergeInv, LoadRanges
  PROVE  MergeInv' /\ Effective' = Effective
  <1>1. tracker.at = "merge" /\ tracker.current = None /\ UNCHANGED rows
    BY LoadTypes
  <1>2. RowsOK /\ RowsOK' /\ TrackerOK /\ TrackerOK'
    BY TypeParts DEF TypeInv
  <1>3. CASE tracker' = TrackerIdle
    <2>1. tracker'.at = "idle" /\ tracker'.current = None
      BY <1>3, IdleFacts
    <2>2. Effective' = Effective
      BY <1>1, <1>2, <2>1, CoverByRows
    <2>3. QED
      BY <2>1, <2>2 DEF MergeInv, MergeHolds, HoldsInMerge, RangeCovered
  <1>4. ASSUME NEW x \in Rows, \A y \in Rows : x[2].start <= y[2].start,
               tracker'.list = Rows \ {x}, tracker'.current = x,
               tracker'.at = "merge", tracker'.range = tracker.range
        PROVE  MergeInv' /\ Effective' = Effective
    <2>1. /\ x[1] \in RowId /\ x[2] \in DateRange /\ rows[x[1]] = x[2] /\ rows[x[1]] # None
          /\ x \in RowId \X DateRange /\ x # None
      BY PairFacts, Sentinels
    <2>2. Effective' = Effective
      <3>1. \A t \in Time : In(t, x[2]) => \E i \in RowId : In(t, rows[i])
        BY <2>1
      <3>2. QED
        BY <1>1, <1>2, <1>4, <3>1, CoverByRows
    <2>3. MergeHolds'
      <3>1. ASSUME NEW y \in Rows \ {x} PROVE y[1] # x[1] /\ rows[y[1]] = y[2]
        <4>1. y \in RowId \X DateRange /\ rows[y[1]] = y[2]
          BY PairFacts
        <4>2. y = <<y[1], y[2]>> /\ x = <<x[1], x[2]>>
          BY <2>1, <4>1
        <4>3. QED
          BY <2>1, <4>1, <4>2
      <3>2. x[2].start = x[2].start /\ x[2].end <= x[2].end
        BY <2>1, CandleFacts
      <3>3. QED
        BY <1>1, <1>4, <2>1, <3>1, <3>2 DEF MergeHolds
    <2>4. HoldsInMerge' /\ RangeCovered'
      BY <1>1, <1>4, <2>2 DEF MergeInv, HoldsInMerge, RangeCovered
    <2>5. QED
      BY <2>2, <2>3, <2>4 DEF MergeInv
  <1>5. QED
    BY <1>3, <1>4, LoadTypes

\* The rows on the list, and the one that the merge holds.
LEMMA ListFacts ==
  ASSUME TypeInv, MergeInv, tracker.current # None, NEW x \in tracker.list
  PROVE  LET i == tracker.current[1]
             r == tracker.current[2]
         IN  /\ i \in RowId /\ r \in DateRange /\ r # None
             /\ rows[i] \in DateRange /\ rows[i].start = r.start /\ rows[i].end <= r.end
             /\ x[1] \in RowId /\ x[2] \in DateRange /\ x[2] # None /\ x # None
             /\ x[1] # i /\ rows[x[1]] = x[2] /\ r.start <= x[2].start
             /\ \A y \in tracker.list : /\ y[2] \in DateRange
                                        /\ y[1] # i /\ rows[y[1]] = y[2] /\ r.start <= y[2].start
                                        /\ y # x => y[1] # x[1]
  <1>1. \A y \in tracker.list : y \in RowId \X DateRange /\ y[1] \in RowId /\ y[2] \in DateRange
    BY PairFacts
  <1>2. tracker.current[1] \in RowId /\ tracker.current[2] \in DateRange
    BY PairFacts
  <1>3. /\ rows[tracker.current[1]] # None
        /\ rows[tracker.current[1]].start = tracker.current[2].start
        /\ rows[tracker.current[1]].end <= tracker.current[2].end
        /\ \A y \in tracker.list : /\ y[1] # tracker.current[1] /\ rows[y[1]] = y[2]
                                   /\ tracker.current[2].start <= y[2].start
    BY DEF MergeInv, MergeHolds
  <1>4. rows[tracker.current[1]] \in DateRange
    BY <1>2, <1>3, Parts DEF RowsOK
  <1>5. ASSUME NEW y \in tracker.list, y # x PROVE y[1] # x[1]
    <2>1. x = <<x[1], x[2]>> /\ y = <<y[1], y[2]>>
      BY <1>1
    <2>2. rows[x[1]] = x[2] /\ rows[y[1]] = y[2]
      BY <1>3
    <2>3. QED
      BY <1>5, <2>1, <2>2
  <1>6. x # None /\ x[2] # None /\ tracker.current[2] # None
    BY <1>1, <1>2, Sentinels
  <1>7. QED
    BY <1>1, <1>2, <1>3, <1>4, <1>5, <1>6

\* A row is deleted: the range that is held has its days, and no others.
LEMMA TakeOverMerge ==
  ASSUME TypeInv, TypeInv', MergeInv, tracker.at = "merge", tracker.current # None,
         NEW x \in tracker.list, TakeOver(x)
  PROVE  MergeInv' /\ Effective' = Effective
  <1> DEFINE i == tracker.current[1]
             r == tracker.current[2]
             m == Merged(r, x[2])
  <1>1. /\ i \in RowId /\ r \in DateRange /\ r # None
        /\ rows[i] \in DateRange /\ rows[i].start = r.start /\ rows[i].end <= r.end
        /\ x[1] \in RowId /\ x[2] \in DateRange /\ x[2] # None
        /\ x[1] # i /\ rows[x[1]] = x[2] /\ r.start <= x[2].start
        /\ \A y \in tracker.list : /\ y[2] \in DateRange
                                   /\ y[1] # i /\ rows[y[1]] = y[2] /\ r.start <= y[2].start
                                   /\ y # x => y[1] # x[1]
    BY ListFacts
  <1>2. \A y \in tracker.list : y[1] \in RowId
    BY PairFacts
  <1>3. /\ m \in DateRange /\ m.start = r.start /\ r.end <= m.end /\ x[2].end <= m.end
        /\ m.end \in {r.end, x[2].end} /\ m # None
    BY <1>1, MergedFacts, Sentinels
  <1>4. /\ rows'[x[1]] = None /\ \A j \in RowId : j # x[1] => rows'[j] = rows[j]
        /\ tracker'.at = "merge" /\ tracker'.range = tracker.range
        /\ tracker'.list = tracker.list \ {x} /\ tracker'.current = <<i, m>>
    BY MergeTypes
  <1>5. x[2].start <= r.end + 1
    BY DEF TakeOver, Touches
  <1>6. RowsOK /\ RowsOK' /\ TrackerOK /\ TrackerOK'
    BY TypeParts DEF TypeInv
  <1>7. tracker'.current # None /\ tracker'.current[1] = i /\ tracker'.current[2] = m
    BY <1>1, <1>3, <1>4, Sentinels
  <1> HIDE DEF m
  <1>8. ASSUME NEW t \in Time
        PROVE  In(t, m) <=> In(t, r) \/ In(t, x[2])
    <2>1. /\ t \in Int /\ r.start \in Int /\ r.end \in Int /\ x[2].start \in Int /\ x[2].end \in Int
          /\ m.end \in Int
      BY <1>1, <1>3, CandleFacts
    <2>2. QED
      BY <1>1, <1>3, <1>5, <2>1 DEF In
  <1>9. ASSUME NEW t \in Time PROVE t \in Effective' <=> t \in Effective
    <2>1. t \in Effective <=> (\E j \in RowId : In(t, rows[j])) \/ In(t, r)
      BY <1>6, CoverByRows
    <2>2. t \in Effective' <=> (\E j \in RowId : In(t, rows'[j])) \/ In(t, m)
      BY <1>6, <1>7, CoverByRows
    <2>3. ~ In(t, rows'[x[1]])
      BY <1>4 DEF In
    <2>4. QED
      BY <1>1, <1>4, <1>8, <2>1, <2>2, <2>3
  <1>10. Effective' = Effective
    BY <1>6, <1>9, CoverByRows
  <1>11. MergeHolds'
    <2>1. rows'[i] = rows[i] /\ rows'[i] # None
      BY <1>1, <1>4, Sentinels
    <2>2. rows[i].end <= m.end
      BY <1>1, <1>3, CandleFacts
    <2>3. \A y \in tracker'.list : y[1] # i /\ rows'[y[1]] = y[2] /\ m.start <= y[2].start
      BY <1>1, <1>2, <1>3, <1>4
    <2>4. QED
      BY <1>1, <1>3, <1>7, <2>1, <2>2, <2>3 DEF MergeHolds
  <1>12. HoldsInMerge' /\ RangeCovered'
    BY <1>4, <1>10 DEF MergeInv, HoldsInMerge, RangeCovered
  <1>13. QED
    BY <1>10, <1>11, <1>12 DEF MergeInv

\* The range that is held is saved in its row, and the next one is held.
LEMMA MoveOnMerge ==
  ASSUME TypeInv, TypeInv', MergeInv, tracker.at = "merge", tracker.current # None,
         NEW x \in tracker.list, IsNext(x, tracker.list), MoveOn(x)
  PROVE  MergeInv' /\ Effective' = Effective
  <1> DEFINE i == tracker.current[1]
             r == tracker.current[2]
  <1>1. /\ i \in RowId /\ r \in DateRange /\ r # None
        /\ rows[i] \in DateRange /\ rows[i].start = r.start /\ rows[i].end <= r.end
        /\ x[1] \in RowId /\ x[2] \in DateRange /\ x[2] # None /\ x # None
        /\ x[1] # i /\ rows[x[1]] = x[2] /\ r.start <= x[2].start
        /\ \A y \in tracker.list : /\ y[2] \in DateRange
                                   /\ y[1] # i /\ rows[y[1]] = y[2]
                                   /\ y # x => y[1] # x[1]
    BY ListFacts
  <1>2. \A y \in tracker.list : y[1] \in RowId
    BY PairFacts
  <1>3. /\ rows'[i] = r /\ \A j \in RowId : j # i => rows'[j] = rows[j]
        /\ tracker'.at = "merge" /\ tracker'.range = tracker.range
        /\ tracker'.list = tracker.list \ {x} /\ tracker'.current = x
    BY MergeTypes
  <1>4. RowsOK /\ RowsOK' /\ TrackerOK /\ TrackerOK'
    BY TypeParts DEF TypeInv
  <1> HIDE DEF i, r
  <1>5. ASSUME NEW t \in Time PROVE In(t, rows[i]) => In(t, r)
    <2>1. t \in Int /\ rows[i].end \in Int /\ r.end \in Int
      BY <1>1, CandleFacts
    <2>2. QED
      BY <1>1, <2>1 DEF In
  <1>6. ASSUME NEW t \in Time PROVE t \in Effective' <=> t \in Effective
    <2>1. t \in Effective <=> (\E j \in RowId : In(t, rows[j])) \/ In(t, r)
      BY <1>4, CoverByRows DEF r
    <2>2. t \in Effective' <=> (\E j \in RowId : In(t, rows'[j])) \/ In(t, x[2])
      BY <1>1, <1>3, <1>4, CoverByRows
    <2>3. In(t, x[2]) <=> In(t, rows'[x[1]])
      BY <1>1, <1>3
    <2>4. QED
      BY <1>1, <1>3, <1>5, <2>1, <2>2, <2>3
  <1>7. Effective' = Effective
    BY <1>4, <1>6, CoverByRows
  <1>8. MergeHolds'
    <2>1. rows'[x[1]] = x[2] /\ x[2].end <= x[2].end
      BY <1>1, <1>3, CandleFacts
    <2>2. \A y \in tracker'.list : y[1] # x[1] /\ rows'[y[1]] = y[2] /\ x[2].start <= y[2].start
      BY <1>1, <1>2, <1>3 DEF IsNext
    <2>3. QED
      BY <1>1, <1>3, <2>1, <2>2 DEF MergeHolds
  <1>9. HoldsInMerge' /\ RangeCovered'
    BY <1>3, <1>7 DEF MergeInv, HoldsInMerge, RangeCovered
  <1>10. QED
    BY <1>7, <1>8, <1>9 DEF MergeInv

LEMMA SaveMerge ==
  ASSUME TypeInv, TypeInv', MergeInv, SaveLast
  PROVE  MergeInv' /\ Effective' = Effective
  <1> DEFINE i == tracker.current[1]
             r == tracker.current[2]
  <1>1. /\ tracker' = TrackerIdle /\ tracker.current # None
        /\ i \in RowId /\ r \in DateRange
        /\ rows'[i] = r /\ \A j \in RowId : j # i => rows'[j] = rows[j]
    BY SaveTypes
  <1>2. /\ rows[i] # None /\ rows[i].start = r.start /\ rows[i].end <= r.end
    BY <1>1 DEF MergeInv, MergeHolds
  <1>3. RowsOK /\ RowsOK' /\ TrackerOK /\ TrackerOK'
    BY TypeParts DEF TypeInv
  <1>4. rows[i] \in DateRange /\ r # None
    BY <1>1, <1>2, <1>3, Sentinels DEF RowsOK
  <1>5. tracker'.at = "idle" /\ tracker'.current = None
    BY <1>1, IdleFacts
  <1> HIDE DEF i, r
  <1>6. ASSUME NEW t \in Time PROVE In(t, rows[i]) => In(t, r)
    <2>1. t \in Int /\ rows[i].end \in Int /\ r.end \in Int
      BY <1>1, <1>4, CandleFacts
    <2>2. QED
      BY <1>2, <1>4, <2>1 DEF In
  <1>7. ASSUME NEW t \in Time PROVE t \in Effective' <=> t \in Effective
    <2>1. t \in Effective <=> (\E j \in RowId : In(t, rows[j])) \/ In(t, r)
      BY <1>1, <1>3, CoverByRows DEF r
    <2>2. t \in Effective' <=> \E j \in RowId : In(t, rows'[j])
      BY <1>3, <1>5, CoverByRows
    <2>3. QED
      BY <1>1, <1>6, <2>1, <2>2
  <1>8. Effective' = Effective
    BY <1>3, <1>7, CoverByRows
  <1>9. QED
    BY <1>5, <1>8 DEF MergeInv, MergeHolds, HoldsInMerge, RangeCovered

\* Without anything held, a merge that is given up loses nothing.
LEMMA FailMerge ==
  ASSUME TypeInv, TypeInv', MergeInv, TrackerFails
  PROVE  /\ MergeInv' /\ Effective' \subseteq Effective /\ faults' # faults
         /\ ~ CutOff => Effective \subseteq Effective'
  <1>1. tracker' = TrackerIdle /\ UNCHANGED rows /\ faults' = faults + 1
    BY DEF TrackerFails, Fault
  <1>2. tracker'.at = "idle" /\ tracker'.current = None
    BY <1>1, IdleFacts
  <1>3. RowsOK /\ RowsOK' /\ TrackerOK /\ TrackerOK'
    BY TypeParts DEF TypeInv
  <1>4. faults' # faults
    BY <1>1, Parts, Bounds DEF CountsOK
  <1>5. Effective' \subseteq Effective
    BY <1>1, <1>2, <1>3, CoverByRows
  <1>6. ASSUME ~ CutOff PROVE Effective \subseteq Effective'
    <2>1. tracker.current = None
      BY <1>1, <1>4, <1>6 DEF CutOff
    <2>2. QED
      BY <1>1, <1>2, <1>3, <2>1, CoverByRows
  <1>7. QED
    BY <1>2, <1>4, <1>5, <1>6 DEF MergeInv, MergeHolds, HoldsInMerge, RangeCovered

\* The range is covered when the merge is over, both ends of it by rows.
LEMMA VerifyFacts ==
  ASSUME TypeInv, TypeInv', MergeInv, tracker.at = "merge", tracker'.current = None,
         Effective \subseteq Effective'
  PROVE  /\ CoverOf({tracker.range}) \subseteq Covered'
         /\ VerifyCoverageIntegrity(tracker.range, Rows') \subseteq {"count"}
  <1>1. CoverOf({tracker.range}) \subseteq Covered'
    <2>1. CoverOf({tracker.range}) \subseteq Effective'
      BY DEF MergeInv, RangeCovered
    <2>2. Effective' = Covered'
      BY DEF Effective, Held, CoverOf
    <2>3. QED
      BY <2>1, <2>2
  <1>2. PICK range \in DateRange : range = tracker.range
    BY PairFacts
  <1>3. range.start \in Covered' /\ range.end \in Covered'
    <2>1. range.start \in Time /\ range.end \in Time /\ range.start <= range.end
      BY CandleFacts
    <2>2. range.start <= range.start /\ range.end <= range.end
      BY <2>1, CandleFacts
    <2>3. range.start \in CoverOf({range}) /\ range.end \in CoverOf({range})
      BY <2>1, <2>2 DEF CoverOf
    <2>4. QED
      BY <1>1, <1>2, <2>3
  <1>4. PICK x \in Rows' : x[2].start <= range.start
    BY <1>3 DEF Covered, CoverOf, Ranges
  <1>5. PICK y \in Rows' : range.end <= y[2].end
    BY <1>3 DEF Covered, CoverOf, Ranges
  <1>6. x[2] \in DateRange /\ y[2] \in DateRange
    <2>1. RowsOK' /\ x[2] \in Ranges' /\ y[2] \in Ranges'
      BY TypeParts DEF TypeInv, Ranges
    <2>2. QED
      BY <2>1, RangesPrimed
  <1>7. ~ (x[2].start > range.start) /\ ~ (y[2].end < range.end)
    BY <1>4, <1>5, <1>6, CandleFacts
  <1>8. VerifyCoverageIntegrity(range, Rows') \subseteq {"count"}
    BY <1>7 DEF VerifyCoverageIntegrity
  <1>9. QED
    BY <1>1, <1>2, <1>8

\* Every step keeps what the merge holds, and what is covered with it.
LEMMA MergeStep ==
  ASSUME TypeInv, TypeInv', MergeInv, [Next]_vars
  PROVE  /\ MergeInv'
         /\ ~ CutOff => Effective \subseteq Effective'
         /\ tracker.at = "merge" => Effective' \subseteq Effective
         /\ tracker.at = "merge" /\ tracker'.at = "idle" /\ faults' = faults =>
              /\ CoverOf({tracker.range}) \subseteq Covered'
              /\ VerifyCoverageIntegrity(tracker.range, Rows') \subseteq {"count"}
  <1>1. CASE UNCHANGED ranges
    <2>1. tracker.at = "merge" => tracker'.at = "merge"
      BY <1>1 DEF ranges
    <2>2. QED
      BY <1>1, <2>1, Same
  <1>2. CASE QueryDateRange \/ UpdateRange \/ CreateRange
    <2>1. tracker.at # "merge"
      BY <1>2 DEF QueryDateRange, UpdateRange, CreateRange
    <2>2. QED
      BY <1>2, <2>1, QueryMerge, UpsertMerge
  <1>3. CASE UpdateRaises
    BY <1>3, RaiseMerge
  <1>4. CASE LoadRanges
    <2>1. MergeInv' /\ Effective' = Effective /\ tracker.at = "merge"
      BY <1>4, LoadMerge, LoadTypes
    <2>2. tracker'.at = "idle" => tracker'.current = None
      BY <2>1 DEF MergeInv, HoldsInMerge
    <2>3. QED
      BY <2>1, <2>2, VerifyFacts
  <1>5. CASE MergeNext
    <2>1. PICK x \in tracker.list :
            /\ tracker.at = "merge" /\ tracker.current # None
            /\ IsNext(x, tracker.list) /\ (TakeOver(x) \/ MoveOn(x))
      BY <1>5 DEF MergeNext
    <2>2. MergeInv' /\ Effective' = Effective
      BY <2>1, TakeOverMerge, MoveOnMerge
    <2>3. tracker'.at = "merge"
      BY <2>1, MergeTypes
    <2>4. QED
      BY <2>2, <2>3
  <1>6. CASE SaveLast
    <2>1. MergeInv' /\ Effective' = Effective /\ tracker.at = "merge"
      BY <1>6, SaveMerge, SaveTypes
    <2>2. tracker'.current = None
      BY <1>6, SaveTypes, IdleFacts
    <2>3. QED
      BY <2>1, <2>2, VerifyFacts
  <1>7. CASE TrackerFails
    BY <1>7, FailMerge
  <1>8. CASE Next /\ ~ Track /\ ~ TrackerFails
    <2>1. CASE Tick
      BY <1>1, <2>1 DEF Tick
    <2>2. ASSUME NEW from \in 1..now - 1, NEW to \in 1..now - 1, IngestFile(from, to)
          PROVE  UNCHANGED ranges
      BY <2>2 DEF IngestFile
    <2>3. ASSUME NEW w \in Worker, Task(w) \/ TaskFails(w) PROVE UNCHANGED ranges
      BY <2>3 DEF Task, TaskFails, BackfillGapsIncremental, MarkBackfilling, FetchAndSave
    <2>4. CASE CleanupOldGapRecords
      BY <1>1, <2>4 DEF CleanupOldGapRecords
    <2>5. CASE Fill
      <3>1. UNCHANGED ranges
        BY <2>5 DEF Fill, Handle, BackfillGap, BackfillGapFails
      <3>2. QED
        BY <1>1, <3>1
    <2>6. QED
      BY <1>1, <1>8, <2>1, <2>2, <2>3, <2>4, <2>5 DEF Next
  <1>9. QED
    <2>1. CASE UNCHANGED vars
      BY <1>1, <2>1 DEF vars
    <2>2. QED
      BY <1>2, <1>4, <1>5, <1>6, <1>7, <1>8, <1>3, <2>1 DEF Track

LEMMA InitMergeInv == Init => MergeInv
  BY IdleFacts DEF Init, MergeInv, MergeHolds, HoldsInMerge, RangeCovered

\* Merging ranges neither forgets a day nor invents one, at any of its steps, unless it
\* is cut off: what is held has all the days of the rows that were deleted
\* (merge_overlapping_ranges).
THEOREM MergingKeepsCoverage == Spec => MergeKeepsCoverage
  <1>1. TypeInv /\ TypeInv' /\ MergeInv /\ [Next]_vars => MergeInv'
    BY MergeStep
  <1>2. TypeInv /\ TypeInv' /\ MergeInv /\ [Next]_vars =>
          [ /\ ~ CutOff => Effective \subseteq Effective'
            /\ tracker.at = "merge" => Effective' \subseteq Effective ]_vars
    BY MergeStep
  <1>3. QED
    BY <1>1, <1>2, InitMergeInv, InitTypeInv, NextTypeInv, PTL DEF Spec, MergeKeepsCoverage

\* An update that runs to its end leaves covered all that it found, whatever merges
\* before it were cut off and whatever rows there were: the row that it wrote covers the
\* range, and the merge forgets nothing of it (update_coverage_for_asset).
THEOREM UpdatesRepair == Spec => UpdateRepairs
  <1>1. TypeInv /\ TypeInv' /\ MergeInv /\ [Next]_vars => MergeInv'
    BY MergeStep
  <1>2. TypeInv /\ TypeInv' /\ MergeInv /\ [Next]_vars =>
          [ tracker.at = "merge" /\ tracker'.at = "idle" /\ faults' = faults =>
              /\ CoverOf({tracker.range}) \subseteq Covered'
              /\ VerifyCoverageIntegrity(tracker.range, Rows') \subseteq {"count"} ]_vars
    BY MergeStep
  <1>3. QED
    BY <1>1, <1>2, InitMergeInv, InitTypeInv, NextTypeInv, PTL DEF Spec, UpdateRepairs
=============================================================================

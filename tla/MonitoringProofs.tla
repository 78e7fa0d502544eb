--------------------------- MODULE MonitoringProofs ---------------------------
(***************************************************************************)
(* Proofs about RequestTracking, for any number of workers, admins, tasks, *)
(* addresses, fingerprints and bans.                                       *)
(***************************************************************************)
EXTENDS RequestTracking, Uptime, FiniteSetTheorems, WellFoundedInduction,
        NaturalsInduction, SequenceTheorems, TLAPS

-----------------------------------------------------------------------------
(* Sequences.                                                               *)

\* Induction, as a fact about sets: what fails for some number fails for a least.
LEMMA LeastNat ==
  ASSUME NEW T, T \subseteq Nat, T # {}
  PROVE  \E n \in T : \A m \in T : n <= m
  <1>1. PICK n \in T : \A m \in T : ~(<<m, n>> \in OpToRel(<, Nat))
    BY WFMin, NatLessThanWellFounded
  <1>2. ASSUME NEW m \in T PROVE ~(m < n)
    BY <1>1, Zenon DEF OpToRel
  <1>3. QED
    BY <1>2

\* An element goes from a sequence without repetitions: it is gone, the others stay.
LEMMA RemoveAtFacts ==
  ASSUME NEW S, NEW s \in Seq(S), IsInjective(s), NEW i \in DOMAIN s
  PROVE  /\ RemoveAt(s, i) \in Seq(S)
         /\ IsInjective(RemoveAt(s, i))
         /\ Range(RemoveAt(s, i)) = Range(s) \ {s[i]}
  <1> DEFINE r == RemoveAt(s, i)
  <1>1. i \in 1..Len(s)
    OBVIOUS
  <1>2. /\ r \in Seq(S) /\ Len(r) = Len(s) - 1
        /\ \A k \in 1..Len(r) : r[k] = IF k < i THEN s[k] ELSE s[k + 1]
    <2> DEFINE a == SubSeq(s, 1, i - 1)
               b == SubSeq(s, i + 1, Len(s))
    <2>1. /\ a \in Seq(S) /\ Len(a) = i - 1
          /\ \A k \in 1..(i - 1) : a[k] = s[k]
      BY <1>1
    <2>2. /\ b \in Seq(S) /\ Len(b) = Len(s) - i
          /\ \A k \in 1..(Len(s) - i) : b[k] = s[k + i]
      BY <1>1
    <2>3. r = a \o b
      BY DEF RemoveAt
    <2> HIDE DEF a, b, r
    <2>4. /\ r \in Seq(S) /\ Len(r) = Len(s) - 1
          /\ \A k \in 1..Len(r) : r[k] = IF k <= i - 1 THEN a[k] ELSE b[k - (i - 1)]
      BY <1>1, <2>1, <2>2, <2>3
    <2>5. ASSUME NEW k \in 1..Len(r), ~(k < i)
          PROVE  b[k - (i - 1)] = s[k + 1]
      <3>1. k - (i - 1) \in 1..(Len(s) - i) /\ (k - (i - 1)) + i = k + 1
        BY <1>1, <2>4, <2>5
      <3>2. QED
        BY <2>2, <3>1
    <2>6. QED
      BY <1>1, <2>1, <2>4, <2>5
  <1> HIDE DEF r
  <1>3. IsInjective(r)
    BY <1>1, <1>2 DEF IsInjective
  <1>4. ASSUME NEW x \in Range(r) PROVE x \in Range(s) \ {s[i]}
    <2>1. PICK k \in 1..Len(r) : r[k] = x
      BY <1>2 DEF Range
    <2>2. \E j \in 1..Len(s) : s[j] = x /\ j # i
      BY <1>1, <1>2, <2>1
    <2>3. QED
      BY <1>1, <2>2 DEF Range, IsInjective
  <1>5. ASSUME NEW x \in Range(s), x # s[i] PROVE x \in Range(r)
    <2>1. PICK j \in 1..Len(s) : s[j] = x /\ j # i
      BY <1>5 DEF Range
    <2>2. \E k \in 1..Len(r) : r[k] = x
      <3>1. CASE j < i
        BY <1>1, <1>2, <2>1, <3>1
      <3>2. CASE j > i
        <4>1. j - 1 \in 1..Len(r) /\ r[j - 1] = s[j - 1 + 1]
          BY <1>1, <1>2, <2>1, <3>2
        <4>2. QED
          BY <2>1, <4>1
      <3>3. QED
        BY <1>1, <2>1, <3>1, <3>2
    <2>3. QED
      BY <1>2, <2>2 DEF Range
  <1>6. QED
    BY <1>2, <1>3, <1>4, <1>5 DEF r

\* A new element in front.
LEMMA ConsFacts ==
  ASSUME NEW S, NEW s \in Seq(S), IsInjective(s), NEW e \in S, e \notin Range(s)
  PROVE  /\ <<e>> \o s \in Seq(S)
         /\ IsInjective(<<e>> \o s)
         /\ Range(<<e>> \o s) = Range(s) \cup {e}
  <1> DEFINE r == <<e>> \o s
  <1>1. /\ r \in Seq(S) /\ Len(r) = Len(s) + 1
        /\ r[1] = e /\ \A k \in 2..Len(r) : r[k] = s[k - 1]
    OBVIOUS
  <1>2. \A k \in 1..Len(s) : k + 1 \in 2..Len(r) /\ r[k + 1] = s[k]
    BY <1>1
  <1>3. \A k \in 1..Len(s) : s[k] # e
    BY DEF Range
  <1> HIDE DEF r
  <1>4. IsInjective(r)
    <2>1. ASSUME NEW j \in 2..Len(r) PROVE r[j] # e
      <3>1. j - 1 \in 1..Len(s)
        BY <1>1, <2>1
      <3>2. QED
        BY <1>1, <1>3, <2>1, <3>1
    <2>2. ASSUME NEW j \in 2..Len(r), NEW k \in 2..Len(r), r[j] = r[k] PROVE j = k
      <3>1. j - 1 \in 1..Len(s) /\ k - 1 \in 1..Len(s) /\ s[j - 1] = s[k - 1]
        BY <1>1, <2>2
      <3>2. j - 1 = k - 1
        BY <3>1 DEF IsInjective
      <3>3. QED
        BY <3>2
    <2>3. \A j \in DOMAIN r : j = 1 \/ j \in 2..Len(r)
      BY <1>1
    <2>4. QED
      BY <1>1, <2>1, <2>2, <2>3 DEF IsInjective
  <1>5. Range(r) = Range(s) \cup {e}
    <2>1. ASSUME NEW j \in 1..Len(r) PROVE r[j] \in Range(s) \cup {e}
      <3>1. CASE j = 1
        BY <1>1, <3>1
      <3>2. CASE j # 1
        <4>1. j - 1 \in 1..Len(s) /\ r[j] = s[j - 1]
          BY <1>1, <3>2
        <4>2. QED
          BY <4>1 DEF Range
      <3>3. QED
        BY <3>1, <3>2
    <2>2. ASSUME NEW k \in 1..Len(s) PROVE s[k] \in Range(r)
      <3>1. k + 1 \in 1..Len(r) /\ r[k + 1] = s[k]
        BY <1>1, <1>2
      <3>2. QED
        BY <1>1, <3>1 DEF Range
    <2>3. e \in Range(r)
      <3>1. 1 \in 1..Len(r)
        BY <1>1
      <3>2. QED
        BY <1>1, <3>1 DEF Range
    <2>4. Range(r) \subseteq Range(s) \cup {e}
      BY <1>1, <2>1 DEF Range
    <2>5. Range(s) \subseteq Range(r)
      BY <2>2 DEF Range
    <2>6. QED
      BY <2>3, <2>4, <2>5
  <1>6. QED
    BY <1>1, <1>4, <1>5 DEF r

\* First takes a prefix, and what it leaves is a sequence of the same elements.
LEMMA FirstFacts ==
  ASSUME NEW S, NEW s \in Seq(S), NEW n \in Nat \ {0}
  PROVE  /\ First(n, s) \in Seq(S)
         /\ s # <<>> => Len(First(n, s)) \in 1..Len(s)
         /\ SubSeq(s, Len(First(n, s)) + 1, Len(s)) \in Seq(S)
         /\ DOMAIN First(n, s) = 1..Len(First(n, s))
  BY DEF First

\* The addresses without a location are addresses.  The recursive definition has a
\* value, by induction on how far it is unfolded; and each value is a sequence of
\* addresses, by induction again.
LEMMA MissingType ==
  ASSUME rows \in Seq(Ip)
  PROVE  Missing \in Seq(Ip)
  <1> DEFINE L == Len(rows)
             Unfold(f, n) == IF n = 0 THEN <<>>
                             ELSE IF rows[n] \in located THEN f[n - 1]
                             ELSE Append(f[n - 1], rows[n])
             Solves(f, m) == f = [n \in 0..m |-> Unfold(f, n)]
             Unsolved == {m \in 0..L : \A f : ~Solves(f, m)}
  <1>1. L \in Nat
    OBVIOUS
  <1>2. ASSUME NEW m \in 0..L, NEW f, m = 0 \/ Solves(f, m - 1)
        PROVE  \E g : Solves(g, m)
    <2> DEFINE g == [n \in 0..m |-> IF n < m THEN f[n] ELSE Unfold(f, n)]
    <2>1. ASSUME NEW n \in 0..m PROVE g[n] = Unfold(g, n)
      <3>1. g[n] = Unfold(f, n)
        <4>1. CASE n = m
          BY <1>1, <4>1
        <4>2. CASE n # m
          <5>1. m # 0 /\ n \in 0..(m - 1) /\ n < m
            BY <1>1, <4>2
          <5>2. f[n] = Unfold(f, n)
            BY <1>2, <5>1
          <5>3. QED
            BY <5>1, <5>2
        <4>3. QED
          BY <4>1, <4>2
      <3>2. n # 0 => g[n - 1] = f[n - 1]
        BY <1>1
      <3> HIDE DEF g
      <3>3. QED
        BY <3>1, <3>2
    <2>2. g = [n \in 0..m |-> g[n]]
      OBVIOUS
    <2> HIDE DEF g
    <2>3. Solves(g, m)
      BY <2>1, <2>2
    <2>4. QED
      BY <2>3
  <1> HIDE DEF Unfold, Solves
  <1>3. Unsolved = {}
    <2>1. SUFFICES ASSUME Unsolved # {} PROVE FALSE
      OBVIOUS
    <2>2. PICK m \in Unsolved : \A k \in Unsolved : m <= k
      <3>1. Unsolved \subseteq Nat
        BY <1>1
      <3>2. QED
        BY <2>1, <3>1, LeastNat
    <2>3. m = 0 \/ \E f : Solves(f, m - 1)
      <3>1. m # 0 => m - 1 \in 0..L /\ ~(m <= m - 1)
        BY <1>1
      <3>2. m # 0 => m - 1 \notin Unsolved
        BY <2>2, <3>1
      <3>3. QED
        BY <3>1, <3>2
    <2>4. \E f : Solves(f, m)
      BY <1>2, <2>3
    <2>5. QED
      BY <2>4
  <1>4. Solves(MissingAmong, L)
    <2>1. \E f : Solves(f, L)
      BY <1>1, <1>3
    <2>2. MissingAmong = CHOOSE f : Solves(f, L)
      BY DEF MissingAmong, Solves, Unfold
    <2>3. QED
      BY <2>1, <2>2
  <1> DEFINE Untyped == {m \in 0..L : MissingAmong[m] \notin Seq(Ip)}
  <1>5. Untyped = {}
    <2>1. SUFFICES ASSUME Untyped # {} PROVE FALSE
      OBVIOUS
    <2>2. PICK m \in Untyped : \A k \in Untyped : m <= k
      <3>1. Untyped \subseteq Nat
        BY <1>1
      <3>2. QED
        BY <2>1, <3>1, LeastNat
    <2>3. MissingAmong[m] = Unfold(MissingAmong, m)
      <3>1. MissingAmong = [n \in 0..L |-> Unfold(MissingAmong, n)]
        BY <1>4 DEF Solves
      <3> DEFINE f == MissingAmong
      <3>2. QED
        BY <3>1
    <2>4. MissingAmong[m] \notin Seq(Ip) /\ m \in 0..L
      OBVIOUS
    <2>5. m # 0
      BY <2>3, <2>4 DEF Unfold
    <2>6. m - 1 \in 0..L /\ ~(m <= m - 1) /\ rows[m] \in Ip
      BY <1>1, <2>4, <2>5
    <2>7. MissingAmong[m - 1] \in Seq(Ip)
      BY <2>2, <2>6
    <2> HIDE DEF Untyped
    <2>8. MissingAmong[m] \in Seq(Ip)
      BY <2>3, <2>5, <2>6, <2>7 DEF Unfold
    <2>9. QED
      BY <2>4, <2>8
  <1>6. MissingAmong[L] \in Seq(Ip)
    BY <1>1, <1>5
  <1>7. QED
    BY <1>6 DEF Missing

-----------------------------------------------------------------------------
(* Type correctness.  A TrackedRequest refers to rows, though they are got   *)
(* in earlier statements: while nothing is lost, the rows that a request has *)
(* are there.                                                                *)

ReqType ==
    [request : RequestType, at : Stage, lost : BOOLEAN, excused : BOOLEAN,
     against : SUBSET (BanId \X Target)]

RowsOK ==
    rows \in Seq(Ip) /\ IsInjective(rows) /\ located \subseteq Range(rows) /\ prints \subseteq Hash

BansOK ==
    /\ bans \in [BanId -> Ban \cup {None}]
    /\ \A b \in BanId : bans[b] # None => bans[b].on \subseteq Range(rows) \cup prints \cup Pattern

TrackedOK == tracked \subseteq {r \in Tracked : r.ip \in Range(rows) /\ r.print \in prints}

ReqOK == req \in [Worker -> {None} \cup ReqType]

BanningOK ==
    banning \in [Admin -> {None} \cup
                    [todo : SUBSET (Ip \cup Hash), next : Ip \cup Hash \cup {None}]]

TaskOK ==
    task \in [Task -> {None} \cup [todo : Seq(Ip), results : Seq([ip : Ip, found : BOOLEAN])]]

CountsOK ==
    /\ now \in 0..MaxTime
    /\ arrivals \in 0..MaxRequests /\ edits \in 0..MaxEdits
    /\ runs \in 0..MaxRuns /\ faults \in 0..MaxFaults

LEMMA TypeParts ==
  /\ TypeOK <=> /\ RowsOK /\ BansOK /\ TrackedOK /\ ReqOK
                /\ BanningOK /\ TaskOK /\ CountsOK
  /\ TypeOK' <=> /\ RowsOK' /\ BansOK' /\ TrackedOK' /\ ReqOK'
                 /\ BanningOK' /\ TaskOK' /\ CountsOK'
  BY DEF TypeOK, RowsOK, BansOK, TrackedOK, ReqOK, ReqType, BanningOK, TaskOK, CountsOK

\* What a request has got, and has not lost, is there.
HoldsRows(w) ==
    req[w] # None =>
        /\ IpOf(w) \in Ip
        /\ req[w].at \in {"get print", "create print", "insert"} /\ ~ req[w].lost =>
              IpOf(w) \in Range(rows)
        /\ req[w].at = "insert" /\ ~ req[w].lost => PrintOf(w) \in prints

\* A run of the task has something left to do.
HasWork(t) == task[t] # None => task[t].todo # <<>> \/ task[t].results # <<>>

TypeInv == TypeOK /\ (\A w \in Worker : HoldsRows(w)) /\ (\A t \in Task : HasWork(t))

LEMMA Bounds ==
  /\ Batch \in Nat \ {0} /\ Most \in Nat \ {0} /\ MaxTargets \in Nat
  /\ MaxTime \in Nat /\ MaxRequests \in Nat /\ MaxEdits \in Nat
  /\ MaxRuns \in Nat /\ MaxFaults \in Nat
  BY BoundAssumption

LEMMA Counted ==
  ASSUME CountsOK
  PROVE  /\ arrivals < MaxRequests /\ arrivals' = arrivals + 1 => arrivals' \in 0..MaxRequests
         /\ runs < MaxRuns /\ runs' = runs + 1 => runs' \in 0..MaxRuns
         /\ now < MaxTime /\ now' = now + 1 => now' \in 0..MaxTime
         /\ Edit => edits' \in 0..MaxEdits
         /\ Fault => faults' \in 0..MaxFaults
  BY Bounds DEF CountsOK, Edit, Fault

LEMMA ClientIp ==
  ASSUME NEW r \in RequestType, GetClientIp(r) # None
  PROVE  GetClientIp(r) \in Ip
  BY DEF GetClientIp, IsGlobalIp, IsTrustedProxy

\* The stages that follow a check.
LEMMA AfterCheckFacts ==
  /\ DOMAIN AfterCheck = {"check ip", "check print", "check agent"}
  /\ AfterCheck["check ip"] = "check print"
  /\ AfterCheck["check print"] = "check agent"
  /\ AfterCheck["check agent"] = "get ip"
  BY DEF AfterCheck

\* A request in progress moves to another stage.
LEMMA GotoFacts ==
  ASSUME ReqOK, NEW w \in Worker, req[w] # None, NEW at \in Stage, Goto(w, at)
  PROVE  /\ ReqOK'
         /\ \A v \in Worker : v # w => req'[v] = req[v]
         /\ req'[w].at = at
         /\ req'[w].request = req[w].request /\ req'[w].lost = req[w].lost
         /\ req'[w].excused = req[w].excused /\ req'[w].against = req[w].against
  <1>1. req[w] \in ReqType
    BY DEF ReqOK
  <1>2. req' = [req EXCEPT ![w] = [req[w] EXCEPT !.at = at]]
    BY DEF Goto
  <1>3. [req[w] EXCEPT !.at = at] \in ReqType
    BY <1>1 DEF ReqType
  <1>4. req'[w] = [req[w] EXCEPT !.at = at]
    BY <1>2 DEF ReqOK
  <1>5. QED
    BY <1>1, <1>2, <1>3, <1>4 DEF ReqOK, ReqType

\* A request ends, however it does.
LEMMA EndFacts ==
  ASSUME ReqOK, NEW w \in Worker, req' = [req EXCEPT ![w] = None]
  PROVE  ReqOK' /\ req'[w] = None /\ \A v \in Worker : v # w => req'[v] = req[v]
  BY DEF ReqOK

\* Bans stop holding: nothing else changes in the requests.
LEMMA StillAgainstFacts ==
  ASSUME ReqOK, NEW bs, NEW time, req' = StillAgainst(bs, time)
  PROVE  /\ ReqOK'
         /\ \A w \in Worker : req[w] = None => req'[w] = None
         /\ \A w \in Worker : req[w] # None =>
               /\ req'[w].request = req[w].request /\ req'[w].at = req[w].at
               /\ req'[w].lost = req[w].lost /\ req'[w].excused = req[w].excused
               /\ req'[w].against = req[w].against \cap BannedTargets(bs, time)
  <1>1. ASSUME NEW w \in Worker, req[w] # None
        PROVE  /\ req'[w] \in ReqType
               /\ req'[w].request = req[w].request /\ req'[w].at = req[w].at
               /\ req'[w].lost = req[w].lost /\ req'[w].excused = req[w].excused
               /\ req'[w].against = req[w].against \cap BannedTargets(bs, time)
    <2>1. req[w] \in ReqType
      BY <1>1 DEF ReqOK
    <2>2. req'[w] = [req[w] EXCEPT !.against = req[w].against \cap BannedTargets(bs, time)]
      BY <1>1 DEF StillAgainst
    <2>3. QED
      BY <2>1, <2>2 DEF ReqType
  <1>2. ASSUME NEW w \in Worker, req[w] = None PROVE req'[w] = None
    BY <1>2 DEF StillAgainst
  <1>3. req' = [w \in Worker |-> req'[w]]
    BY DEF StillAgainst
  <1>4. ReqOK'
    BY <1>1, <1>2, <1>3 DEF ReqOK
  <1>5. QED
    BY <1>1, <1>2, <1>4

\* Requests that a step leaves alone still have their rows, if no row goes.
LEMMA OthersHold ==
  ASSUME NEW w \in Worker, HoldsRows(w), req'[w] = req[w],
         Range(rows) \subseteq Range(rows'), prints \subseteq prints'
  PROVE  HoldsRows(w)'
  BY DEF HoldsRows, IpOf, PrintOf

\* A step of a request that goes on: its stage and the rows it adds decide.
LEMMA GotoHolds ==
  ASSUME TypeInv, NEW w \in Worker, req[w] # None, NEW at \in Stage, Goto(w, at),
         Range(rows) \subseteq Range(rows'), prints \subseteq prints',
         at \in {"get print", "create print", "insert"} /\ ~ req[w].lost =>
            IpOf(w) \in Range(rows'),
         at = "insert" /\ ~ req[w].lost => PrintOf(w) \in prints'
  PROVE  ReqOK' /\ \A v \in Worker : HoldsRows(v)'
  <1>1. /\ ReqOK'
        /\ \A v \in Worker : v # w => req'[v] = req[v]
        /\ req'[w].at = at
        /\ req'[w].request = req[w].request /\ req'[w].lost = req[w].lost
    BY TypeParts, GotoFacts DEF TypeInv
  <1>2. IpOf(w)' = IpOf(w) /\ PrintOf(w)' = PrintOf(w)
    BY <1>1 DEF IpOf, PrintOf
  <1>3. HoldsRows(w)'
    BY <1>1, <1>2 DEF TypeInv, HoldsRows
  <1>4. QED
    BY <1>1, <1>3, OthersHold DEF TypeInv

LEMMA ArriveTypeInv ==
  ASSUME TypeInv, NEW w \in Worker, NEW r \in Request, Arrive(w, r)
  PROVE  TypeInv'
  <1>1. r \in RequestType /\ GetClientIp(r) \in Ip
    BY RequestAssumption, ClientIp DEF Arrive
  <1> DEFINE new == [request |-> r, at |-> "check ip", lost |-> FALSE, excused |-> FALSE,
                     against |-> {p \in BannedTargets(bans, now) : p[2] \in AllTargets(r)}]
  <1>2. new \in ReqType /\ new.request = r /\ new.at = "check ip"
    BY <1>1 DEF ReqType, Stage, BannedTargets
  <1>3. /\ req' = [req EXCEPT ![w] = new] /\ arrivals < MaxRequests /\ arrivals' = arrivals + 1
        /\ UNCHANGED <<now, rows, located, prints, bans, tracked, banning, task, edits, runs, faults>>
    BY DEF Arrive, tables
  <1> HIDE DEF new
  <1>4. ReqOK' /\ req'[w] = new /\ \A v \in Worker : v # w => req'[v] = req[v]
    BY <1>2, <1>3, TypeParts DEF TypeInv, ReqOK
  <1>5. HoldsRows(w)'
    BY <1>1, <1>2, <1>4 DEF HoldsRows, IpOf, GetRequestFingerprintData
  <1>6. \A v \in Worker : HoldsRows(v)'
    BY <1>3, <1>4, <1>5, OthersHold DEF TypeInv
  <1>7. CountsOK'
    BY <1>3, TypeParts, Counted DEF TypeInv, CountsOK
  <1>8. (RowsOK /\ BansOK /\ TrackedOK /\ BanningOK /\ TaskOK)' /\ \A t \in Task : HasWork(t)'
    BY <1>3, TypeParts DEF TypeInv, RowsOK, BansOK, TrackedOK, BanningOK, TaskOK, HasWork
  <1>9. TypeOK'
    BY <1>4, <1>7, <1>8, TypeParts
  <1>10. QED
    BY <1>6, <1>8, <1>9 DEF TypeInv

\* What the steps of a request in progress leave alone.
LEMMA RequestFrame ==
  ASSUME TypeInv, NEW w \in Worker,
         \/ CheckBan(w) \/ CheckFails(w) \/ Track(w) \/ TrackingFails(w) \/ Finish(w)
  PROVE  /\ req[w] # None
         /\ UNCHANGED <<now, located, bans, banning, task, arrivals, edits, runs>>
         /\ BanningOK' /\ TaskOK' /\ CountsOK' /\ (\A t \in Task : HasWork(t)')
  <1>1. /\ req[w] # None
        /\ UNCHANGED <<now, located, bans, banning, task, arrivals, edits, runs>>
        /\ UNCHANGED faults \/ Fault
    <2>1. CASE CheckBan(w) \/ CheckFails(w)
      BY <2>1 DEF CheckBan, CheckFails, tables, counters
    <2>2. CASE GetIp(w) \/ CreateIp(w) \/ GetPrint(w)
      BY <2>2 DEF GetIp, CreateIp, GetPrint, AtStage, tables, counters
    <2>3. CASE CreatePrint(w) \/ Insert(w)
      BY <2>3 DEF CreatePrint, Insert, AtStage, tables, counters
    <2>4. CASE TrackingFails(w) \/ Finish(w)
      BY <2>4 DEF TrackingFails, Finish, AtStage, tables, counters
    <2>5. QED
      BY <2>1, <2>2, <2>3, <2>4 DEF Track
  <1>2. CountsOK'
    BY <1>1, TypeParts, Counted DEF TypeInv, CountsOK
  <1>3. QED
    BY <1>1, <1>2, TypeParts DEF TypeInv, BanningOK, TaskOK, HasWork

LEMMA RequestTypeInv ==
  ASSUME TypeInv, NEW w \in Worker,
         \/ CheckBan(w) \/ CheckFails(w) \/ Track(w) \/ TrackingFails(w) \/ Finish(w)
  PROVE  TypeInv'
  <1> DEFINE TablesStay == UNCHANGED <<rows, prints, tracked>>
  <1> SUFFICES RowsOK' /\ BansOK' /\ TrackedOK' /\ ReqOK' /\ \A v \in Worker : HoldsRows(v)'
    BY RequestFrame, TypeParts DEF TypeInv
  <1>a. /\ req[w] # None /\ req[w] \in ReqType
        /\ UNCHANGED <<now, located, bans, banning, task, arrivals, edits, runs>>
        /\ RowsOK /\ BansOK /\ TrackedOK /\ ReqOK /\ IpOf(w) \in Ip
        /\ TablesStay => RowsOK' /\ BansOK' /\ TrackedOK'
    BY RequestFrame, TypeParts DEF TypeInv, ReqOK, HoldsRows, RowsOK, BansOK, TrackedOK
  <1>b. PrintOf(w) \in Hash
    <2> DEFINE r == req[w].request
    <2>1. r \in RequestType
      BY <1>a DEF ReqType
    <2>2. GenerateFingerprint(r) \in Hash
      <3>1. GetRequestHeaders(r) \in Headers
        BY <2>1 DEF GetRequestHeaders, RequestType, Headers
      <3> QED BY <3>1, RequestAssumption DEF GenerateFingerprint
    <2> QED BY <2>2 DEF PrintOf, GetRequestFingerprintData
  <1>c. ASSUME req' = [req EXCEPT ![w] = None], rows' = rows, prints' = prints
        PROVE  ReqOK' /\ \A v \in Worker : HoldsRows(v)'
    <2>1. ReqOK' /\ req'[w] = None /\ \A v \in Worker : v # w => req'[v] = req[v]
      BY <1>a, <1>c, EndFacts
    <2>2. QED
      BY <1>c, <2>1, OthersHold DEF TypeInv, HoldsRows
  <1>1. CASE CheckBan(w)
    <2>1. TablesStay
      BY <1>1 DEF CheckBan, tables
    <2>2. CASE req' = [req EXCEPT ![w] = None]
      BY <1>a, <1>c, <2>1, <2>2
    <2>3. CASE Goto(w, AfterCheck[req[w].at])
      <3>1. AfterCheck[req[w].at] \in {"check print", "check agent", "get ip"}
        BY <1>1, AfterCheckFacts DEF CheckBan
      <3>2. ReqOK' /\ \A v \in Worker : HoldsRows(v)'
        BY <1>a, <2>1, <2>3, <3>1, GotoHolds DEF Stage
      <3>3. QED
        BY <1>a, <2>1, <3>2
    <2>4. QED
      BY <1>1, <2>2, <2>3 DEF CheckBan
  <1>2. CASE CheckFails(w)
    <2>1. TablesStay
      BY <1>2 DEF CheckFails, tables
    <2> DEFINE at == AfterCheck[req[w].at]
               new == [req[w] EXCEPT !.at = at, !.excused = TRUE]
    <2>2. at \in {"check print", "check agent", "get ip"}
      BY <1>2, AfterCheckFacts DEF CheckFails
    <2>3. req' = [req EXCEPT ![w] = new]
      BY <1>2 DEF CheckFails
    <2> HIDE DEF at
    <2>4. new \in ReqType /\ new.request = req[w].request /\ new.at = at
      BY <1>a, <2>2 DEF ReqType, Stage
    <2> HIDE DEF new
    <2>5. ReqOK' /\ req'[w] = new /\ \A v \in Worker : v # w => req'[v] = req[v]
      BY <1>a, <2>3, <2>4 DEF ReqOK
    <2>6. HoldsRows(w)'
      BY <1>a, <2>2, <2>4, <2>5 DEF HoldsRows, IpOf
    <2>7. \A v \in Worker : HoldsRows(v)'
      BY <2>1, <2>5, <2>6, OthersHold DEF TypeInv
    <2>8. QED
      BY <1>a, <2>1, <2>5, <2>7
  <1>3. CASE GetIp(w)
    <2>1. TablesStay
      BY <1>3 DEF GetIp, tables
    <2>2. ReqOK' /\ \A v \in Worker : HoldsRows(v)'
      BY <1>3, <1>a, <2>1, GotoHolds DEF GetIp, Stage
    <2>3. QED
      BY <1>a, <2>1, <2>2
  <1>4. CASE CreateIp(w)
    <2>1. /\ rows' \in Seq(Ip) /\ IsInjective(rows')
          /\ Range(rows') = Range(rows) \cup {IpOf(w)}
      <3>1. CASE IpOf(w) \in Range(rows)
        BY <1>4, <1>a, <3>1 DEF CreateIp, RowsOK
      <3>2. CASE IpOf(w) \notin Range(rows)
        <4>1. rows' = <<IpOf(w)>> \o rows
          BY <1>4, <3>2 DEF CreateIp
        <4>2. QED
          BY <1>a, <3>2, <4>1, ConsFacts DEF RowsOK
      <3>3. QED
        BY <3>1, <3>2
    <2>2. Goto(w, "get print") /\ UNCHANGED <<prints, bans, tracked>>
      BY <1>4 DEF CreateIp
    <2>3. ReqOK' /\ \A v \in Worker : HoldsRows(v)'
      BY <1>a, <2>1, <2>2, GotoHolds DEF Stage
    <2>4. RowsOK' /\ BansOK' /\ TrackedOK'
      BY <1>a, <2>1, <2>2 DEF RowsOK, BansOK, TrackedOK
    <2>5. QED
      BY <2>3, <2>4
  <1>5. CASE GetPrint(w)
    <2>1. TablesStay /\ AtStage(w, "get print")
      BY <1>5 DEF GetPrint, tables
    <2>2. ~ req[w].lost => IpOf(w) \in Range(rows)
      BY <2>1 DEF AtStage, TypeInv, HoldsRows
    <2>3. ReqOK' /\ \A v \in Worker : HoldsRows(v)'
      BY <1>5, <1>a, <2>1, <2>2, GotoHolds DEF GetPrint, Stage
    <2>4. QED
      BY <1>a, <2>1, <2>3
  <1>6. CASE CreatePrint(w)
    <2>1. ~ req[w].lost => IpOf(w) \in Range(rows)
      BY <1>6 DEF CreatePrint, AtStage, TypeInv, HoldsRows
    <2>2. /\ Goto(w, "insert") /\ prints' = prints \cup {PrintOf(w)}
          /\ UNCHANGED <<rows, bans, tracked>>
      BY <1>6 DEF CreatePrint
    <2>3. ReqOK' /\ \A v \in Worker : HoldsRows(v)'
      BY <1>a, <2>1, <2>2, GotoHolds DEF Stage
    <2>4. RowsOK' /\ BansOK' /\ TrackedOK'
      BY <1>a, <1>b, <2>2 DEF RowsOK, BansOK, TrackedOK
    <2>5. QED
      BY <2>3, <2>4
  <1>7. CASE Insert(w)
    <2>1. UNCHANGED <<rows, prints>> /\ AtStage(w, "insert")
      BY <1>7 DEF Insert
    <2>2. CASE req[w].lost
      <3>1. Goto(w, "failed") /\ TablesStay
        BY <1>7, <2>1, <2>2 DEF Insert
      <3>2. ReqOK' /\ \A v \in Worker : HoldsRows(v)'
        BY <1>a, <3>1, GotoHolds DEF Stage
      <3>3. QED
        BY <1>a, <3>1, <3>2
    <2>3. CASE ~ req[w].lost
      <3> DEFINE new == [ip |-> IpOf(w), print |-> PrintOf(w),
                         suspicious |-> IsSuspicious(req[w].request)]
      <3>1. req' = [req EXCEPT ![w] = None] /\ tracked' = tracked \cup {new}
        BY <1>7, <2>3 DEF Insert
      <3>2. IpOf(w) \in Range(rows) /\ PrintOf(w) \in prints
        BY <1>a, <2>1, <2>3 DEF AtStage, TypeInv, HoldsRows
      <3>3. IsSuspicious(req[w].request) \in BOOLEAN
        BY DEF IsSuspicious
      <3>4. TrackedOK'
        BY <1>a, <1>b, <2>1, <3>1, <3>2, <3>3 DEF TrackedOK, Tracked
      <3>5. QED
        BY <1>a, <1>c, <2>1, <3>1, <3>4 DEF RowsOK, BansOK
    <2>4. QED
      BY <2>2, <2>3
  <1>8. CASE TrackingFails(w)
    <2>1. TablesStay /\ Goto(w, "failed")
      BY <1>8 DEF TrackingFails, tables
    <2>2. ReqOK' /\ \A v \in Worker : HoldsRows(v)'
      BY <1>a, <2>1, GotoHolds DEF Stage
    <2>3. QED
      BY <1>a, <2>1, <2>2
  <1>9. CASE Finish(w)
    <2>1. TablesStay /\ req' = [req EXCEPT ![w] = None]
      BY <1>9 DEF Finish, tables
    <2>2. QED
      BY <1>a, <1>c, <2>1
  <1>10. QED
    BY <1>1, <1>2, <1>3, <1>4, <1>5, <1>6, <1>7, <1>8, <1>9 DEF Track

\* Requests keep their rows when bans stop holding.
LEMMA StillHolds ==
  ASSUME TypeInv, NEW bs, NEW time, req' = StillAgainst(bs, time), UNCHANGED <<rows, prints>>
  PROVE  ReqOK' /\ \A w \in Worker : HoldsRows(w)'
  <1>1. /\ ReqOK'
        /\ \A w \in Worker : req[w] = None => req'[w] = None
        /\ \A w \in Worker : req[w] # None =>
              /\ req'[w].request = req[w].request /\ req'[w].at = req[w].at
              /\ req'[w].lost = req[w].lost
    BY StillAgainstFacts, TypeParts DEF TypeInv
  <1>2. QED
    BY <1>1 DEF TypeInv, HoldsRows, IpOf, PrintOf

\* A row goes, and with it what refers to it; requests that hold it have lost it.
LEMMA CascadeFacts ==
  ASSUME TypeInv, NEW t, Cascade(t),
         Range(rows) \ {t} \subseteq Range(rows'), prints \ {t} \subseteq prints'
  PROVE  /\ ReqOK' /\ BansOK' /\ TrackedOK' /\ \A w \in Worker : HoldsRows(w)'
         /\ \A w \in Worker : req[w] = None => req'[w] = None
         /\ \A w \in Worker : req[w] # None =>
               /\ req'[w].request = req[w].request /\ req'[w].at = req[w].at
               /\ req'[w].excused = req[w].excused
               /\ req'[w].against = req[w].against \cap BannedTargets(bans', now)
  <1> USE TypeParts DEF TypeInv
  <1>1. BansOK'
    <2>1. /\ bans' \in [BanId -> Ban \cup {None}]
          /\ \A b \in BanId : bans'[b] # None => bans'[b] = bans[b] /\ t \notin bans[b].on
      BY DEF Cascade, BansOK, BansOf
    <2>2. QED
      BY <2>1 DEF BansOK
  <1>2. TrackedOK'
    BY DEF Cascade, TrackedOK
  <1>3. ASSUME NEW w \in Worker, req[w] # None
        PROVE  /\ req'[w] \in ReqType
               /\ req'[w].request = req[w].request /\ req'[w].at = req[w].at
               /\ req'[w].lost = (req[w].lost \/ t \in HeldRows(w))
               /\ req'[w].excused = req[w].excused
               /\ req'[w].against = req[w].against \cap BannedTargets(bans', now)
    <2>1. req[w] \in ReqType
      BY <1>3 DEF ReqOK
    <2>2. StillAgainst(bans', now)[w] =
             [req[w] EXCEPT !.against = req[w].against \cap BannedTargets(bans', now)]
      BY <1>3 DEF StillAgainst
    <2>3. req'[w] = [StillAgainst(bans', now)[w] EXCEPT
                        !.lost = StillAgainst(bans', now)[w].lost \/ t \in HeldRows(w)]
      BY <1>3 DEF Cascade
    <2>4. QED
      BY <2>1, <2>2, <2>3 DEF ReqType
  <1>4. ASSUME NEW w \in Worker, req[w] = None PROVE req'[w] = None
    BY <1>4 DEF Cascade
  <1>5. ReqOK'
    <2>1. req' = [w \in Worker |-> req'[w]]
      BY DEF Cascade
    <2>2. QED
      BY <1>3, <1>4, <2>1 DEF ReqOK
  <1>6. ASSUME NEW w \in Worker PROVE HoldsRows(w)'
    <2>1. CASE req[w] = None
      BY <1>4, <2>1 DEF HoldsRows
    <2>2. CASE req[w] # None
      <3>1. IpOf(w)' = IpOf(w) /\ PrintOf(w)' = PrintOf(w)
        BY <1>3, <2>2 DEF IpOf, PrintOf
      <3>2. HoldsRows(w)
        OBVIOUS
      <3>3. ASSUME ~ req'[w].lost
            PROVE  ~ req[w].lost /\ t \notin HeldRows(w)
        BY <1>3, <2>2, <3>3
      <3>4. req[w].at \in {"get print", "create print"} => HeldRows(w) = {IpOf(w)}
        BY DEF HeldRows
      <3>5. req[w].at = "insert" => HeldRows(w) = {IpOf(w), PrintOf(w)}
        BY DEF HeldRows
      <3>6. QED
        BY <1>3, <2>2, <3>1, <3>2, <3>3, <3>4, <3>5 DEF HoldsRows
    <2>3. QED
      BY <2>1, <2>2
  <1>7. QED
    BY <1>1, <1>2, <1>3, <1>4, <1>5, <1>6

\* A ban is put at a free key.
LEMMA NewBan ==
  ASSUME BansOK, NEW b \in BanId, NEW ban \in Ban,
         ban.on \subseteq Range(rows) \cup prints \cup Pattern,
         bans' = [bans EXCEPT ![b] = ban], UNCHANGED <<rows, prints>>
  PROVE  BansOK'
  BY DEF BansOK

LEMMA AdminTypeInv ==
  ASSUME TypeInv, Tick \/ Administer
  PROVE  TypeInv'
  <1> USE TypeParts DEF TypeInv
  <1>a. (\A w \in Worker : HoldsRows(w)) /\ \A t \in Task : HasWork(t)
    OBVIOUS
  <1>b. ASSUME UNCHANGED <<rows, located, prints>> PROVE RowsOK'
    BY <1>b DEF RowsOK
  <1>c. ASSUME UNCHANGED <<rows, prints, tracked>> PROVE TrackedOK'
    BY <1>c DEF TrackedOK
  <1>d. ASSUME UNCHANGED <<rows, prints, req>> PROVE ReqOK' /\ \A w \in Worker : HoldsRows(w)'
    BY <1>a, <1>d DEF ReqOK, HoldsRows, IpOf, PrintOf
  <1>e. ASSUME UNCHANGED <<now, arrivals, runs, faults>>, Edit \/ edits' = edits PROVE CountsOK'
    BY <1>e, Counted DEF CountsOK
  <1>f. ASSUME UNCHANGED task PROVE TaskOK' /\ \A t \in Task : HasWork(t)'
    BY <1>a, <1>f DEF TaskOK, HasWork
  <1>g. ASSUME UNCHANGED banning PROVE BanningOK'
    BY <1>g DEF BanningOK
  <1>h. ASSUME UNCHANGED <<rows, prints, bans>> PROVE BansOK'
    BY <1>h DEF BansOK
  <1>i. now \in Nat /\ now \in 0..MaxTime /\ Never \in Nat /\ \A e \in now..Never : e \in 0..Never
    BY Bounds DEF CountsOK, Never
  <1> HIDE DEF TypeInv
  <1>1. CASE Tick
    <2>1. /\ now < MaxTime /\ now' = now + 1 /\ req' = StillAgainst(bans, now')
          /\ UNCHANGED <<rows, located, prints, bans, tracked, banning, task,
                         arrivals, edits, runs, faults>>
      BY <1>1 DEF Tick, tables, counters
    <2>2. ReqOK' /\ \A w \in Worker : HoldsRows(w)'
      BY <2>1, StillHolds
    <2>3. CountsOK'
      BY <2>1, Counted DEF CountsOK, TypeInv
    <2>4. QED
      BY <1>b, <1>c, <1>f, <1>g, <1>h, <2>1, <2>2, <2>3 DEF TypeInv
  <1>2. ASSUME NEW b \in BanId, NEW ban \in Ban, AddBan(b, ban)
        PROVE  TypeInv'
    <2>1. /\ ban.on \subseteq Range(rows) \cup prints \cup Pattern
          /\ bans' = [bans EXCEPT ![b] = ban] /\ Edit
          /\ UNCHANGED <<now, rows, located, prints, tracked, req, banning, task, arrivals, runs, faults>>
      BY <1>2 DEF AddBan, IsFilledIn
    <2>2. BansOK'
      BY <2>1, NewBan DEF TypeInv
    <2>3. QED
      BY <1>b, <1>c, <1>d, <1>e, <1>f, <1>g, <2>1, <2>2 DEF TypeInv
  <1>3. ASSUME NEW b \in BanId, NEW ban \in Ban, EditBan(b, ban)
        PROVE  TypeInv'
    <2>1. /\ ban.on \subseteq Range(rows) \cup prints \cup Pattern
          /\ bans' = [bans EXCEPT ![b] = ban]
          /\ req' = StillAgainst(bans', now) /\ Edit
          /\ UNCHANGED <<now, rows, located, prints, tracked, banning, task, arrivals, runs, faults>>
      BY <1>3 DEF EditBan, IsFilledIn
    <2>2. BansOK'
      BY <2>1, NewBan DEF TypeInv
    <2>3. ReqOK' /\ \A w \in Worker : HoldsRows(w)'
      BY <2>1, StillHolds
    <2>4. QED
      BY <1>b, <1>c, <1>e, <1>f, <1>g, <2>1, <2>2, <2>3 DEF TypeInv
  <1>j. ASSUME NEW selected \in SUBSET BanId, NEW active \in BOOLEAN,
               ActivateBans(selected, active)
        PROVE  TypeInv'
    <2>1. /\ \A b \in selected : bans[b] # None
          /\ bans' = [b \in BanId |->
                        IF b \in selected
                          THEN [on |-> bans[b].on, active |-> active, expires |-> bans[b].expires]
                          ELSE bans[b]]
          /\ req' = StillAgainst(bans', now) /\ Edit
          /\ UNCHANGED <<now, rows, located, prints, tracked, banning, task, arrivals, runs, faults>>
      BY <1>j DEF ActivateBans
    <2>2. ASSUME NEW b \in BanId
          PROVE  /\ bans'[b] \in Ban \cup {None}
                 /\ bans'[b] # None => bans[b] # None /\ bans'[b].on = bans[b].on
      <3>1. CASE b \in selected
        <4>1. bans[b] \in Ban
          BY <2>1, <3>1 DEF BansOK, TypeInv
        <4>2. bans'[b] = [on |-> bans[b].on, active |-> active, expires |-> bans[b].expires]
          BY <2>1, <3>1
        <4>3. QED
          BY <2>1, <3>1, <4>1, <4>2 DEF Ban
      <3>2. CASE b \notin selected
        BY <2>1, <3>2 DEF BansOK, TypeInv
      <3>3. QED
        BY <3>1, <3>2
    <2>3. bans' = [b \in BanId |-> bans'[b]]
      BY <2>1
    <2>4. BansOK'
      BY <2>1, <2>2, <2>3 DEF BansOK, TypeInv
    <2>5. ReqOK' /\ \A w \in Worker : HoldsRows(w)'
      BY <2>1, StillHolds
    <2>6. QED
      BY <1>b, <1>c, <1>e, <1>f, <1>g, <2>1, <2>4, <2>5 DEF TypeInv
  <1>4. ASSUME NEW b \in BanId, DeleteBan(b)
        PROVE  TypeInv'
    <2>1. /\ bans' = [bans EXCEPT ![b] = None]
          /\ req' = StillAgainst(bans', now) /\ Edit
          /\ UNCHANGED <<now, rows, located, prints, tracked, banning, task, arrivals, runs, faults>>
      BY <1>4 DEF DeleteBan
    <2>2. BansOK'
      BY <2>1 DEF BansOK, TypeInv
    <2>3. ReqOK' /\ \A w \in Worker : HoldsRows(w)'
      BY <2>1, StillHolds
    <2>4. QED
      BY <1>b, <1>c, <1>e, <1>f, <1>g, <2>1, <2>2, <2>3 DEF TypeInv
  <1>5. ASSUME NEW ip \in Ip, DeleteIp(ip)
        PROVE  TypeInv'
    <2>1. PICK i \in DOMAIN rows : rows[i] = ip /\ rows' = RemoveAt(rows, i)
      BY <1>5 DEF DeleteIp
    <2>2. /\ rows' \in Seq(Ip) /\ IsInjective(rows') /\ Range(rows') = Range(rows) \ {ip}
      BY <2>1, RemoveAtFacts DEF RowsOK, TypeInv
    <2>3. /\ located' = located \ {ip} /\ Cascade(ip) /\ Edit
          /\ UNCHANGED <<now, prints, banning, task, arrivals, runs, faults>>
      BY <1>5 DEF DeleteIp
    <2>4. RowsOK'
      BY <2>2, <2>3 DEF RowsOK, TypeInv
    <2>5. ReqOK' /\ BansOK' /\ TrackedOK' /\ \A w \in Worker : HoldsRows(w)'
      BY <2>2, <2>3, CascadeFacts
    <2>6. QED
      BY <1>e, <1>f, <1>g, <2>3, <2>4, <2>5 DEF TypeInv
  <1>6. ASSUME NEW p \in Hash, DeletePrint(p)
        PROVE  TypeInv'
    <2>1. /\ prints' = prints \ {p} /\ Cascade(p) /\ Edit
          /\ UNCHANGED <<now, rows, located, banning, task, arrivals, runs, faults>>
      BY <1>6 DEF DeletePrint
    <2>2. RowsOK'
      BY <2>1 DEF RowsOK, TypeInv
    <2>3. ReqOK' /\ BansOK' /\ TrackedOK' /\ \A w \in Worker : HoldsRows(w)'
      BY <2>1, CascadeFacts
    <2>4. QED
      BY <1>e, <1>f, <1>g, <2>1, <2>2, <2>3 DEF TypeInv
  <1>7. ASSUME NEW a \in Admin, NEW todo \in (SUBSET Ip) \cup (SUBSET Hash), BeginBanning(a, todo)
        PROVE  TypeInv'
    <2>1. /\ banning' = [banning EXCEPT ![a] = [todo |-> todo, next |-> None]] /\ Edit
          /\ UNCHANGED <<now, rows, located, prints, bans, tracked, req, task, arrivals, runs, faults>>
      BY <1>7 DEF BeginBanning, tables
    <2>2. BanningOK'
      <3>1. todo \in SUBSET (Ip \cup Hash)
        <4>1. todo \subseteq Ip \/ todo \subseteq Hash
          BY <1>7
        <4>2. \A x \in todo : x \in Ip \cup Hash
          BY <4>1
        <4>3. QED
          BY <4>2
      <3>2. [todo |-> todo, next |-> None] \in [todo : SUBSET (Ip \cup Hash), next : Ip \cup Hash \cup {None}]
        BY <3>1
      <3>3. QED
        BY <2>1, <3>2 DEF BanningOK, TypeInv
    <2>3. QED
      BY <1>b, <1>c, <1>d, <1>e, <1>f, <1>h, <2>1, <2>2 DEF TypeInv
  <1>8. ASSUME NEW a \in Admin, banning[a] # None, NEW t \in Target
        PROVE  Remaining(a, t) \in {None} \cup [todo : SUBSET (Ip \cup Hash), next : Ip \cup Hash \cup {None}]
    BY <1>8 DEF Remaining, BanningOK, TypeInv
  <1>9. ASSUME NEW a \in Admin, NEW t \in Target, LookForBan(a, t)
        PROVE  TypeInv'
    <2>1. /\ banning[a] # None /\ t \in banning[a].todo
          /\ \/ banning' = [banning EXCEPT ![a] = Remaining(a, t)]
             \/ banning' = [banning EXCEPT ![a] = [banning[a] EXCEPT !.next = t]]
          /\ UNCHANGED <<now, rows, located, prints, bans, tracked, req, task,
                         arrivals, edits, runs, faults>>
      BY <1>9 DEF LookForBan, tables, counters
    <2>2. banning[a] \in [todo : SUBSET (Ip \cup Hash), next : Ip \cup Hash \cup {None}]
      BY <2>1 DEF BanningOK, TypeInv
    <2>3. [banning[a] EXCEPT !.next = t] \in [todo : SUBSET (Ip \cup Hash), next : Ip \cup Hash \cup {None}]
      BY <2>1, <2>2
    <2>4. BanningOK'
      BY <1>8, <2>1, <2>3 DEF BanningOK, TypeInv
    <2>5. QED
      BY <1>b, <1>c, <1>d, <1>e, <1>f, <1>h, <2>1, <2>4 DEF TypeInv
  <1>10. ASSUME NEW a \in Admin, NEW b \in BanId, CreateBan(a, b)
         PROVE  TypeInv'
    <2> DEFINE t == banning[a].next
               ban == [on |-> {t}, active |-> TRUE, expires |-> Never]
    <2>1. /\ banning[a] # None /\ t # None
          /\ UNCHANGED <<now, rows, located, prints, tracked, req, task,
                         arrivals, edits, runs, faults>>
      BY <1>10 DEF CreateBan, counters
    <2>2. t \in Target
      BY <2>1 DEF BanningOK, Target, TypeInv
    <2>3. BansOK' /\ BanningOK'
      <3>1. CASE t \in Range(rows) \cup prints
        <4>1. bans' = [bans EXCEPT ![b] = ban] /\ banning' = [banning EXCEPT ![a] = Remaining(a, t)]
          BY <1>10, <3>1 DEF CreateBan
        <4>2. ban \in Ban /\ ban.on = {t}
          <5>1. {t} \in Targets
            BY <2>2 DEF Targets
          <5> QED BY <1>i, <5>1 DEF Ban
        <4> HIDE DEF ban
        <4>3. BansOK'
          BY <2>1, <3>1, <4>1, <4>2, NewBan DEF TypeInv
        <4>4. BanningOK'
          BY <1>8, <2>1, <2>2, <4>1 DEF BanningOK, TypeInv
        <4>5. QED
          BY <4>3, <4>4
      <3>2. CASE t \notin Range(rows) \cup prints
        <4>1. bans' = bans /\ banning' = [banning EXCEPT ![a] = None]
          BY <1>10, <3>2 DEF CreateBan
        <4>2. QED
          BY <1>h, <2>1, <4>1 DEF BanningOK, TypeInv
      <3>3. QED
        BY <3>1, <3>2
    <2>4. QED
      BY <1>b, <1>c, <1>d, <1>e, <1>f, <2>1, <2>3 DEF TypeInv
  <1>11. QED
    BY <1>1, <1>2, <1>3, <1>j, <1>4, <1>5, <1>6, <1>7, <1>9, <1>10 DEF Administer, SmallBan

\* What is left of a sequence, and what it becomes with more at its end.
LEMMA GrowAndShrink ==
  ASSUME NEW S, NEW s \in Seq(S)
  PROVE  /\ s # <<>> /\ Len(s) # 1 => Tail(s) \in Seq(S) /\ Tail(s) # <<>>
         /\ \A r \in Seq(S) : Len(r) \in Nat \ {0} => s \o r \in Seq(S) /\ s \o r # <<>>
  <1>1. ASSUME s # <<>>, Len(s) # 1 PROVE Tail(s) \in Seq(S) /\ Tail(s) # <<>>
    <2>1. Tail(s) \in Seq(S) /\ Len(Tail(s)) = Len(s) - 1 /\ Len(s) \in Nat
      BY <1>1
    <2>2. Len(Tail(s)) # 0
      BY <1>1, <2>1
    <2>3. QED
      BY <2>1, <2>2
  <1>2. ASSUME NEW r \in Seq(S), Len(r) \in Nat \ {0} PROVE s \o r \in Seq(S) /\ s \o r # <<>>
    <2>1. s \o r \in Seq(S) /\ Len(s \o r) = Len(s) + Len(r) /\ Len(s) \in Nat
      OBVIOUS
    <2>2. Len(s \o r) # 0
      BY <1>2, <2>1
    <2>3. QED
      BY <2>1, <2>2
  <1>3. QED
    BY <1>1, <1>2

LEMMA GeolocateTypeInv ==
  ASSUME TypeInv, NEW t \in Task, Geolocate(t)
  PROVE  TypeInv'
  <1> DEFINE Result == [ip : Ip, found : BOOLEAN]
             Run == [todo : Seq(Ip), results : Seq(Result)]
  <1>a. RowsOK /\ TaskOK /\ CountsOK /\ \A u \in Task : HasWork(u)
    BY TypeParts DEF TypeInv
  <1>b. SUFFICES RowsOK' /\ CountsOK' /\ TaskOK' /\ \A u \in Task : HasWork(u)'
    <2>1. UNCHANGED <<rows, prints, bans, tracked, req, banning>>
      BY DEF Geolocate, GeolocateMissingIps, GeolocateBatch, UpdateGeoData, GeolocationFails,
             tables, counters
    <2>2. BansOK' /\ TrackedOK' /\ ReqOK' /\ BanningOK'
      BY <2>1, TypeParts DEF TypeInv, BansOK, TrackedOK, ReqOK, BanningOK
    <2>3. \A w \in Worker : HoldsRows(w)'
      BY <2>1 DEF TypeInv, HoldsRows, IpOf, PrintOf
    <2>4. QED
      BY <1>b, <2>2, <2>3, TypeParts DEF TypeInv
  <1>c. ASSUME UNCHANGED <<rows, located, prints>> PROVE RowsOK'
    BY <1>a, <1>c DEF RowsOK
  \* The run becomes one that has work, or ends.
  <1>d. ASSUME NEW run, run \in Run, run.todo # <<>> \/ run.results # <<>>,
               task' = [task EXCEPT ![t] = run]
        PROVE  TaskOK' /\ \A u \in Task : HasWork(u)'
    BY <1>a, <1>d DEF TaskOK, HasWork
  <1>e. ASSUME task' = [task EXCEPT ![t] = None]
        PROVE  TaskOK' /\ \A u \in Task : HasWork(u)'
    BY <1>a, <1>e DEF TaskOK, HasWork
  <1>1. CASE GeolocateMissingIps(t)
    <2> DEFINE run == [todo |-> First(Most, Missing), results |-> <<>>]
    <2>1. /\ Missing # <<>> /\ runs < MaxRuns /\ runs' = runs + 1
          /\ task' = [task EXCEPT ![t] = run]
          /\ UNCHANGED <<now, rows, located, prints, arrivals, edits, faults>>
      BY <1>1 DEF GeolocateMissingIps, tables
    <2>2. Missing \in Seq(Ip)
      BY <1>a, MissingType DEF RowsOK
    <2>3. First(Most, Missing) \in Seq(Ip) /\ First(Most, Missing) # <<>>
      BY <2>1, <2>2, FirstFacts, Bounds
    <2>4. run \in Run /\ run.todo # <<>>
      BY <2>3
    <2> HIDE DEF run
    <2>5. CountsOK'
      BY <1>a, <2>1, Counted DEF CountsOK
    <2>6. QED
      BY <1>c, <1>d, <2>1, <2>4, <2>5
  <1>2. ASSUME NEW found \in SUBSET Ip, GeolocateBatch(t, found)
        PROVE  RowsOK' /\ CountsOK' /\ TaskOK' /\ \A u \in Task : HasWork(u)'
    <2> DEFINE batch == First(Batch, task[t].todo)
               answers == [i \in DOMAIN batch |-> [ip |-> batch[i], found |-> batch[i] \in found]]
               todo == SubSeq(task[t].todo, Len(batch) + 1, Len(task[t].todo))
               run == [task[t] EXCEPT !.todo = todo, !.results = task[t].results \o answers]
    <2>1. /\ task[t] # None /\ task[t].todo # <<>>
          /\ task' = [task EXCEPT ![t] = run]
          /\ UNCHANGED <<now, rows, located, prints, arrivals, edits, runs, faults>>
      BY <1>2 DEF GeolocateBatch, tables, counters
    <2>2. task[t] \in Run
      BY <1>a, <2>1 DEF TaskOK
    <2>3. /\ batch \in Seq(Ip) /\ Len(batch) \in Nat \ {0} /\ todo \in Seq(Ip)
          /\ DOMAIN batch = 1..Len(batch)
      <3> DEFINE s == task[t].todo
      <3>1. s \in Seq(Ip) /\ s # <<>> /\ Batch \in Nat \ {0}
        BY <2>1, <2>2, Bounds
      <3>2. Len(s) \in Nat /\ \A n \in 1..Len(s) : n \in Nat \ {0}
        BY <3>1
      <3> HIDE DEF s
      <3>3. /\ First(Batch, s) \in Seq(Ip) /\ Len(First(Batch, s)) \in 1..Len(s)
            /\ SubSeq(s, Len(First(Batch, s)) + 1, Len(s)) \in Seq(Ip)
            /\ DOMAIN First(Batch, s) = 1..Len(First(Batch, s))
        BY <3>1, FirstFacts
      <3>4. QED
        BY <3>2, <3>3 DEF s
    <2> HIDE DEF batch, todo
    <2>4. answers \in Seq(Result) /\ Len(answers) = Len(batch)
      BY <2>3
    <2> HIDE DEF answers
    <2>5. task[t].results \o answers \in Seq(Result) /\ task[t].results \o answers # <<>>
      BY <2>2, <2>3, <2>4, GrowAndShrink
    <2>6. run \in Run /\ run.results # <<>>
      BY <2>2, <2>3, <2>5
    <2> HIDE DEF run
    <2>7. QED
      BY <1>a, <1>c, <1>d, <2>1, <2>6 DEF CountsOK
  <1>3. CASE UpdateGeoData(t)
    <2> DEFINE results == task[t].results
               run == [task[t] EXCEPT !.results = Tail(results)]
    <2>1. /\ task[t] # None /\ task[t].todo = <<>>
          /\ located' = Store(Head(results))
          /\ \/ Len(results) = 1 /\ task' = [task EXCEPT ![t] = None]
             \/ Len(results) # 1 /\ task' = [task EXCEPT ![t] = run]
          /\ UNCHANGED <<now, rows, prints, arrivals, edits, runs, faults>>
      BY <1>3 DEF UpdateGeoData, counters
    <2>2. task[t] \in Run /\ results # <<>>
      BY <1>a, <2>1 DEF TaskOK, HasWork
    <2>3. RowsOK'
      BY <1>a, <2>1 DEF RowsOK, Store
    <2>4. CountsOK'
      BY <1>a, <2>1 DEF CountsOK
    <2>5. Len(results) # 1 => run \in Run /\ run.results # <<>>
      <3>1. results \in Seq(Result)
        BY <2>2
      <3>2. Len(results) # 1 => Tail(results) \in Seq(Result) /\ Tail(results) # <<>>
        BY <2>2, <3>1, GrowAndShrink
      <3>3. QED
        BY <2>2, <3>2
    <2> HIDE DEF run
    <2>6. QED
      BY <1>d, <1>e, <2>1, <2>3, <2>4, <2>5
  <1>4. CASE GeolocationFails(t)
    <2>1. /\ Fault /\ task' = [task EXCEPT ![t] = None]
          /\ UNCHANGED <<now, rows, located, prints, arrivals, edits, runs>>
      BY <1>4 DEF GeolocationFails, tables
    <2>2. CountsOK'
      BY <1>a, <2>1, Counted DEF CountsOK
    <2>3. QED
      BY <1>c, <1>e, <2>1, <2>2
  <1>5. QED
    BY <1>1, <1>2, <1>3, <1>4 DEF Geolocate

LEMMA InitTypeInv == Init => TypeInv
  <1> SUFFICES ASSUME Init PROVE TypeInv
    OBVIOUS
  <1>1. RowsOK /\ TrackedOK
    BY DEF Init, RowsOK, TrackedOK, IsInjective
  <1>2. BansOK /\ ReqOK /\ BanningOK /\ TaskOK
    BY DEF Init, BansOK, ReqOK, BanningOK, TaskOK
  <1>3. CountsOK
    BY Bounds DEF Init, CountsOK
  <1>4. (\A w \in Worker : HoldsRows(w)) /\ \A t \in Task : HasWork(t)
    BY DEF Init, HoldsRows, HasWork
  <1>5. QED
    BY <1>1, <1>2, <1>3, <1>4, TypeParts DEF TypeInv

LEMMA NextTypeInv == TypeInv /\ [Next]_vars => TypeInv'
  <1> SUFFICES ASSUME TypeInv, [Next]_vars PROVE TypeInv'
    OBVIOUS
  <1>1. CASE UNCHANGED vars
    BY <1>1 DEF vars, tables, counters, TypeInv, TypeOK, HoldsRows, HasWork, IpOf, PrintOf
  <1>2. ASSUME NEW w \in Worker, ProcessRequest(w) PROVE TypeInv'
    BY <1>2, ArriveTypeInv, RequestTypeInv DEF ProcessRequest
  <1>3. QED
    BY <1>1, <1>2, AdminTypeInv, GeolocateTypeInv DEF Next

\* Every variable has its type, no address has two rows, and what a TrackedRequest or
\* a ban refers to is there, though rows are got in one statement and referred to in
\* another while admins delete them (security.py:209-285, on_delete=CASCADE).
THEOREM TrackingTypeCorrect == Spec => []TypeOK
  <1>1. TypeInv => TypeOK
    BY DEF TypeInv
  <1>2. QED
    BY <1>1, InitTypeInv, NextTypeInv, PTL DEF Spec

-----------------------------------------------------------------------------
(* Bans.  What a request's "against" notes must be said check by check: the  *)
(* targets of bans that hold against it have not been checked yet.           *)

\* The targets that have been checked when a request is at a stage.
Passed(r, at) ==
    IF at = "check ip" THEN {}
    ELSE IF at = "check print" THEN TargetsOf(r, "check ip")
    ELSE IF at = "check agent" THEN TargetsOf(r, "check ip") \cup TargetsOf(r, "check print")
    ELSE AllTargets(r)

BansKeepOut(w) ==
    req[w] # None =>
        \A p \in req[w].against :
            /\ p \in BannedTargets(bans, now)
            /\ p[2] \in AllTargets(req[w].request)
            /\ ~ req[w].excused => p[2] \notin Passed(req[w].request, req[w].at)

\* A check that finds nothing adds its targets to those that are passed.
LEMMA CheckPasses ==
  ASSUME NEW r, NEW at \in DOMAIN AfterCheck
  PROVE  Passed(r, AfterCheck[at]) = Passed(r, at) \cup TargetsOf(r, at)
  <1>1. AllTargets(r) =
          TargetsOf(r, "check ip") \cup TargetsOf(r, "check print") \cup TargetsOf(r, "check agent")
    BY DEF AllTargets
  <1>2. CASE at = "check ip"
    BY <1>2, AfterCheckFacts DEF Passed
  <1>3. CASE at = "check print"
    BY <1>3, AfterCheckFacts DEF Passed
  <1>4. CASE at = "check agent"
    BY <1>1, <1>4, AfterCheckFacts DEF Passed
  <1>5. QED
    BY <1>2, <1>3, <1>4, AfterCheckFacts

\* A request that a step leaves as it is, or from which it takes bans that hold no
\* more, is kept out as it was.
LEMMA KeptOut ==
  ASSUME NEW w \in Worker, BansKeepOut(w),
         req[w] = None => req'[w] = None,
         req[w] # None =>
            /\ req'[w].request = req[w].request /\ req'[w].at = req[w].at
            /\ req'[w].excused = req[w].excused
            /\ req'[w].against \subseteq req[w].against \cap BannedTargets(bans', now')
  PROVE  BansKeepOut(w)'
  <1> SUFFICES ASSUME req'[w] # None, NEW p \in req'[w].against
               PROVE  /\ p \in BannedTargets(bans', now')
                      /\ p[2] \in AllTargets(req'[w].request)
                      /\ ~ req'[w].excused => p[2] \notin Passed(req'[w].request, req'[w].at)
    BY DEF BansKeepOut, AllTargets, Passed, TargetsOf
  <1>1. p \in req[w].against /\ p \in BannedTargets(bans', now') /\ req[w] # None
    OBVIOUS
  <1>2. QED
    BY <1>1 DEF BansKeepOut

LEMMA InitKeptOut == Init => \A w \in Worker : BansKeepOut(w)
  BY DEF Init, BansKeepOut

LEMMA RequestKeptOut ==
  ASSUME TypeInv, \A v \in Worker : BansKeepOut(v), NEW w \in Worker, ProcessRequest(w)
  PROVE  \A v \in Worker : BansKeepOut(v)'
  <1>a. ReqOK
    BY TypeParts DEF TypeInv
  <1>b. UNCHANGED <<now, bans>>
    <2>1. CASE \E r \in Request : Arrive(w, r)
      BY <2>1 DEF Arrive, tables
    <2>2. CASE \/ CheckBan(w) \/ CheckFails(w) \/ Track(w) \/ TrackingFails(w) \/ Finish(w)
      BY <2>2, RequestFrame
    <2>3. QED
      BY <2>1, <2>2 DEF ProcessRequest
  <1>c. BannedTargets(bans', now') = BannedTargets(bans, now)
    BY <1>b
  <1>d. ASSUME \A v \in Worker : v # w => req'[v] = req[v],
               req'[w] # None => \A p \in req'[w].against :
                  /\ p \in BannedTargets(bans, now)
                  /\ p[2] \in AllTargets(req'[w].request)
                  /\ ~ req'[w].excused => p[2] \notin Passed(req'[w].request, req'[w].at)
        PROVE  \A v \in Worker : BansKeepOut(v)'
    <2>1. ASSUME NEW v \in Worker, v # w PROVE BansKeepOut(v)'
      BY <1>b, <1>c, <1>d, <2>1 DEF BansKeepOut
    <2>2. BansKeepOut(w)'
      BY <1>b, <1>c, <1>d DEF BansKeepOut
    <2>3. QED
      BY <2>1, <2>2
  <1>1. ASSUME NEW r \in Request, Arrive(w, r)
        PROVE  \A v \in Worker : BansKeepOut(v)'
    <2> DEFINE held == {p \in BannedTargets(bans, now) : p[2] \in AllTargets(r)}
               new == [request |-> r, at |-> "check ip", lost |-> FALSE, excused |-> FALSE,
                       against |-> held]
    <2>1. /\ req'[w] = new /\ \A v \in Worker : v # w => req'[v] = req[v]
      BY <1>1, <1>a DEF Arrive, ReqOK
    <2> HIDE DEF held
    <2>n. new.request = r /\ new.at = "check ip" /\ new.against = held
      OBVIOUS
    <2> HIDE DEF new
    <2>2. /\ req'[w].request = r /\ req'[w].at = "check ip" /\ req'[w].against = held
      BY <2>1, <2>n
    <2> USE DEF held
    <2>3. Passed(r, "check ip") = {}
      BY DEF Passed
    <2>4. QED
      BY <1>d, <2>1, <2>2, <2>3
  <1>2. CASE req' = [req EXCEPT ![w] = None]
    <2>1. req'[w] = None /\ \A v \in Worker : v # w => req'[v] = req[v]
      BY <1>2, <1>a, EndFacts
    <2>2. QED
      BY <1>d, <2>1
  <1>3. ASSUME CheckBan(w), ~ IsBanned(TargetsOf(req[w].request, req[w].at))
        PROVE  \A v \in Worker : BansKeepOut(v)'
    <2>1. /\ req[w] # None /\ req[w].at \in DOMAIN AfterCheck
          /\ Goto(w, AfterCheck[req[w].at])
      BY <1>3 DEF CheckBan
    <2>2. AfterCheck[req[w].at] \in Stage
      BY <2>1, AfterCheckFacts DEF Stage
    <2>3. /\ \A v \in Worker : v # w => req'[v] = req[v]
          /\ req'[w].at = AfterCheck[req[w].at]
          /\ req'[w].request = req[w].request
          /\ req'[w].excused = req[w].excused /\ req'[w].against = req[w].against
      BY <1>a, <2>1, <2>2, GotoFacts
    <2>4. \A p \in BannedTargets(bans, now) : p[2] \notin TargetsOf(req[w].request, req[w].at)
      BY <1>3 DEF IsBanned, BansOf, Effective, EffectiveAt, BannedTargets
    <2>5. Passed(req[w].request, AfterCheck[req[w].at]) =
             Passed(req[w].request, req[w].at) \cup TargetsOf(req[w].request, req[w].at)
      BY <2>1, CheckPasses
    <2>6. \A p \in req[w].against :
              /\ p \in BannedTargets(bans, now)
              /\ p[2] \in AllTargets(req[w].request)
              /\ ~ req[w].excused => p[2] \notin Passed(req[w].request, AfterCheck[req[w].at])
      BY <2>1, <2>4, <2>5 DEF BansKeepOut
    <2>7. QED
      BY <1>d, <2>3, <2>6
  <1>4. CASE CheckFails(w)
    <2> DEFINE new == [req[w] EXCEPT !.at = AfterCheck[req[w].at], !.excused = TRUE]
    <2>1. req[w] # None /\ req' = [req EXCEPT ![w] = new]
      BY <1>4 DEF CheckFails
    <2>2. req[w] \in ReqType
      BY <1>a, <2>1 DEF ReqOK
    <2>3. new.request = req[w].request /\ new.excused = TRUE /\ new.against = req[w].against
      BY <2>2 DEF ReqType
    <2> HIDE DEF new
    <2>4. req'[w] = new /\ \A v \in Worker : v # w => req'[v] = req[v]
      BY <1>a, <2>1 DEF ReqOK
    <2>5. \A p \in req[w].against :
             p \in BannedTargets(bans, now) /\ p[2] \in AllTargets(req[w].request)
      BY <2>1 DEF BansKeepOut
    <2>6. QED
      BY <1>d, <2>3, <2>4, <2>5
  <1>5. ASSUME req[w] # None, req[w].at \notin DOMAIN AfterCheck,
               NEW at \in Stage, at \notin DOMAIN AfterCheck, Goto(w, at)
        PROVE  \A v \in Worker : BansKeepOut(v)'
    <2>1. /\ \A v \in Worker : v # w => req'[v] = req[v]
          /\ req'[w].at = at /\ req'[w].request = req[w].request
          /\ req'[w].excused = req[w].excused /\ req'[w].against = req[w].against
      BY <1>5, <1>a, GotoFacts
    <2>2. Passed(req[w].request, at) = Passed(req[w].request, req[w].at)
      BY <1>5, AfterCheckFacts DEF Passed
    <2>3. \A p \in req[w].against :
              /\ p \in BannedTargets(bans, now)
              /\ p[2] \in AllTargets(req[w].request)
              /\ ~ req[w].excused => p[2] \notin Passed(req[w].request, at)
      BY <1>5, <2>2 DEF BansKeepOut
    <2>4. QED
      BY <1>d, <2>1, <2>3
  <1>6. CASE Track(w) \/ TrackingFails(w)
    <2>1. /\ req[w] # None /\ req[w].at \notin DOMAIN AfterCheck
          /\ \/ req' = [req EXCEPT ![w] = None]
             \/ \E at \in {"get print", "create ip", "insert", "create print", "failed"} : Goto(w, at)
      <3>1. CASE GetIp(w) \/ CreateIp(w)
        BY <3>1, AfterCheckFacts DEF GetIp, CreateIp, AtStage
      <3>2. CASE GetPrint(w) \/ CreatePrint(w)
        BY <3>2, AfterCheckFacts DEF GetPrint, CreatePrint, AtStage
      <3>3. CASE Insert(w) \/ TrackingFails(w)
        BY <3>3, AfterCheckFacts DEF Insert, TrackingFails, AtStage
      <3>4. QED
        BY <1>6, <3>1, <3>2, <3>3 DEF Track
    <2>2. \A at \in {"get print", "create ip", "insert", "create print", "failed"} :
             at \in Stage /\ at \notin DOMAIN AfterCheck
      BY AfterCheckFacts DEF Stage
    <2>3. QED
      BY <1>2, <1>5, <2>1, <2>2
  <1>7. CASE Finish(w)
    BY <1>2, <1>7 DEF Finish
  <1>8. CASE CheckBan(w)
    BY <1>2, <1>3, <1>8 DEF CheckBan
  <1>9. QED
    BY <1>1, <1>4, <1>6, <1>7, <1>8 DEF ProcessRequest

\* What admins and time do to the requests that are being answered.
LEMMA OthersKeptOut ==
  ASSUME TypeInv, \A v \in Worker : BansKeepOut(v),
         Tick \/ Administer \/ \E t \in Task : Geolocate(t)
  PROVE  \A v \in Worker : BansKeepOut(v)'
  <1>a. ReqOK /\ BansOK /\ RowsOK
    BY TypeParts DEF TypeInv
  <1>b. ASSUME req' = StillAgainst(bans', now') PROVE \A v \in Worker : BansKeepOut(v)'
    BY <1>a, <1>b, StillAgainstFacts, KeptOut
  <1>c. ASSUME NEW t, Cascade(t), UNCHANGED now,
               Range(rows) \ {t} \subseteq Range(rows'), prints \ {t} \subseteq prints'
        PROVE  \A v \in Worker : BansKeepOut(v)'
    BY <1>c, CascadeFacts, KeptOut
  <1>d. ASSUME UNCHANGED <<now, req>>,
               \A b \in BanId : bans[b] # None => bans'[b] = bans[b]
        PROVE  \A v \in Worker : BansKeepOut(v)'
    <2>1. BannedTargets(bans, now) \subseteq BannedTargets(bans', now')
      BY <1>d DEF BannedTargets, EffectiveAt
    <2>2. ASSUME NEW v \in Worker
          PROVE  req[v] # None => req[v].against \subseteq BannedTargets(bans', now')
      BY <2>1 DEF BansKeepOut
    <2>3. QED
      BY <1>d, <2>2, KeptOut
  <1>1. CASE Tick
    BY <1>1, <1>b DEF Tick, tables
  <1>2. ASSUME NEW b \in BanId, NEW ban, AddBan(b, ban)
        PROVE  \A v \in Worker : BansKeepOut(v)'
    BY <1>2, <1>a, <1>d DEF AddBan, BansOK
  <1>3. ASSUME \/ \E b \in BanId : DeleteBan(b) \/ \E ban \in Ban : EditBan(b, ban)
               \/ \E selected \in SUBSET BanId, active \in BOOLEAN : ActivateBans(selected, active)
        PROVE  \A v \in Worker : BansKeepOut(v)'
    <2>1. req' = StillAgainst(bans', now')
      BY <1>3 DEF EditBan, DeleteBan, ActivateBans
    <2>2. QED
      BY <1>b, <2>1
  <1>5. ASSUME NEW ip \in Ip, DeleteIp(ip)
        PROVE  \A v \in Worker : BansKeepOut(v)'
    <2>1. PICK i \in DOMAIN rows : rows[i] = ip /\ rows' = RemoveAt(rows, i)
      BY <1>5 DEF DeleteIp
    <2>2. Range(rows') = Range(rows) \ {ip}
      BY <1>a, <2>1, RemoveAtFacts DEF RowsOK
    <2>3. Cascade(ip) /\ UNCHANGED <<now, prints>>
      BY <1>5 DEF DeleteIp
    <2>4. QED
      BY <1>c, <2>2, <2>3
  <1>6. ASSUME NEW p \in Hash, DeletePrint(p)
        PROVE  \A v \in Worker : BansKeepOut(v)'
    BY <1>6, <1>c DEF DeletePrint
  <1>7. ASSUME NEW a \in Admin, NEW todo, BeginBanning(a, todo)
        PROVE  \A v \in Worker : BansKeepOut(v)'
    BY <1>7, <1>d DEF BeginBanning, tables
  <1>8. ASSUME NEW a \in Admin, NEW t, LookForBan(a, t)
        PROVE  \A v \in Worker : BansKeepOut(v)'
    BY <1>8, <1>d DEF LookForBan, tables
  <1>9. ASSUME NEW a \in Admin, NEW b \in BanId, CreateBan(a, b)
        PROVE  \A v \in Worker : BansKeepOut(v)'
    <2>1. /\ UNCHANGED <<now, req>>
          /\ UNCHANGED bans \/ \E new : bans[b] = None /\ bans' = [bans EXCEPT ![b] = new]
      BY <1>9 DEF CreateBan
    <2>2. QED
      BY <1>a, <1>d, <2>1 DEF BansOK
  <1>10. ASSUME NEW t \in Task, Geolocate(t)
         PROVE  \A v \in Worker : BansKeepOut(v)'
    <2>1. UNCHANGED <<now, req, bans>>
      BY <1>10 DEF Geolocate, GeolocateMissingIps, GeolocateBatch, UpdateGeoData,
                   GeolocationFails, tables
    <2>2. QED
      BY <1>d, <2>1
  <1>11. CASE Administer
    BY <1>11, <1>2, <1>3, <1>5, <1>6, <1>7, <1>8, <1>9 DEF Administer, SmallBan
  <1>12. QED
    BY <1>1, <1>10, <1>11

\* No request gets past the checks while its address, its fingerprint or its user
\* agent is the target of a ban that held when it came and has held since, whatever
\* admins do to the bans, to their targets and to the rows between one check and the
\* next (process_request, BanAdmin).
THEOREM BannedIsKeptOut == Spec => []BannedIsNotServed
  <1> DEFINE Inv == TypeInv /\ \A w \in Worker : BansKeepOut(w)
  <1>1. Init => Inv
    BY InitTypeInv, InitKeptOut
  <1>2. Inv /\ [Next]_vars => Inv'
    <2> SUFFICES ASSUME Inv, [Next]_vars PROVE Inv'
      OBVIOUS
    <2>1. TypeInv'
      BY NextTypeInv
    <2>2. CASE UNCHANGED vars
      <3>1. UNCHANGED <<now, bans, req>>
        BY <2>2 DEF vars, tables
      <3>2. QED
        BY <2>1, <3>1 DEF BansKeepOut, BannedTargets, EffectiveAt
    <2>3. CASE Next
      BY <2>1, <2>3, RequestKeptOut, OthersKeptOut DEF Next
    <2>4. QED
      BY <2>2, <2>3
  <1>3. Inv => BannedIsNotServed
    <2> SUFFICES ASSUME Inv, NEW w \in Worker, req[w] # None,
                        req[w].at \notin DOMAIN AfterCheck, ~ req[w].excused
                 PROVE  req[w].against = {}
      BY DEF BannedIsNotServed
    <2>1. Passed(req[w].request, req[w].at) = AllTargets(req[w].request)
      BY AfterCheckFacts DEF Passed
    <2>2. QED
      BY <2>1 DEF BansKeepOut
  <1> HIDE DEF Inv
  <1>4. QED
    BY <1>1, <1>2, <1>3, PTL DEF Spec

-----------------------------------------------------------------------------
(* Locations.                                                               *)

\* A location goes with its row, and in no other way: runs of the task only add to
\* what is known, whatever they found and whichever is the last (tasks.py:157-163).
THEOREM LocationStays == Spec => LocationIsKept
  <1>1. ASSUME TypeInv, [Next]_vars, NEW ip \in located, ip \in Range(rows')
        PROVE  ip \in located'
    <2>a. RowsOK
      BY <1>1, TypeParts DEF TypeInv
    <2>1. CASE UNCHANGED located
      BY <2>1
    <2>2. ASSUME NEW gone \in Ip, DeleteIp(gone) PROVE ip \in located'
      <3>1. PICK i \in DOMAIN rows : rows[i] = gone /\ rows' = RemoveAt(rows, i)
        BY <2>2 DEF DeleteIp
      <3>2. Range(rows') = Range(rows) \ {gone}
        BY <2>a, <3>1, RemoveAtFacts DEF RowsOK
      <3>3. located' = located \ {gone}
        BY <2>2 DEF DeleteIp
      <3>4. QED
        BY <1>1, <3>2, <3>3
    <2>3. ASSUME NEW t \in Task, UpdateGeoData(t) PROVE ip \in located'
      BY <2>3 DEF UpdateGeoData, Store
    <2>4. ASSUME NEW w \in Worker, ProcessRequest(w) PROVE UNCHANGED located
      <3>1. CASE \E r \in Request : Arrive(w, r)
        BY <3>1 DEF Arrive, tables
      <3>2. CASE \/ CheckBan(w) \/ CheckFails(w) \/ Track(w) \/ TrackingFails(w) \/ Finish(w)
        BY <1>1, <3>2, RequestFrame
      <3>3. QED
        BY <2>4, <3>1, <3>2 DEF ProcessRequest
    <2>5. CASE Administer
      <3>1. UNCHANGED located \/ \E gone \in Ip : DeleteIp(gone)
        BY <2>5 DEF Administer, AddBan, EditBan, ActivateBans, DeleteBan, DeletePrint, BeginBanning,
                    LookForBan, CreateBan, tables
      <3>2. QED
        BY <2>1, <2>2, <3>1
    <2>6. ASSUME NEW t \in Task, Geolocate(t) PROVE ip \in located'
      BY <2>1, <2>3, <2>6 DEF Geolocate, GeolocateMissingIps, GeolocateBatch,
                              GeolocationFails, tables
    <2>7. CASE Tick \/ UNCHANGED vars
      BY <2>1, <2>7 DEF Tick, vars, tables
    <2>8. QED
      BY <1>1, <2>1, <2>4, <2>5, <2>6, <2>7 DEF Next
  <1>2. TypeInv /\ [Next]_vars =>
          [\A ip \in located : ip \in Range(rows') => ip \in located']_vars
    BY <1>1
  <1>3. QED
    BY <1>2, InitTypeInv, NextTypeInv, PTL DEF Spec, LocationIsKept

-----------------------------------------------------------------------------
(***************************************************************************)
(* Theorems about Uptime.                                                  *)
(***************************************************************************)

-----------------------------------------------------------------------------
(* Records and sequences.                                                   *)

TaskStep == {"queued", "fetched", "read", "invoked", "answer", "posted", "accepted", "alert", "done"}

WebStep == {"begun", "read", "delete", "alert", "except"}

LEMMA UptimeBounds ==
  /\ MaxChecks \in Nat /\ MaxBusy \in Nat /\ MaxFailures \in Nat
  /\ Check = 1..MaxChecks
  BY UptimeAssumption DEF Check

LEMMA TaskFields ==
  ASSUME NEW t \in CheckTask
  PROVE  /\ t.checker \in Checker /\ t.start \in 0..MaxChecks /\ t.status \in Outcome
         /\ t.at \in TaskStep /\ t.previous \in StatusRow \cup {Null}
  BY DEF CheckTask, TaskStep

\* A task of which some fields are changed.
TaskOf(old, at, start, status, previous) ==
  [checker |-> old.checker, start |-> start, status |-> status, at |-> at, previous |-> previous]

LEMMA TaskOfFields ==
  ASSUME NEW old \in CheckTask, NEW at \in TaskStep, NEW start \in 0..MaxChecks,
         NEW status \in Outcome, NEW previous \in StatusRow \cup {Null}
  PROVE  /\ TaskOf(old, at, start, status, previous) \in CheckTask
         /\ TaskOf(old, at, start, status, previous).checker = old.checker
         /\ TaskOf(old, at, start, status, previous).at = at
         /\ TaskOf(old, at, start, status, previous).start = start
         /\ TaskOf(old, at, start, status, previous).status = status
         /\ TaskOf(old, at, start, status, previous).previous = previous
  BY DEF TaskOf, CheckTask, TaskStep

LEMMA TaskIs ==
  ASSUME NEW t \in CheckTask
  PROVE  t = TaskOf(t, t.at, t.start, t.status, t.previous)
  BY DEF TaskOf, CheckTask

LEMMA DeliveryFields ==
  ASSUME NEW d \in Delivery
  PROVE  /\ d.check \in Check /\ d.at \in WebStep /\ d.row \in RequestRow \cup {Null}
         /\ d.previous \in StatusRow \cup {Null} /\ d # Null
         /\ d = [check |-> d.check, at |-> d.at, row |-> d.row, previous |-> d.previous]
  BY NullAssumption DEF Delivery, WebStep

LEMMA DeliveryOf ==
  ASSUME NEW c \in Check, NEW at \in WebStep, NEW row \in RequestRow \cup {Null},
         NEW previous \in StatusRow \cup {Null}
  PROVE  [check |-> c, at |-> at, row |-> row, previous |-> previous] \in Delivery
  BY DEF Delivery, WebStep

LEMMA RequestFields ==
  ASSUME NEW r \in RequestRow
  PROVE  /\ r.check \in Check /\ r.pk \in 0..1 /\ r.received \in BOOLEAN /\ r # Null
         /\ r = [check |-> r.check, pk |-> r.pk, received |-> r.received]
  BY NullAssumption DEF RequestRow

LEMMA RequestOf ==
  ASSUME NEW c \in Check, NEW pk \in 0..1, NEW received \in BOOLEAN
  PROVE  /\ [check |-> c, pk |-> pk, received |-> received] \in RequestRow
         /\ [check |-> c, pk |-> pk, received |-> received] # Null
  BY NullAssumption DEF RequestRow

LEMMA StatusFields ==
  ASSUME NEW r \in StatusRow
  PROVE  /\ r.check \in Check /\ r.start \in 0..MaxChecks /\ r.status \in Outcome
         /\ r.checker \in Checker /\ r # Null
  BY NullAssumption DEF StatusRow

LEMMA StatusOf ==
  ASSUME NEW c \in Check, NEW start \in 0..MaxChecks, NEW status \in Outcome,
         NEW checker \in Checker
  PROVE  [check |-> c, start |-> start, status |-> status, checker |-> checker] \in StatusRow
  BY DEF StatusRow

\* One task of several is put in the place of another.
TaskGoes(c, t) ==
  /\ checks' \in Seq(CheckTask) /\ Len(checks') = Len(checks) /\ DOMAIN checks' = DOMAIN checks
  /\ t \in CheckTask /\ checks'[c] = t
  /\ \A d \in DOMAIN checks \ {c} : checks'[d] = checks[d]

LEMMA TaskPut ==
  ASSUME checks \in Seq(CheckTask), NEW c \in DOMAIN checks, NEW t \in CheckTask,
         checks' = [checks EXCEPT ![c] = t]
  PROVE  TaskGoes(c, t)
  <1>1. Len(checks) \in Nat /\ DOMAIN checks = 1..Len(checks)
        /\ \A d \in DOMAIN checks : checks[d] \in CheckTask
    OBVIOUS
  <1>2. DOMAIN checks' = 1..Len(checks) /\ \A d \in 1..Len(checks) : checks'[d] \in CheckTask
    BY <1>1
  <1>3. checks' = [d \in 1..Len(checks) |-> checks'[d]]
    BY <1>1
  <1>4. checks' \in Seq(CheckTask) /\ Len(checks') = Len(checks)
    BY <1>1, <1>2, <1>3
  <1>5. QED
    BY <1>1, <1>2, <1>4 DEF TaskGoes

\* What is kept of a task that goes to another step.
LEMMA GotoPut ==
  ASSUME checks \in Seq(CheckTask), NEW c \in DOMAIN checks, NEW at \in TaskStep, MoveTo(c, at)
  PROVE  LET old == checks[c]
         IN  TaskGoes(c, TaskOf(old, at, old.start, old.status, old.previous))
  <1> DEFINE old == checks[c]
             t == TaskOf(old, at, old.start, old.status, old.previous)
  <1>1. old \in CheckTask
    OBVIOUS
  <1>2. t \in CheckTask
    BY <1>1, TaskFields, TaskOfFields
  <1>3. [old EXCEPT !.at = at] = t
    BY <1>1 DEF TaskOf, CheckTask
  <1>4. checks' = [checks EXCEPT ![c] = t]
    BY <1>3 DEF MoveTo
  <1> HIDE DEF t
  <1>5. TaskGoes(c, t)
    BY <1>2, <1>4, TaskPut
  <1>6. QED
    BY <1>5 DEF t

\* One element of a sequence of tasks is another.
Replaced(g, f, c, t) ==
  /\ g \in Seq(CheckTask) /\ Len(g) = Len(f) /\ DOMAIN g = DOMAIN f
  /\ t \in CheckTask /\ g[c] = t
  /\ \A d \in DOMAIN f \ {c} : g[d] = f[d]

LEMMA FieldPut ==
  ASSUME NEW f \in Seq(CheckTask), NEW c \in DOMAIN f, NEW old, old = f[c]
  PROVE  /\ \A at \in TaskStep :
              Replaced([f EXCEPT ![c].at = at], f, c,
                       TaskOf(old, at, old.start, old.status, old.previous))
         /\ \A start \in 0..MaxChecks :
              Replaced([f EXCEPT ![c].start = start], f, c,
                       TaskOf(old, old.at, start, old.status, old.previous))
         /\ \A status \in Outcome :
              Replaced([f EXCEPT ![c].status = status], f, c,
                       TaskOf(old, old.at, old.start, status, old.previous))
         /\ \A previous \in StatusRow \cup {Null} :
              Replaced([f EXCEPT ![c].previous = previous], f, c,
                       TaskOf(old, old.at, old.start, old.status, previous))
  <1>1. old \in CheckTask
    OBVIOUS
  <1>2. ASSUME NEW t \in CheckTask
        PROVE  Replaced([f EXCEPT ![c] = t], f, c, t)
    <2>1. DOMAIN f = 1..Len(f) /\ Len(f) \in Nat
      OBVIOUS
    <2>2. QED
      BY <2>1 DEF Replaced
  <1>3. ASSUME NEW at \in TaskStep
        PROVE  Replaced([f EXCEPT ![c].at = at], f, c,
                        TaskOf(old, at, old.start, old.status, old.previous))
    <2>1. [old EXCEPT !.at = at] = TaskOf(old, at, old.start, old.status, old.previous)
      BY <1>1 DEF TaskOf, CheckTask
    <2>2. TaskOf(old, at, old.start, old.status, old.previous) \in CheckTask
      BY <1>1, TaskFields, TaskOfFields
    <2>3. QED
      BY <1>2, <2>1, <2>2
  <1>4. ASSUME NEW start \in 0..MaxChecks
        PROVE  Replaced([f EXCEPT ![c].start = start], f, c,
                        TaskOf(old, old.at, start, old.status, old.previous))
    <2>1. [old EXCEPT !.start = start] = TaskOf(old, old.at, start, old.status, old.previous)
      BY <1>1 DEF TaskOf, CheckTask
    <2>2. TaskOf(old, old.at, start, old.status, old.previous) \in CheckTask
      BY <1>1, TaskFields, TaskOfFields
    <2>3. QED
      BY <1>2, <2>1, <2>2
  <1>5. ASSUME NEW status \in Outcome
        PROVE  Replaced([f EXCEPT ![c].status = status], f, c,
                        TaskOf(old, old.at, old.start, status, old.previous))
    <2>1. [old EXCEPT !.status = status] = TaskOf(old, old.at, old.start, status, old.previous)
      BY <1>1 DEF TaskOf, CheckTask
    <2>2. TaskOf(old, old.at, old.start, status, old.previous) \in CheckTask
      BY <1>1, TaskFields, TaskOfFields
    <2>3. QED
      BY <1>2, <2>1, <2>2
  <1>6. ASSUME NEW previous \in StatusRow \cup {Null}
        PROVE  Replaced([f EXCEPT ![c].previous = previous], f, c,
                        TaskOf(old, old.at, old.start, old.status, previous))
    <2>1. [old EXCEPT !.previous = previous] = TaskOf(old, old.at, old.start, old.status, previous)
      BY <1>1 DEF TaskOf, CheckTask
    <2>2. TaskOf(old, old.at, old.start, old.status, previous) \in CheckTask
      BY <1>1, TaskFields, TaskOfFields
    <2>3. QED
      BY <1>2, <2>1, <2>2
  <1>7. QED
    BY <1>3, <1>4, <1>5, <1>6

\* Several fields of one task are changed.
LEMMA FieldsPut ==
  ASSUME NEW f \in Seq(CheckTask), NEW c \in DOMAIN f, NEW old, old = f[c],
         NEW at \in TaskStep, NEW start \in 0..MaxChecks, NEW status \in Outcome,
         NEW previous \in StatusRow \cup {Null}
  PROVE  /\ Replaced([f EXCEPT ![c].status = status, ![c].start = start, ![c].at = at], f, c,
                     TaskOf(old, at, start, status, old.previous))
         /\ Replaced([f EXCEPT ![c].status = status, ![c].at = at], f, c,
                     TaskOf(old, at, old.start, status, old.previous))
         /\ Replaced([f EXCEPT ![c].at = at, ![c].status = status], f, c,
                     TaskOf(old, at, old.start, status, old.previous))
         /\ Replaced([f EXCEPT ![c].at = at, ![c].previous = previous], f, c,
                     TaskOf(old, at, old.start, old.status, previous))
  <1> DEFINE s == [f EXCEPT ![c].status = status]
             n == [s EXCEPT ![c].start = start]
             a == [f EXCEPT ![c].at = at]
  <1>1. Replaced(s, f, c, TaskOf(old, old.at, old.start, status, old.previous))
    BY FieldPut
  <1>2. Replaced(a, f, c, TaskOf(old, at, old.start, old.status, old.previous))
    BY FieldPut
  <1>3. ASSUME NEW g, NEW k, NEW t, NEW u, Replaced(g, f, c, t), Replaced(k, g, c, u)
        PROVE  Replaced(k, f, c, u)
    BY <1>3 DEF Replaced
  <1>4. ASSUME NEW b, NEW m, NEW o, NEW p, NEW b2, NEW m2, NEW o2, NEW p2
        PROVE  /\ TaskOf(TaskOf(old, b, m, o, p), b2, m2, o2, p2) = TaskOf(old, b2, m2, o2, p2)
               /\ TaskOf(old, b, m, o, p).at = b /\ TaskOf(old, b, m, o, p).start = m
               /\ TaskOf(old, b, m, o, p).status = o /\ TaskOf(old, b, m, o, p).previous = p
    BY DEF TaskOf
  <1>5. /\ s \in Seq(CheckTask) /\ c \in DOMAIN s
        /\ s[c] = TaskOf(old, old.at, old.start, status, old.previous)
    BY <1>1 DEF Replaced
  <1>6. /\ a \in Seq(CheckTask) /\ c \in DOMAIN a
        /\ a[c] = TaskOf(old, at, old.start, old.status, old.previous)
    BY <1>2 DEF Replaced
  <1> HIDE DEF s, a
  <1>7. /\ Replaced(n, s, c, TaskOf(old, old.at, start, status, old.previous))
        /\ Replaced([s EXCEPT ![c].at = at], s, c, TaskOf(old, at, old.start, status, old.previous))
    <2>1. PICK u : u = s[c]
      OBVIOUS
    <2>2. /\ u.at = old.at /\ u.start = old.start /\ u.status = status /\ u.previous = old.previous
          /\ \A b, m, o, p : TaskOf(u, b, m, o, p) = TaskOf(old, b, m, o, p)
      BY <1>4, <1>5, <2>1
    <2>3. /\ Replaced(n, s, c, TaskOf(u, u.at, start, u.status, u.previous))
          /\ Replaced([s EXCEPT ![c].at = at], s, c, TaskOf(u, at, u.start, u.status, u.previous))
      BY <1>5, <2>1, FieldPut
    <2>4. QED
      BY <2>2, <2>3
  <1>8. /\ Replaced([a EXCEPT ![c].status = status], a, c,
                    TaskOf(old, at, old.start, status, old.previous))
        /\ Replaced([a EXCEPT ![c].previous = previous], a, c,
                    TaskOf(old, at, old.start, old.status, previous))
    <2>1. PICK u : u = a[c]
      OBVIOUS
    <2>2. /\ u.at = at /\ u.start = old.start /\ u.status = old.status /\ u.previous = old.previous
          /\ \A b, m, o, p : TaskOf(u, b, m, o, p) = TaskOf(old, b, m, o, p)
      BY <1>4, <1>6, <2>1
    <2>3. /\ Replaced([a EXCEPT ![c].status = status], a, c,
                      TaskOf(u, u.at, u.start, status, u.previous))
          /\ Replaced([a EXCEPT ![c].previous = previous], a, c,
                      TaskOf(u, u.at, u.start, u.status, previous))
      BY <1>6, <2>1, FieldPut
    <2>4. QED
      BY <2>2, <2>3
  <1>9. /\ n \in Seq(CheckTask) /\ c \in DOMAIN n
        /\ n[c] = TaskOf(old, old.at, start, status, old.previous)
    BY <1>5, <1>7 DEF Replaced
  <1> HIDE DEF n
  <1>10. Replaced([n EXCEPT ![c].at = at], n, c, TaskOf(old, at, start, status, old.previous))
    BY <1>4, <1>9, FieldPut
  <1>11. Replaced([n EXCEPT ![c].at = at], f, c, TaskOf(old, at, start, status, old.previous))
    BY <1>1, <1>3, <1>7, <1>10
  <1>12. QED
    BY <1>1, <1>2, <1>3, <1>7, <1>8, <1>11 DEF s, a, n

LEMMA EndPut ==
  ASSUME checks \in Seq(CheckTask), NEW c \in DOMAIN checks, End(c)
  PROVE  TaskGoes(c, TaskOf(checks[c], "done", 0, "error", Null))
  <1> DEFINE old == checks[c]
             t == TaskOf(old, "done", 0, "error", Null)
  <1>1. old \in CheckTask
    OBVIOUS
  <1>2. t \in CheckTask
    BY <1>1, UptimeBounds, TaskOfFields DEF TaskStep, Outcome
  <1>3. [NewCheck(old.checker) EXCEPT !.at = "done"] = t
    BY DEF TaskOf, NewCheck
  <1>4. checks' = [checks EXCEPT ![c] = t]
    BY <1>3 DEF End
  <1> HIDE DEF t
  <1>5. TaskGoes(c, t)
    BY <1>2, <1>4, TaskPut
  <1>6. QED
    BY <1>5 DEF t

\* One request to the webhook goes on, or ends.
WebGoes(h, d) ==
  /\ web' \in [Handler -> {Null} \cup Delivery] /\ d \in {Null} \cup Delivery /\ web'[h] = d
  /\ \A g \in Handler \ {h} : web'[g] = web[g]

LEMMA WebPut ==
  ASSUME web \in [Handler -> {Null} \cup Delivery], NEW h \in Handler,
         NEW d \in {Null} \cup Delivery, web' = [web EXCEPT ![h] = d]
  PROVE  WebGoes(h, d)
  BY DEF WebGoes

LEMMA StepPut ==
  ASSUME web \in [Handler -> {Null} \cup Delivery], NEW h \in Handler, web[h] # Null,
         NEW at \in WebStep, Step(h, at)
  PROVE  LET old == web[h]
         IN  WebGoes(h, [check |-> old.check, at |-> at, row |-> old.row, previous |-> old.previous])
  <1> DEFINE old == web[h]
             d == [check |-> old.check, at |-> at, row |-> old.row, previous |-> old.previous]
  <1>1. old \in Delivery
    OBVIOUS
  <1>2. d \in Delivery
    BY <1>1, DeliveryFields, DeliveryOf
  <1>3. [old EXCEPT !.at = at] = d
    BY <1>1 DEF Delivery
  <1>4. web' = [web EXCEPT ![h] = d]
    BY <1>3 DEF Step
  <1> HIDE DEF d
  <1>5. WebGoes(h, d)
    BY <1>2, <1>4, WebPut
  <1>6. QED
    BY <1>5 DEF d

\* Statuses are created behind those there are.
LEMMA StatusesGrow ==
  ASSUME statuses \in Seq(StatusRow), NEW row \in StatusRow, statuses' = Append(statuses, row)
  PROVE  /\ Len(statuses) \in Nat /\ statuses' \in Seq(StatusRow)
         /\ DOMAIN statuses = 1..Len(statuses)
         /\ Len(statuses') = Len(statuses) + 1
         /\ DOMAIN statuses' = DOMAIN statuses \cup {Len(statuses) + 1}
         /\ Len(statuses) + 1 \notin DOMAIN statuses
         /\ statuses'[Len(statuses) + 1] = row
         /\ \A i \in DOMAIN statuses : statuses'[i] = statuses[i]
  <1>1. /\ statuses' \in Seq(StatusRow) /\ Len(statuses') = Len(statuses) + 1
        /\ \A i \in 1..Len(statuses) : statuses'[i] = statuses[i]
        /\ statuses'[Len(statuses) + 1] = row
    BY AppendProperties
  <1>2. Len(statuses) \in Nat /\ DOMAIN statuses = 1..Len(statuses)
        /\ DOMAIN statuses' = 1..(Len(statuses) + 1)
    BY <1>1
  <1>3. QED
    BY <1>1, <1>2

-----------------------------------------------------------------------------
(* Types.                                                                   *)

\* An endpoint is checked by two tasks, a workflow by two others.
FitsKind(checker) == checker \in (IF kind = "endpoint" THEN {"local", "region"} ELSE {"badge", "api"})

StepsOf(checker) ==
  CASE checker = "region" -> {"queued", "invoked", "answer", "posted", "accepted", "done"}
    [] checker = "local" -> {"queued", "fetched", "read", "alert", "done"}
    [] checker = "badge" -> {"queued", "read", "alert", "done"}
    [] OTHER -> {"queued", "read", "done"}

ChecksFit ==
  \A c \in DOMAIN checks :
     FitsKind(checks[c].checker) /\ checks[c].at \in StepsOf(checks[c].checker)

\* Where a check in a region is once its answer may have arrived.
Posted == {"answer", "posted", "accepted", "done"}

DeliveriesFit ==
  \A h \in Handler : web[h] # Null =>
     /\ web[h].check \in DOMAIN checks /\ checks[web[h].check].checker = "region"
     /\ checks[web[h].check].at \in Posted
     /\ web[h].at # "begun" => web[h].row \in RequestRow /\ web[h].row.check = web[h].check

StatusesFit ==
  \A i \in DOMAIN statuses :
     /\ statuses[i].check \in DOMAIN checks
     /\ checks[statuses[i].check].at \in Posted \cup {"alert"}
     /\ statuses[i].checker = checks[statuses[i].check].checker

RequestsFit ==
  \A r \in requests :
     /\ r.check \in DOMAIN checks /\ checks[r.check].checker = "region"
     /\ checks[r.check].at # "queued"
     /\ r.received => checks[r.check].at \in Posted

\* What is deleted comes back no more.
GoneIsEmpty == life # "alive" => statuses = <<>> /\ requests = {}

\* The checks whose fetch has not begun.
Unfetched == {c \in DOMAIN checks : checks[c].at \in {"queued", "invoked"}}

FetchesLeft == fetches + Cardinality(Unfetched) <= Len(checks)

UptimeTypes ==
  /\ UptimeTypeOK /\ ChecksFit /\ DeliveriesFit /\ StatusesFit /\ RequestsFit /\ GoneIsEmpty
  /\ FetchesLeft

LEMMA StepsAre ==
  /\ StepsOf("region") = {"queued", "invoked", "answer", "posted", "accepted", "done"}
  /\ StepsOf("local") = {"queued", "fetched", "read", "alert", "done"}
  /\ StepsOf("badge") = {"queued", "read", "alert", "done"}
  /\ StepsOf("api") = {"queued", "read", "done"}
  BY DEF StepsOf

LEMMA UptimeTyped ==
  ASSUME UptimeTypeOK
  PROVE  /\ checks \in Seq(CheckTask) /\ Len(checks) \in Nat /\ DOMAIN checks = 1..Len(checks)
         /\ \A c \in DOMAIN checks : c \in Check /\ checks[c] \in CheckTask
         /\ statuses \in Seq(StatusRow) /\ Len(statuses) \in Nat
         /\ DOMAIN statuses = 1..Len(statuses)
         /\ \A i \in DOMAIN statuses : statuses[i] \in StatusRow
         /\ web \in [Handler -> {Null} \cup Delivery]
         /\ \A h \in Handler : web[h] # Null => web[h] \in Delivery
         /\ requests \subseteq RequestRow /\ Len(checks) <= MaxChecks
         /\ fetches \in 0..MaxChecks /\ failures \in 0..MaxFailures
  <1>1. Len(checks) \in Nat /\ DOMAIN checks = 1..Len(checks) /\ Len(checks) <= MaxChecks
    BY DEF UptimeTypeOK
  <1>2. \A c \in DOMAIN checks : c \in Check /\ checks[c] \in CheckTask
    BY <1>1, UptimeBounds DEF UptimeTypeOK
  <1>3. Len(statuses) \in Nat /\ DOMAIN statuses = 1..Len(statuses)
        /\ \A i \in DOMAIN statuses : statuses[i] \in StatusRow
    BY DEF UptimeTypeOK
  <1>4. QED
    BY <1>1, <1>2, <1>3 DEF UptimeTypeOK

LEMMA LeastOf ==
  ASSUME NEW T, T \subseteq Nat, T # {}
  PROVE  \E n \in T : \A m \in T : n <= m
  <1>1. PICK n \in T : \A m \in T : ~(<<m, n>> \in OpToRel(<, Nat))
    BY WFMin, NatLessThanWellFounded
  <1>2. ASSUME NEW m \in T PROVE ~(m < n)
    BY <1>1, Zenon DEF OpToRel
  <1>3. QED
    BY <1>2

\* The latest status is one considered: of an endpoint, one that no other started
\* after; of a workflow, the one created last.
LEMMA LatestIs ==
  ASSUME UptimeTypeOK, Considered # {}
  PROVE  /\ LatestOf \in Considered /\ MostRecentStatus = statuses[LatestOf]
         /\ MostRecentStatus \in StatusRow
         /\ kind = "endpoint" => \A j \in Considered : statuses[j].start <= MostRecentStatus.start
         /\ kind # "endpoint" => \A j \in Considered : j <= LatestOf
  <1> DEFINE Ahead(i) == \A j \in Considered :
               IF kind = "endpoint" THEN statuses[j].start <= statuses[i].start ELSE j <= i
  <1>1. /\ Considered \subseteq DOMAIN statuses /\ Len(statuses) \in Nat
        /\ DOMAIN statuses = 1..Len(statuses) /\ \A i \in DOMAIN statuses : statuses[i] \in StatusRow
    BY UptimeTyped DEF Considered
  <1>2. \A j \in Considered : statuses[j].start \in 0..MaxChecks
    BY <1>1, StatusFields
  <1>3. \E i \in Considered : Ahead(i)
    <2>1. CASE kind = "endpoint"
      <3> DEFINE T == {MaxChecks - statuses[j].start : j \in Considered}
      <3>1. T \subseteq Nat /\ T # {}
        BY <1>2, UptimeBounds
      <3>2. PICK n \in T : \A m \in T : n <= m
        BY <3>1, LeastOf
      <3>3. PICK i \in Considered : n = MaxChecks - statuses[i].start
        OBVIOUS
      <3>4. ASSUME NEW j \in Considered
            PROVE  statuses[j].start <= statuses[i].start
        <4>1. MaxChecks - statuses[i].start <= MaxChecks - statuses[j].start
          BY <3>2, <3>3
        <4>2. QED
          BY <4>1, <1>2, UptimeBounds
      <3>5. QED
        BY <2>1, <3>4
    <2>2. CASE kind # "endpoint"
      <3> DEFINE T == {Len(statuses) - j : j \in Considered}
      <3>1. T \subseteq Nat /\ T # {}
        BY <1>1
      <3>2. PICK n \in T : \A m \in T : n <= m
        BY <3>1, LeastOf
      <3>3. PICK i \in Considered : n = Len(statuses) - i
        OBVIOUS
      <3>4. ASSUME NEW j \in Considered
            PROVE  j <= i
        <4>1. Len(statuses) - i <= Len(statuses) - j
          BY <3>2, <3>3
        <4>2. QED
          BY <4>1, <1>1
      <3>5. QED
        BY <2>2, <3>4
    <2>3. QED
      BY <2>1, <2>2
  <1>4. LatestOf = CHOOSE i \in Considered : Ahead(i)
    BY DEF LatestOf
  <1>5. LatestOf \in Considered /\ Ahead(LatestOf)
    BY <1>3, <1>4
  <1>6. MostRecentStatus = statuses[LatestOf]
    BY DEF MostRecentStatus
  <1>7. QED
    BY <1>1, <1>5, <1>6

LEMMA MostRecentType ==
  ASSUME UptimeTypeOK
  PROVE  MostRecentStatus \in StatusRow \cup {Null}
  BY LatestIs DEF MostRecentStatus

-----------------------------------------------------------------------------
(* Checks that go forward.                                                  *)

Forward(old, t) ==
  /\ t.checker = old.checker /\ t.at \in StepsOf(old.checker)
  /\ old.at \in Posted \cup {"alert"} => t.at \in Posted \cup {"alert"}
  /\ old.at # "queued" => t.at # "queued"
  /\ t.at \in {"queued", "invoked"} => old.at \in {"queued", "invoked"}

\* No check goes back, and there may be new ones.
ChecksGo ==
  DOMAIN checks \subseteq DOMAIN checks' /\ \A c \in DOMAIN checks : Forward(checks[c], checks'[c])

\* One check goes forward, and the others stay.
Moves(c) == c \in DOMAIN checks /\ TaskGoes(c, checks'[c]) /\ Forward(checks[c], checks'[c])

\* Nothing but the checks, the count of fetches and of faults changes.
OnlyChecks == UNCHANGED <<kind, life, records, webhook>>

LEMMA StayForward ==
  ASSUME ChecksFit, NEW c \in DOMAIN checks
  PROVE  Forward(checks[c], checks[c])
  BY DEF ChecksFit, Forward

LEMMA MovesGo ==
  ASSUME UptimeTypes, NEW c, Moves(c)
  PROVE  /\ ChecksGo /\ checks' \in Seq(CheckTask) /\ Len(checks') = Len(checks)
         /\ DOMAIN checks' = DOMAIN checks
  BY StayForward DEF Moves, TaskGoes, ChecksGo, UptimeTypes

LEMMA GoKeeps ==
  ASSUME UptimeTypes, ChecksGo
  PROVE  /\ (web' = web) => DeliveriesFit'
         /\ (statuses' = statuses) => StatusesFit'
         /\ (requests' \subseteq requests) => RequestsFit'
  <1>1. ASSUME web' = web, NEW h \in Handler, web'[h] # Null
        PROVE  /\ web'[h].check \in DOMAIN checks' /\ checks'[web'[h].check].checker = "region"
               /\ checks'[web'[h].check].at \in Posted
               /\ web'[h].at # "begun" => web'[h].row \in RequestRow /\ web'[h].row.check = web'[h].check
    <2>1. PICK c : c = web[h].check
      OBVIOUS
    <2>2. /\ c \in DOMAIN checks /\ checks[c].checker = "region" /\ checks[c].at \in Posted
      BY <1>1, <2>1 DEF UptimeTypes, DeliveriesFit
    <2>3. /\ c \in DOMAIN checks' /\ checks'[c].checker = "region"
          /\ checks'[c].at \in StepsOf("region") /\ checks'[c].at \in Posted \cup {"alert"}
      BY <2>2 DEF ChecksGo, Forward
    <2>4. QED
      BY <1>1, <2>1, <2>3, StepsAre DEF UptimeTypes, DeliveriesFit
  <1>2. ASSUME statuses' = statuses, NEW i \in DOMAIN statuses'
        PROVE  /\ statuses'[i].check \in DOMAIN checks'
               /\ checks'[statuses'[i].check].at \in Posted \cup {"alert"}
               /\ statuses'[i].checker = checks'[statuses'[i].check].checker
    BY <1>2 DEF UptimeTypes, StatusesFit, ChecksGo, Forward
  <1>3. ASSUME requests' \subseteq requests, NEW r \in requests'
        PROVE  /\ r.check \in DOMAIN checks' /\ checks'[r.check].checker = "region"
               /\ checks'[r.check].at # "queued"
               /\ r.received => checks'[r.check].at \in Posted
    <2>1. /\ r.check \in DOMAIN checks /\ checks[r.check].checker = "region"
          /\ checks[r.check].at # "queued" /\ (r.received => checks[r.check].at \in Posted)
      BY <1>3 DEF UptimeTypes, RequestsFit
    <2>2. /\ r.check \in DOMAIN checks' /\ checks'[r.check].checker = "region"
          /\ checks'[r.check].at # "queued" /\ checks'[r.check].at \in StepsOf("region")
          /\ (r.received => checks'[r.check].at \in Posted \cup {"alert"})
      BY <2>1 DEF ChecksGo, Forward
    <2>3. QED
      BY <2>2, StepsAre
  <1>4. QED
    BY <1>1, <1>2, <1>3 DEF DeliveriesFit, StatusesFit, RequestsFit

LEMMA UnfetchedFinite ==
  ASSUME UptimeTypeOK
  PROVE  IsFiniteSet(Unfetched) /\ Cardinality(Unfetched) \in Nat
  <1>1. IsFiniteSet(1..Len(checks)) /\ Unfetched \subseteq 1..Len(checks)
    BY UptimeTyped, FS_Interval DEF Unfetched
  <1>2. QED
    BY <1>1, FS_Subset, FS_CardinalityType

LEMMA MovesFetches ==
  ASSUME UptimeTypes, NEW c, Moves(c)
  PROVE  /\ (fetches' = fetches) => FetchesLeft'
         /\ (/\ checks[c].at \in {"queued", "invoked"} /\ checks'[c].at \notin {"queued", "invoked"}
             /\ fetches' = fetches + 1)
              => FetchesLeft' /\ fetches + 1 <= MaxChecks
         /\ (kind' = kind) => ChecksFit'
  <1>1. /\ DOMAIN checks' = DOMAIN checks /\ Len(checks') = Len(checks)
        /\ \A d \in DOMAIN checks \ {c} : checks'[d] = checks[d]
        /\ c \in DOMAIN checks /\ Forward(checks[c], checks'[c])
    BY DEF Moves, TaskGoes
  <1>2. Unfetched' \subseteq Unfetched
    BY <1>1 DEF Unfetched, Forward
  <1>3. /\ UptimeTypeOK /\ IsFiniteSet(Unfetched) /\ Cardinality(Unfetched) \in Nat
        /\ fetches + Cardinality(Unfetched) <= Len(checks)
        /\ fetches \in Nat /\ Len(checks) \in Nat /\ Len(checks) <= MaxChecks /\ MaxChecks \in Nat
    BY UnfetchedFinite, UptimeTyped, UptimeBounds DEF UptimeTypes, FetchesLeft
  <1>4. ASSUME fetches' = fetches
        PROVE  FetchesLeft'
    <2>1. IsFiniteSet(Unfetched') /\ Cardinality(Unfetched') <= Cardinality(Unfetched)
      BY <1>2, <1>3, FS_Subset
    <2>2. Cardinality(Unfetched') \in Nat
      BY <2>1, FS_CardinalityType
    <2>3. fetches' + Cardinality(Unfetched') <= Len(checks')
      BY <1>1, <1>3, <1>4, <2>1, <2>2
    <2>4. QED
      BY <2>3 DEF FetchesLeft
  <1>5. ASSUME checks[c].at \in {"queued", "invoked"}, checks'[c].at \notin {"queued", "invoked"},
               fetches' = fetches + 1
        PROVE  FetchesLeft' /\ fetches + 1 <= MaxChecks
    <2>1. c \in Unfetched /\ Unfetched' \subseteq Unfetched \ {c}
      BY <1>1, <1>2, <1>5 DEF Unfetched
    <2>2. /\ IsFiniteSet(Unfetched \ {c}) /\ Cardinality(Unfetched \ {c}) = Cardinality(Unfetched) - 1
      BY <1>3, <2>1, FS_RemoveElement
    <2>3. IsFiniteSet(Unfetched') /\ Cardinality(Unfetched') <= Cardinality(Unfetched \ {c})
      BY <2>1, <2>2, FS_Subset
    <2>4. Cardinality(Unfetched') \in Nat
      BY <2>3, FS_CardinalityType
    <2>5. fetches' + Cardinality(Unfetched') <= Len(checks') /\ fetches + 1 <= MaxChecks
      BY <1>1, <1>3, <1>5, <2>2, <2>3, <2>4
    <2>6. QED
      BY <2>5 DEF FetchesLeft
  <1>6. (kind' = kind) => ChecksFit'
    BY <1>1 DEF UptimeTypes, ChecksFit, FitsKind, Forward
  <1>7. QED
    BY <1>4, <1>5, <1>6

LEMMA FetchFacts ==
  ASSUME UptimeTypes, NEW c \in DOMAIN checks, Fetch(c)
  PROVE  /\ Moves(c) /\ fetches' \in 0..MaxChecks /\ FetchesLeft' /\ OnlyChecks /\ failures' = failures
         /\ checks[c].at \in {"queued", "invoked"}
         /\ \/ checks'[c].at = (IF checks[c].checker = "local" THEN "fetched" ELSE "answer")
            \/ checks'[c].at = "done" /\ checks[c].checker = "local"
  <1> DEFINE old == checks[c]
             next == IF old.checker = "local" THEN "fetched" ELSE "answer"
  <1>1. /\ checks \in Seq(CheckTask) /\ old \in CheckTask /\ fetches \in 0..MaxChecks
        /\ Len(checks) <= MaxChecks
    BY UptimeTyped DEF UptimeTypes
  <1>2. /\ \/ old.checker = "local" /\ old.at = "queued"
           \/ old.checker = "region" /\ old.at = "invoked"
        /\ UNCHANGED <<kind, life, records, webhook, failures>>
    BY DEF Fetch, At
  <1>3. next \in TaskStep /\ next \in StepsOf(old.checker) /\ next \notin {"queued", "invoked"}
        /\ "done" \in StepsOf("local")
    BY <1>2, StepsAre DEF TaskStep
  <1>4. CASE /\ fetches' = fetches + 1
             /\ \E status \in {"success", "failure"} :
                  checks' = [checks EXCEPT ![c].status = status, ![c].start = fetches', ![c].at = next]
    <2>1. PICK status \in {"success", "failure"} :
             checks' = [checks EXCEPT ![c].status = status, ![c].start = fetches', ![c].at = next]
      BY <1>4
    <2>2. fetches + 1 \in 0..MaxChecks
      <3>1. /\ fetches + Cardinality(Unfetched) <= Len(checks) /\ c \in Unfetched
        BY <1>2 DEF UptimeTypes, FetchesLeft, Unfetched
      <3>2. IsFiniteSet(Unfetched) /\ Cardinality(Unfetched) \in Nat
        BY UnfetchedFinite DEF UptimeTypes
      <3>3. Cardinality(Unfetched) # 0
        BY <3>1, <3>2, FS_EmptySet
      <3>4. QED
        BY <1>1, <3>1, <3>2, <3>3, UptimeTyped, UptimeBounds DEF UptimeTypes
    <2>3. PICK t : t = TaskOf(old, next, fetches + 1, status, old.previous)
      OBVIOUS
    <2>4. t \in CheckTask /\ t.checker = old.checker /\ t.at = next
      BY <1>1, <1>3, <2>2, <2>3, TaskFields, TaskOfFields DEF Outcome
    <2>5. Replaced(checks', checks, c, t)
      BY <1>1, <1>3, <1>4, <2>1, <2>2, <2>3, FieldsPut DEF Outcome
    <2>6. TaskGoes(c, t)
      BY <2>5 DEF Replaced, TaskGoes
    <2>7. checks'[c] = t
      BY <2>6 DEF TaskGoes
    <2>8. Forward(old, t)
      BY <1>2, <1>3, <2>4 DEF Forward, Posted
    <2>9. Moves(c)
      BY <2>6, <2>7, <2>8 DEF Moves
    <2>10. FetchesLeft'
      BY <1>2, <1>3, <1>4, <2>4, <2>7, <2>9, MovesFetches
    <2>11. QED
      BY <1>2, <1>4, <2>2, <2>4, <2>7, <2>9, <2>10 DEF OnlyChecks
  <1>5. CASE fetches' = fetches /\ old.checker = "local" /\ End(c)
    <2>1. PICK t : t = TaskOf(old, "done", 0, "error", Null)
      OBVIOUS
    <2>2. TaskGoes(c, t)
      BY <1>1, <1>5, <2>1, EndPut
    <2>3. t.checker = old.checker /\ t.at = "done" /\ checks'[c] = t
      BY <2>1, <2>2 DEF TaskOf, TaskGoes
    <2>4. Moves(c)
      BY <1>2, <1>3, <1>5, <2>2, <2>3 DEF Moves, Forward, Posted
    <2>5. FetchesLeft'
      BY <1>5, <2>4, MovesFetches
    <2>6. QED
      BY <1>1, <1>2, <1>5, <2>3, <2>4, <2>5 DEF OnlyChecks
  <1>6. CASE /\ fetches' = fetches /\ old.checker # "local"
             /\ checks' = [checks EXCEPT ![c].status = "failure", ![c].at = next]
    <2>1. PICK t : t = TaskOf(old, next, old.start, "failure", old.previous)
      OBVIOUS
    <2>2. t \in CheckTask /\ t.checker = old.checker /\ t.at = next
      BY <1>1, <1>3, <2>1, TaskFields, TaskOfFields DEF Outcome
    <2>3. Replaced(checks', checks, c, t)
      BY <1>1, <1>3, <1>6, <2>1, FieldsPut DEF Outcome
    <2>4. TaskGoes(c, t)
      BY <2>3 DEF Replaced, TaskGoes
    <2>5. checks'[c] = t
      BY <2>4 DEF TaskGoes
    <2>6. Moves(c)
      BY <1>2, <1>3, <2>2, <2>4, <2>5 DEF Moves, Forward, Posted
    <2>7. FetchesLeft'
      BY <1>6, <2>6, MovesFetches
    <2>8. QED
      BY <1>1, <1>2, <1>6, <2>2, <2>5, <2>6, <2>7 DEF OnlyChecks
  <1>7. QED
    BY <1>4, <1>5, <1>6 DEF Fetch

LEMMA EndMoves ==
  ASSUME UptimeTypes, NEW c \in DOMAIN checks, End(c)
  PROVE  Moves(c) /\ checks'[c].at = "done"
  <1>1. checks \in Seq(CheckTask) /\ checks[c].checker \in Checker
    BY UptimeTyped, TaskFields DEF UptimeTypes
  <1>2. PICK t : t = TaskOf(checks[c], "done", 0, "error", Null)
    OBVIOUS
  <1>3. TaskGoes(c, t)
    BY <1>1, <1>2, EndPut
  <1>4. t.checker = checks[c].checker /\ t.at = "done" /\ checks'[c] = t
    BY <1>2, <1>3 DEF TaskOf, TaskGoes
  <1>5. t.at \in StepsOf(checks[c].checker)
    BY <1>1, <1>4, StepsAre DEF Checker
  <1>6. QED
    BY <1>3, <1>4, <1>5 DEF Moves, Forward, Posted

\* A check in a region goes on, and keeps the outcome of its fetch.
Passes(c, at) ==
  /\ Moves(c) /\ checks'[c].at = at
  /\ checks'[c].start = checks[c].start /\ checks'[c].status = checks[c].status

LEMMA GotoPasses ==
  ASSUME UptimeTypes, NEW c \in DOMAIN checks, checks[c].checker = "region",
         NEW at \in {"invoked", "answer", "posted", "accepted", "done"}, MoveTo(c, at),
         checks[c].at \in Posted => at \in Posted,
         at = "invoked" => checks[c].at = "queued"
  PROVE  Passes(c, at)
  <1>1. checks \in Seq(CheckTask) /\ at \in TaskStep
    BY UptimeTyped DEF UptimeTypes, TaskStep
  <1>2. PICK t : t = TaskOf(checks[c], at, checks[c].start, checks[c].status, checks[c].previous)
    OBVIOUS
  <1>3. TaskGoes(c, t)
    BY <1>1, <1>2, GotoPut
  <1>4. /\ t.checker = checks[c].checker /\ t.at = at /\ checks'[c] = t
        /\ t.start = checks[c].start /\ t.status = checks[c].status
    BY <1>2, <1>3 DEF TaskOf, TaskGoes
  <1>5. at \in StepsOf("region") /\ checks[c].at \in StepsOf("region")
    BY StepsAre DEF UptimeTypes, ChecksFit
  <1>6. Forward(checks[c], t)
    BY <1>4, <1>5, StepsAre DEF Forward, Posted
  <1>7. QED
    BY <1>3, <1>4, <1>6 DEF Passes, Moves

LEMMA SkipFacts ==
  ASSUME UptimeTypes, NEW c \in DOMAIN checks, Skip(c)
  PROVE  /\ Moves(c) /\ checks'[c].at = "done" /\ OnlyChecks /\ UNCHANGED <<fetches, failures>>
         /\ checks[c].at \in {"queued", "fetched", "read", "alert"}
         /\ checks[c].at = "alert" => StatusesOf(c) = {}
  <1>1. /\ End(c) /\ UNCHANGED <<kind, life, fetches, records, webhook, failures>>
        /\ \/ checks[c].at \in {"queued", "fetched", "read"}
           \/ checks[c].at = "alert" /\ StatusesOf(c) = {}
    BY DEF Skip
  <1>2. QED
    BY <1>1, EndMoves DEF OnlyChecks

LEMMA ReadFacts ==
  ASSUME UptimeTypes, NEW c \in DOMAIN checks, ReadPrevious(c)
  PROVE  /\ Moves(c) /\ checks'[c].at = "read" /\ OnlyChecks /\ UNCHANGED <<fetches, failures>>
         /\ checks[c].at \in {"queued", "fetched"} /\ checks[c].checker # "region"
  <1>1. /\ \/ checks[c].checker = "local" /\ checks[c].at = "fetched"
           \/ checks[c].checker \in {"badge", "api"} /\ checks[c].at = "queued"
        /\ checks' = [checks EXCEPT ![c].at = "read", ![c].previous = MostRecentStatus]
        /\ UNCHANGED <<kind, life, fetches, records, webhook, failures>>
    BY DEF ReadPrevious, At
  <1>2. /\ checks \in Seq(CheckTask) /\ checks[c] \in CheckTask
        /\ MostRecentStatus \in StatusRow \cup {Null}
    BY UptimeTyped, MostRecentType DEF UptimeTypes
  <1>3. PICK old : old = checks[c]
    OBVIOUS
  <1>4. PICK t : t = TaskOf(old, "read", old.start, old.status, MostRecentStatus)
    OBVIOUS
  <1>5. "read" \in TaskStep /\ old.start \in 0..MaxChecks /\ old.status \in Outcome
    BY <1>2, <1>3, TaskFields DEF TaskStep
  <1>6. Replaced(checks', checks, c, t)
    BY <1>1, <1>2, <1>3, <1>4, <1>5, FieldsPut
  <1>7. TaskGoes(c, t) /\ checks'[c] = t
    BY <1>6 DEF TaskGoes, Replaced
  <1>8. t.checker = checks[c].checker /\ t.at = "read"
    BY <1>3, <1>4 DEF TaskOf
  <1>9. "read" \in StepsOf(checks[c].checker)
    BY <1>1, StepsAre
  <1>10. Forward(checks[c], t)
    BY <1>1, <1>8, <1>9 DEF Forward, Posted
  <1>11. QED
    BY <1>1, <1>7, <1>8, <1>10 DEF Moves, OnlyChecks

\* A row for the check is created, and compared with the one before.
Records(c, status, previous) ==
  /\ \E row \in StatusRow :
        /\ row.check = c /\ row.start = checks[c].start /\ row.status = status
        /\ row.checker = checks[c].checker /\ statuses' = Append(statuses, row)
        /\ disturbed' = (disturbed \/ (row.checker # "api" /\ ~ InOrder(row, previous)))
  /\ life = "alive"

LEMMA RecordFacts ==
  ASSUME UptimeTypes, NEW c \in DOMAIN checks, NEW status \in Outcome, NEW previous,
         Record(c, status, previous), life = "alive"
  PROVE  Records(c, status, previous)
  <1> DEFINE row == [check |-> c, start |-> checks[c].start, status |-> status,
                     checker |-> checks[c].checker]
  <1>1. row \in StatusRow
    BY UptimeTyped, TaskFields, StatusOf DEF UptimeTypes
  <1>2. /\ statuses' = Append(statuses, row)
        /\ disturbed' = (disturbed \/ (row.checker # "api" /\ ~ InOrder(row, previous)))
    BY DEF Record
  <1>3. /\ row.check = c /\ row.start = checks[c].start /\ row.status = status
        /\ row.checker = checks[c].checker
    OBVIOUS
  <1> HIDE DEF row
  <1>4. QED
    BY <1>1, <1>2, <1>3 DEF Records

LEMMA CreateFacts ==
  ASSUME UptimeTypes, NEW c \in DOMAIN checks, NEW status \in Outcome, CreateStatus(c, status)
  PROVE  /\ Moves(c) /\ checks[c].at = "read" /\ Records(c, status, checks[c].previous)
         /\ UNCHANGED <<kind, life, fetches, alert, webhook, failures>>
         /\ IF Notify(c, status)
              THEN checks'[c].at = "alert" /\ checks'[c].status = status
              ELSE checks'[c].at = "done"
  <1>1. /\ checks[c].at = "read" /\ life = "alive" /\ Record(c, status, checks[c].previous)
        /\ UNCHANGED <<kind, life, fetches, alert, webhook, failures>>
        /\ IF Notify(c, status)
             THEN checks' = [checks EXCEPT ![c].at = "alert", ![c].status = status]
             ELSE End(c)
    BY DEF CreateStatus
  <1>2. Records(c, status, checks[c].previous)
    BY <1>1, RecordFacts
  <1>3. CASE ~ Notify(c, status)
    BY <1>1, <1>2, <1>3, EndMoves
  <1>4. CASE Notify(c, status)
    <2>1. checks \in Seq(CheckTask) /\ checks[c] \in CheckTask
      BY UptimeTyped DEF UptimeTypes
    <2>2. checks[c].checker \in {"local", "badge"}
      <3>1. checks[c].checker \in Checker /\ checks[c].checker # "api"
        BY <1>4, <2>1, TaskFields DEF Notify
      <3>2. checks[c].checker # "region"
        BY <1>1, StepsAre DEF UptimeTypes, ChecksFit
      <3>3. QED
        BY <3>1, <3>2 DEF Checker
    <2>3. PICK old : old = checks[c]
      OBVIOUS
    <2>4. PICK t : t = TaskOf(old, "alert", old.start, status, old.previous)
      OBVIOUS
    <2>5. "alert" \in TaskStep /\ old.start \in 0..MaxChecks /\ old.previous \in StatusRow \cup {Null}
      BY <2>1, <2>3, TaskFields DEF TaskStep
    <2>6. Replaced(checks', checks, c, t)
      <3>1. \A start \in 0..MaxChecks, previous \in StatusRow \cup {Null}, at \in TaskStep :
               Replaced([checks EXCEPT ![c].at = at, ![c].status = status], checks, c,
                        TaskOf(old, at, old.start, status, old.previous))
        BY <2>1, <2>3, FieldsPut
      <3>2. QED
        BY <1>1, <1>4, <2>4, <2>5, <3>1
    <2>7. TaskGoes(c, t) /\ checks'[c] = t
      BY <2>6 DEF TaskGoes, Replaced
    <2>8. t.checker = checks[c].checker /\ t.at = "alert" /\ t.status = status
      BY <2>3, <2>4 DEF TaskOf
    <2>9. "alert" \in StepsOf(checks[c].checker)
      BY <2>2, StepsAre
    <2>10. Forward(checks[c], t)
      BY <1>1, <2>8, <2>9 DEF Forward, Posted
    <2>11. QED
      BY <1>1, <1>2, <1>4, <2>7, <2>8, <2>10 DEF Moves
  <1>5. QED
    BY <1>3, <1>4

LEMMA AlertFacts ==
  ASSUME UptimeTypes, NEW c \in DOMAIN checks, Alert(c)
  PROVE  /\ Moves(c) /\ checks[c].at = "alert" /\ checks'[c].at = "done" /\ SendNotification(c)
         /\ UNCHANGED <<kind, life, fetches, statuses, webhook, failures>>
  BY EndMoves DEF Alert

LEMMA TaskFailsFacts ==
  ASSUME UptimeTypes, NEW c \in DOMAIN checks, TaskFails(c)
  PROVE  /\ Moves(c) /\ checks'[c].at = "done" /\ failures' \in 0..MaxFailures
         /\ checks[c].at \in {"queued", "fetched", "read", "alert"}
         /\ disturbed' = (disturbed \/ checks[c].at = "alert")
         /\ UNCHANGED <<kind, life, fetches, statuses, alert, webhook>>
  <1>1. failures \in 0..MaxFailures
    BY UptimeTyped DEF UptimeTypes
  <1>2. QED
    BY <1>1, EndMoves, UptimeBounds DEF TaskFails, Fails

LEMMA InvokeFacts ==
  ASSUME UptimeTypes, NEW c \in DOMAIN checks, InvokeLambda(c)
  PROVE  /\ Moves(c) /\ checks[c].checker = "region" /\ checks[c].at = "queued" /\ life = "alive"
         /\ \/ checks'[c].at = "invoked" /\ Passes(c, "invoked")
            \/ checks'[c].at = "done"
         /\ requests' = requests \cup {[check |-> c, pk |-> 0, received |-> FALSE]}
         /\ failures' \in 0..MaxFailures /\ UNCHANGED <<kind, life, fetches, records, web, twice>>
  <1>1. /\ checks[c].checker = "region" /\ checks[c].at = "queued" /\ life = "alive"
        /\ requests' = requests \cup {[check |-> c, pk |-> 0, received |-> FALSE]}
        /\ \/ MoveTo(c, "invoked") /\ UNCHANGED failures
           \/ End(c) /\ failures < MaxFailures /\ failures' = failures + 1
        /\ UNCHANGED <<kind, life, fetches, records, web, twice>>
    BY DEF InvokeLambda, At, Fails
  <1>2. failures \in 0..MaxFailures
    BY UptimeTyped DEF UptimeTypes
  <1>3. CASE MoveTo(c, "invoked") /\ UNCHANGED failures
    <2>1. Passes(c, "invoked")
      BY <1>1, <1>3, GotoPasses DEF Posted
    <2>2. QED
      BY <1>1, <1>2, <1>3, <2>1 DEF Passes
  <1>4. CASE End(c) /\ failures < MaxFailures /\ failures' = failures + 1
    <2>1. Moves(c) /\ checks'[c].at = "done"
      BY <1>4, EndMoves
    <2>2. QED
      BY <1>1, <1>2, <1>4, <2>1, UptimeBounds
  <1>5. QED
    BY <1>1, <1>3, <1>4

LEMMA PostFacts ==
  ASSUME UptimeTypes, NEW c \in DOMAIN checks, NEW h \in Handler, PostToWebhook(h, c)
  PROVE  /\ Passes(c, "posted") /\ checks[c].checker = "region" /\ checks[c].at = "answer"
         /\ web[h] = Null /\ WebGoes(h, web'[h]) /\ web'[h] # Null
         /\ web'[h].check = c /\ web'[h].at = "begun"
         /\ UNCHANGED <<kind, life, fetches, records, requests, twice, failures>>
  <1> DEFINE d == [check |-> c, at |-> "begun", row |-> Null, previous |-> Null]
  <1>1. /\ checks[c].checker = "region" /\ checks[c].at = "answer" /\ web[h] = Null
        /\ MoveTo(c, "posted") /\ web' = [web EXCEPT ![h] = d]
        /\ UNCHANGED <<kind, life, fetches, records, requests, twice, failures>>
    BY DEF PostToWebhook, At
  <1>2. Passes(c, "posted")
    BY <1>1, GotoPasses DEF Posted
  <1>3. c \in Check /\ web \in [Handler -> {Null} \cup Delivery]
    BY UptimeTyped DEF UptimeTypes
  <1>4. d \in Delivery
    BY <1>3, DeliveryOf DEF WebStep
  <1>5. d.check = c /\ d.at = "begun" /\ d # Null
    BY <1>4, DeliveryFields
  <1> HIDE DEF d
  <1>6. WebGoes(h, d)
    BY <1>1, <1>3, <1>4, WebPut
  <1>7. web'[h] = d
    BY <1>6 DEF WebGoes
  <1>8. QED
    BY <1>1, <1>2, <1>5, <1>6, <1>7

LEMMA PostAgainFacts ==
  ASSUME UptimeTypes, NEW c \in DOMAIN checks, PostAgain(c)
  PROVE  /\ checks[c].checker = "region" /\ checks[c].at = "posted"
         /\ Passes(c, "answer") \/ Passes(c, "done")
         /\ OnlyChecks /\ fetches' = fetches /\ failures' \in 0..MaxFailures
  <1>1. /\ checks[c].checker = "region" /\ checks[c].at = "posted"
        /\ MoveTo(c, "answer") \/ MoveTo(c, "done")
        /\ failures < MaxFailures /\ failures' = failures + 1
        /\ UNCHANGED <<kind, life, fetches, records, webhook>>
    BY DEF PostAgain, At, Fails
  <1>2. Passes(c, "answer") \/ Passes(c, "done")
    BY <1>1, GotoPasses DEF Posted
  <1>3. failures' \in 0..MaxFailures
    BY <1>1, UptimeTyped, UptimeBounds DEF UptimeTypes
  <1>4. QED
    BY <1>1, <1>2, <1>3 DEF OnlyChecks

\* Checks are queued behind those there are.
Queues ==
  /\ checks' \in Seq(CheckTask) /\ DOMAIN checks \subseteq DOMAIN checks'
  /\ Len(checks') <= MaxChecks
  /\ \A c \in DOMAIN checks : checks'[c] = checks[c]
  /\ \A c \in DOMAIN checks' \ DOMAIN checks :
        checks'[c].at = "queued" /\ FitsKind(checks'[c].checker)

LEMMA QueueMoves ==
  ASSUME UptimeTypes, NEW new \in Seq(CheckTask), Queue(new),
         \A i \in DOMAIN new : new[i].at = "queued" /\ FitsKind(new[i].checker)
  PROVE  Queues /\ Len(checks') = Len(checks) + Len(new)
  <1> DEFINE n == Len(checks)
             m == Len(new)
  <1>1. checks \in Seq(CheckTask) /\ n \in Nat /\ DOMAIN checks = 1..n
        /\ \A c \in DOMAIN checks : checks[c] \in CheckTask
    BY UptimeTyped DEF UptimeTypes
  <1>2. checks' = checks \o new /\ n + m <= MaxChecks
    BY DEF Queue
  <1>3. m \in Nat /\ DOMAIN new = 1..m /\ \A i \in 1..m : new[i] \in CheckTask
    OBVIOUS
  <1>4. /\ checks \o new \in Seq(CheckTask) /\ Len(checks \o new) = n + m
        /\ \A i \in 1..(n + m) : (checks \o new)[i] = IF i <= n THEN checks[i] ELSE new[i - n]
    BY <1>1, ConcatProperties
  <1>5. checks' \in Seq(CheckTask) /\ Len(checks') = n + m /\ DOMAIN checks' = 1..(n + m)
        /\ \A i \in 1..(n + m) : checks'[i] = IF i <= n THEN checks[i] ELSE new[i - n]
    BY <1>2, <1>3, <1>4
  <1>6. \A c \in DOMAIN checks : c \in DOMAIN checks' /\ checks'[c] = checks[c]
    <2> SUFFICES ASSUME NEW c \in 1..n
                 PROVE  c \in 1..(n + m) /\ checks'[c] = checks[c]
      BY <1>1, <1>5
    <2>1. c \in 1..(n + m) /\ c <= n
      BY <1>1, <1>3
    <2>2. QED
      BY <1>5, <2>1
  <1>7. \A c \in DOMAIN checks' \ DOMAIN checks :
           checks'[c].at = "queued" /\ FitsKind(checks'[c].checker)
    <2> SUFFICES ASSUME NEW c \in 1..(n + m), c \notin 1..n
                 PROVE  checks'[c].at = "queued" /\ FitsKind(checks'[c].checker)
      BY <1>1, <1>5
    <2>1. ~(c <= n) /\ c - n \in 1..m
      BY <1>1, <1>3
    <2>2. checks'[c] = new[c - n]
      BY <1>5, <2>1
    <2>3. QED
      BY <1>3, <2>1, <2>2
  <1>8. QED
    BY <1>2, <1>5, <1>6, <1>7 DEF Queues

LEMMA NewCheckFacts ==
  ASSUME NEW checker \in Checker
  PROVE  /\ NewCheck(checker) \in CheckTask /\ NewCheck(checker).at = "queued"
         /\ NewCheck(checker).checker = checker
  BY UptimeBounds DEF NewCheck, CheckTask, Outcome

LEMMA QueueFetches ==
  ASSUME UptimeTypes, Queues, fetches' = fetches, NEW k \in Nat, Len(checks') = Len(checks) + k
  PROVE  FetchesLeft'
  <1> DEFINE n == Len(checks)
             added == (n + 1)..(n + k)
  <1>1. /\ UptimeTypeOK /\ n \in Nat /\ DOMAIN checks = 1..n /\ fetches \in Nat
        /\ IsFiniteSet(Unfetched) /\ Cardinality(Unfetched) \in Nat
        /\ fetches + Cardinality(Unfetched) <= n
    BY UptimeTyped, UnfetchedFinite DEF UptimeTypes, FetchesLeft
  <1>2. DOMAIN checks' = 1..(n + k)
    BY DEF Queues
  <1>3. Unfetched' \subseteq Unfetched \cup added
    <2> SUFFICES ASSUME NEW c \in Unfetched', c \notin added
                 PROVE  c \in Unfetched
      OBVIOUS
    <2>1. c \in 1..(n + k) /\ checks'[c].at \in {"queued", "invoked"}
      BY <1>2 DEF Unfetched
    <2>2. c \in DOMAIN checks
      BY <1>1, <2>1
    <2>3. QED
      BY <2>1, <2>2 DEF Unfetched, Queues
  <1>4. IsFiniteSet(added) /\ Cardinality(added) = k
    <2>1. /\ n + 1 \in Int /\ n + k \in Int
          /\ (IF n + 1 > n + k THEN 0 ELSE (n + k) - (n + 1) + 1) = k
      BY <1>1
    <2>2. QED
      BY <2>1, FS_Interval
  <1> HIDE DEF added
  <1>5. /\ IsFiniteSet(Unfetched \cup added)
        /\ Cardinality(Unfetched \cup added)
             = Cardinality(Unfetched) + Cardinality(added) - Cardinality(Unfetched \cap added)
    BY <1>1, <1>4, FS_Union
  <1>6. Cardinality(Unfetched \cap added) \in Nat
    <2>1. IsFiniteSet(Unfetched \cap added)
      BY <1>1, FS_Subset
    <2>2. QED
      BY <2>1, FS_CardinalityType
  <1>7. IsFiniteSet(Unfetched') /\ Cardinality(Unfetched') <= Cardinality(Unfetched \cup added)
    BY <1>3, <1>5, FS_Subset
  <1>8. Cardinality(Unfetched') \in Nat
    BY <1>7, FS_CardinalityType
  <1>9. fetches' + Cardinality(Unfetched') <= Len(checks')
    BY <1>1, <1>4, <1>5, <1>6, <1>7, <1>8
  <1>10. QED
    BY <1>9 DEF FetchesLeft

LEMMA CheckAllFacts ==
  ASSUME UptimeTypes, CheckAllStatusInterval
  PROVE  Queues /\ FetchesLeft' /\ UNCHANGED <<kind, life, fetches, records, webhook, failures>>
  <1>1. UNCHANGED <<kind, life, fetches, records, webhook, failures>>
    BY DEF CheckAllStatusInterval
  <1>2. PICK a \in Checker, b \in Checker : Queue(<<NewCheck(a), NewCheck(b)>>) /\ FitsKind(a) /\ FitsKind(b)
    BY DEF CheckAllStatusInterval, FitsKind, Checker
  <1>3. PICK x \in CheckTask, y \in CheckTask :
           x = NewCheck(a) /\ y = NewCheck(b) /\ x.at = "queued" /\ y.at = "queued"
           /\ FitsKind(x.checker) /\ FitsKind(y.checker)
    BY <1>2, NewCheckFacts
  <1>4. Queue(<<x, y>>)
    BY <1>2, <1>3
  <1>5. /\ <<x, y>> \in Seq(CheckTask) /\ Len(<<x, y>>) = 2
        /\ \A i \in DOMAIN <<x, y>> : <<x, y>>[i].at = "queued" /\ FitsKind(<<x, y>>[i].checker)
    BY <1>3
  <1>6. Queues /\ Len(checks') = Len(checks) + 2
    BY <1>4, <1>5, QueueMoves
  <1>7. FetchesLeft'
    BY <1>1, <1>6, QueueFetches
  <1>8. QED
    BY <1>1, <1>6, <1>7

LEMMA AddFacts ==
  ASSUME UptimeTypes, Add
  PROVE  /\ checks' = checks \/ Queues
         /\ FetchesLeft' /\ life = "absent" /\ life' = "alive"
         /\ UNCHANGED <<kind, fetches, records, webhook, failures>>
  <1>1. /\ life = "absent" /\ life' = "alive" /\ UNCHANGED <<kind, fetches, records, webhook, failures>>
        /\ IF kind = "endpoint" THEN UNCHANGED checks ELSE Queue(<<NewCheck("badge")>>)
    BY DEF Add
  <1>2. CASE checks' = checks
    BY <1>1, <1>2 DEF UptimeTypes, FetchesLeft, Unfetched
  <1>3. CASE kind # "endpoint" /\ Queue(<<NewCheck("badge")>>)
    <2>1. PICK x \in CheckTask : x = NewCheck("badge") /\ x.at = "queued" /\ FitsKind(x.checker)
      BY <1>3, NewCheckFacts DEF Checker, FitsKind
    <2>2. /\ <<x>> \in Seq(CheckTask) /\ Len(<<x>>) = 1 /\ Queue(<<x>>)
          /\ \A i \in DOMAIN <<x>> : <<x>>[i].at = "queued" /\ FitsKind(<<x>>[i].checker)
      BY <1>3, <2>1
    <2>3. Queues /\ Len(checks') = Len(checks) + 1
      BY <2>2, QueueMoves
    <2>4. FetchesLeft'
      BY <1>1, <2>3, QueueFetches
    <2>5. QED
      BY <1>1, <2>3, <2>4
  <1>4. QED
    BY <1>1, <1>2, <1>3

LEMMA QueuesGo ==
  ASSUME UptimeTypes, Queues, kind' = kind
  PROVE  ChecksGo /\ ChecksFit'
  <1>1. ChecksGo
    BY StayForward DEF UptimeTypes, Queues, ChecksGo
  <1>2. ASSUME NEW c \in DOMAIN checks'
        PROVE  FitsKind(checks'[c].checker) /\ checks'[c].at \in StepsOf(checks'[c].checker)
    <2>1. CASE c \in DOMAIN checks
      BY <2>1 DEF UptimeTypes, ChecksFit, Queues
    <2>2. CASE c \notin DOMAIN checks
      <3>1. checks'[c].at = "queued" /\ FitsKind(checks'[c].checker)
        BY <2>2 DEF Queues
      <3>2. "queued" \in StepsOf(checks'[c].checker)
        BY <3>1, StepsAre DEF FitsKind
      <3>3. QED
        BY <3>1, <3>2
    <2>3. QED
      BY <2>1, <2>2
  <1>3. ChecksFit'
    BY <1>2 DEF ChecksFit, FitsKind
  <1>4. QED
    BY <1>1, <1>3

-----------------------------------------------------------------------------
(* The webhook.                                                             *)

DeliveryAs(c, at, row, previous) == [check |-> c, at |-> at, row |-> row, previous |-> previous]

LEMMA DeliveryAsFields ==
  ASSUME NEW c, NEW at, NEW row, NEW previous
  PROVE  /\ DeliveryAs(c, at, row, previous).check = c /\ DeliveryAs(c, at, row, previous).at = at
         /\ DeliveryAs(c, at, row, previous).row = row
         /\ DeliveryAs(c, at, row, previous).previous = previous
         /\ \A new : [DeliveryAs(c, at, row, previous) EXCEPT !.at = new] = DeliveryAs(c, new, row, previous)
         /\ \A new : [DeliveryAs(c, at, row, previous) EXCEPT !.row = new] = DeliveryAs(c, at, new, previous)
         /\ \A new : [DeliveryAs(c, at, row, previous) EXCEPT !.previous = new] = DeliveryAs(c, at, row, new)
  BY DEF DeliveryAs

\* One element of a function of deliveries is another.
Delivered(g, f, h, d) ==
  /\ g \in [Handler -> {Null} \cup Delivery] /\ d \in Delivery /\ g[h] = d
  /\ \A k \in Handler \ {h} : g[k] = f[k]

LEMMA DeliveryPut ==
  ASSUME NEW f \in [Handler -> {Null} \cup Delivery], NEW h \in Handler, NEW old \in Delivery,
         old = f[h]
  PROVE  /\ \A at \in WebStep :
              Delivered([f EXCEPT ![h].at = at], f, h,
                        DeliveryAs(old.check, at, old.row, old.previous))
         /\ \A row \in RequestRow \cup {Null} :
              Delivered([f EXCEPT ![h].row = row], f, h,
                        DeliveryAs(old.check, old.at, row, old.previous))
         /\ \A previous \in StatusRow \cup {Null} :
              Delivered([f EXCEPT ![h].previous = previous], f, h,
                        DeliveryAs(old.check, old.at, old.row, previous))
  <1>1. ASSUME NEW d \in Delivery
        PROVE  Delivered([f EXCEPT ![h] = d], f, h, d)
    BY DEF Delivered
  <1>2. /\ old.check \in Check /\ old.at \in WebStep /\ old.row \in RequestRow \cup {Null}
        /\ old.previous \in StatusRow \cup {Null}
    BY DeliveryFields
  <1>3. ASSUME NEW at \in WebStep
        PROVE  Delivered([f EXCEPT ![h].at = at], f, h,
                         DeliveryAs(old.check, at, old.row, old.previous))
    <2>1. [old EXCEPT !.at = at] = DeliveryAs(old.check, at, old.row, old.previous)
      BY DEF DeliveryAs, Delivery
    <2>2. DeliveryAs(old.check, at, old.row, old.previous) \in Delivery
      BY <1>2, DeliveryOf DEF DeliveryAs
    <2>3. QED
      BY <1>1, <2>1, <2>2
  <1>4. ASSUME NEW row \in RequestRow \cup {Null}
        PROVE  Delivered([f EXCEPT ![h].row = row], f, h,
                         DeliveryAs(old.check, old.at, row, old.previous))
    <2>1. [old EXCEPT !.row = row] = DeliveryAs(old.check, old.at, row, old.previous)
      BY DEF DeliveryAs, Delivery
    <2>2. DeliveryAs(old.check, old.at, row, old.previous) \in Delivery
      BY <1>2, DeliveryOf DEF DeliveryAs
    <2>3. QED
      BY <1>1, <2>1, <2>2
  <1>5. ASSUME NEW previous \in StatusRow \cup {Null}
        PROVE  Delivered([f EXCEPT ![h].previous = previous], f, h,
                         DeliveryAs(old.check, old.at, old.row, previous))
    <2>1. [old EXCEPT !.previous = previous] = DeliveryAs(old.check, old.at, old.row, previous)
      BY DEF DeliveryAs, Delivery
    <2>2. DeliveryAs(old.check, old.at, old.row, previous) \in Delivery
      BY <1>2, DeliveryOf DEF DeliveryAs
    <2>3. QED
      BY <1>1, <2>1, <2>2
  <1>6. QED
    BY <1>3, <1>4, <1>5

LEMMA DeliveriesPut ==
  ASSUME NEW f \in [Handler -> {Null} \cup Delivery], NEW h \in Handler, NEW old \in Delivery,
         old = f[h], NEW at \in WebStep, NEW row \in RequestRow, NEW previous \in StatusRow \cup {Null}
  PROVE  Delivered([f EXCEPT ![h].at = at, ![h].row = row, ![h].previous = previous], f, h,
                   DeliveryAs(old.check, at, row, previous))
  <1> DEFINE a == [f EXCEPT ![h].at = at]
             b == [a EXCEPT ![h].row = row]
             p == [b EXCEPT ![h].previous = previous]
  <1>1. PICK u : u = DeliveryAs(old.check, at, old.row, old.previous)
    OBVIOUS
  <1>2. PICK v : v = DeliveryAs(old.check, at, row, old.previous)
    OBVIOUS
  <1>3. /\ u.check = old.check /\ u.at = at /\ u.row = old.row /\ u.previous = old.previous
        /\ v.check = old.check /\ v.at = at /\ v.row = row /\ v.previous = old.previous
    BY <1>1, <1>2, DeliveryAsFields
  <1>4. Delivered(a, f, h, u)
    BY <1>1, DeliveryPut
  <1> HIDE DEF a
  <1>5. a \in [Handler -> {Null} \cup Delivery] /\ u \in Delivery /\ u = a[h]
    BY <1>4 DEF Delivered
  <1>6. Delivered(b, a, h, DeliveryAs(u.check, u.at, row, u.previous))
    BY <1>5, DeliveryPut
  <1>7. Delivered(b, a, h, v)
    BY <1>2, <1>3, <1>6
  <1> HIDE DEF b
  <1>8. b \in [Handler -> {Null} \cup Delivery] /\ v \in Delivery /\ v = b[h]
    BY <1>7 DEF Delivered
  <1>9. Delivered(p, b, h, DeliveryAs(v.check, v.at, v.row, previous))
    BY <1>8, DeliveryPut
  <1>10. Delivered(p, b, h, DeliveryAs(old.check, at, row, previous))
    BY <1>3, <1>9
  <1> HIDE DEF p
  <1>11. Delivered(p, f, h, DeliveryAs(old.check, at, row, previous))
    BY <1>4, <1>7, <1>10 DEF Delivered
  <1>12. QED
    BY <1>11 DEF a, b, p

LEMMA RowPut ==
  ASSUME NEW f \in [Handler -> {Null} \cup Delivery], NEW h \in Handler, NEW old \in Delivery,
         old = f[h], NEW r \in RequestRow, old.row = r, NEW at \in WebStep, NEW pk \in 0..1
  PROVE  Delivered([f EXCEPT ![h].at = at, ![h].row.pk = pk], f, h,
                   DeliveryAs(old.check, at, [check |-> r.check, pk |-> pk, received |-> r.received],
                              old.previous))
  <1> DEFINE a == [f EXCEPT ![h].at = at]
             b == [a EXCEPT ![h].row.pk = pk]
             s == [check |-> r.check, pk |-> pk, received |-> r.received]
  <1>1. PICK u : u = DeliveryAs(old.check, at, old.row, old.previous)
    OBVIOUS
  <1>2. u.check = old.check /\ u.at = at /\ u.row = r /\ u.previous = old.previous
    BY <1>1, DeliveryAsFields
  <1>3. Delivered(a, f, h, u)
    BY <1>1, DeliveryPut
  <1> HIDE DEF a
  <1>4. a \in [Handler -> {Null} \cup Delivery] /\ u \in Delivery /\ u = a[h]
    BY <1>3 DEF Delivered
  <1>5. s \in RequestRow
    BY RequestFields, RequestOf
  <1>6. [r EXCEPT !.pk = pk] = s
    BY DEF RequestRow
  <1>7. b = [a EXCEPT ![h].row = s]
    BY <1>2, <1>4, <1>6
  <1> HIDE DEF s
  <1>8. Delivered([a EXCEPT ![h].row = s], a, h, DeliveryAs(u.check, u.at, s, u.previous))
    BY <1>4, <1>5, DeliveryPut
  <1>9. Delivered(b, a, h, DeliveryAs(old.check, at, s, old.previous))
    BY <1>2, <1>7, <1>8
  <1> HIDE DEF b
  <1>10. Delivered(b, f, h, DeliveryAs(old.check, at, s, old.previous))
    BY <1>3, <1>9 DEF Delivered
  <1>11. QED
    BY <1>10 DEF a, b, s

\* A request goes on to another step.
Continues(h, at) ==
  /\ WebGoes(h, web'[h]) /\ web'[h] # Null /\ web'[h].at = at
  /\ web'[h].check = web[h].check /\ web'[h].row = web[h].row
  /\ web'[h].previous = web[h].previous

\* A request ends, and its function learns how if it still waits.
Responds(h, at) ==
  /\ WebGoes(h, Null)
  /\ IF checks[web[h].check].at = "posted" THEN Passes(web[h].check, at) ELSE checks' = checks

LEMMA StepContinues ==
  ASSUME UptimeTypes, NEW h \in Handler, web[h] # Null, NEW at \in WebStep, Step(h, at)
  PROVE  Continues(h, at)
  <1>1. web \in [Handler -> {Null} \cup Delivery]
    BY UptimeTyped DEF UptimeTypes
  <1>2. PICK d : d = DeliveryAs(web[h].check, at, web[h].row, web[h].previous)
    OBVIOUS
  <1>3. WebGoes(h, d)
    BY <1>1, <1>2, StepPut DEF DeliveryAs
  <1>4. d \in Delivery /\ d # Null
    <2>1. web[h] \in Delivery
      BY <1>1
    <2>2. QED
      BY <1>2, <2>1, DeliveryFields, DeliveryOf DEF DeliveryAs
  <1>5. web'[h] = d /\ d.at = at /\ d.check = web[h].check /\ d.row = web[h].row
        /\ d.previous = web[h].previous
    BY <1>2, <1>3, DeliveryAsFields DEF WebGoes
  <1>6. QED
    BY <1>3, <1>4, <1>5 DEF Continues

LEMMA RespondFacts ==
  ASSUME UptimeTypes, NEW h \in Handler, web[h] # Null, NEW at \in {"accepted", "answer"},
         Respond(h, at)
  PROVE  Responds(h, at)
  <1>1. web \in [Handler -> {Null} \cup Delivery]
    BY UptimeTyped DEF UptimeTypes
  <1>2. WebGoes(h, Null)
    BY <1>1, WebPut DEF Respond
  <1>3. PICK c \in DOMAIN checks : c = web[h].check /\ checks[c].checker = "region"
    BY DEF UptimeTypes, DeliveriesFit
  <1>4. CASE checks[c].at = "posted"
    <2>1. MoveTo(c, at)
      BY <1>3, <1>4 DEF Respond
    <2>2. Passes(c, at)
      BY <1>3, <1>4, <2>1, GotoPasses DEF Posted
    <2>3. QED
      BY <1>2, <1>3, <1>4, <2>2 DEF Responds
  <1>5. CASE checks[c].at # "posted"
    BY <1>2, <1>3, <1>5 DEF Respond, Responds
  <1>6. QED
    BY <1>4, <1>5

\* Other requests about the same check, at work.
Others(h) == {g \in Handler \ {h} : web[g] # Null /\ web[g].check = web[h].check /\ web[g].at # "begun"}

\* A request has found its row.
Loads(h, r) ==
  /\ WebGoes(h, web'[h]) /\ web'[h] # Null /\ web'[h].at = "read"
  /\ web'[h].check = web[h].check /\ web'[h].row = r /\ web'[h].previous = MostRecentStatus
  /\ checks' = checks
  /\ twice' = IF Others(h) = {} THEN twice ELSE twice \cup {web[h].check}

LEMMA LoadFacts ==
  ASSUME UptimeTypes, NEW h \in Handler, LoadRequest(h)
  PROVE  /\ web[h] # Null /\ web[h].at = "begun"
         /\ UNCHANGED <<kind, life, fetches, records, requests, failures>>
         /\ \/ OpenRequests(web[h].check) = {} /\ Responds(h, "accepted") /\ twice' = twice
            \/ \E r \in OpenRequests(web[h].check) : Loads(h, r)
  <1> DEFINE c == web[h].check
  <1>1. /\ web[h] # Null /\ web[h].at = "begun"
        /\ UNCHANGED <<kind, life, fetches, records, requests, failures>>
    BY DEF LoadRequest, Handles
  <1>2. CASE OpenRequests(c) = {} /\ Respond(h, "accepted") /\ UNCHANGED twice
    BY <1>1, <1>2, RespondFacts
  <1>3. ASSUME NEW r \in OpenRequests(c),
               web' = [web EXCEPT ![h].at = "read", ![h].row = r, ![h].previous = MostRecentStatus],
               twice' = IF Others(h) = {} THEN twice ELSE twice \cup {c},
               UNCHANGED checks
        PROVE  Loads(h, r)
    <2>1. /\ web \in [Handler -> {Null} \cup Delivery] /\ web[h] \in Delivery
          /\ MostRecentStatus \in StatusRow \cup {Null} /\ r \in RequestRow
      BY <1>1, UptimeTyped, MostRecentType DEF UptimeTypes, OpenRequests
    <2>2. PICK old \in Delivery : old = web[h]
      BY <2>1
    <2>3. PICK d : d = DeliveryAs(old.check, "read", r, MostRecentStatus)
      OBVIOUS
    <2>4. "read" \in WebStep
      BY DEF WebStep
    <2>5. Delivered(web', web, h, d)
      BY <1>3, <2>1, <2>2, <2>3, <2>4, DeliveriesPut
    <2>6. d.check = old.check /\ d.at = "read" /\ d.row = r /\ d.previous = MostRecentStatus
      BY <2>3, DeliveryAsFields
    <2>7. d \in Delivery /\ d # Null /\ WebGoes(h, d) /\ web'[h] = d
      BY <2>5, DeliveryFields DEF Delivered, WebGoes
    <2>8. QED
      BY <1>3, <2>2, <2>6, <2>7 DEF Loads
  <1>4. \/ OpenRequests(c) = {} /\ Respond(h, "accepted") /\ UNCHANGED twice
        \/ \E r \in OpenRequests(c) :
             /\ web' = [web EXCEPT ![h].at = "read", ![h].row = r, ![h].previous = MostRecentStatus]
             /\ twice' = IF Others(h) = {} THEN twice ELSE twice \cup {c}
             /\ UNCHANGED checks
    BY DEF LoadRequest, Others
  <1>5. QED
    BY <1>1, <1>2, <1>3, <1>4

LEMMA AnswerFacts ==
  ASSUME UptimeTypes, NEW h \in Handler, RecordAnswer(h)
  PROVE  /\ web[h] # Null /\ web[h].at = "read"
         /\ UNCHANGED <<kind, life, checks, fetches, alert, requests, twice, failures>>
         /\ \/ /\ Records(web[h].check, checks[web[h].check].status, web[h].previous)
               /\ Continues(h, "delete")
            \/ /\ Continues(h, "except") /\ UNCHANGED <<statuses, disturbed>>
               /\ life = "alive" => ~ checks[web[h].check].start > 0
  <1>1. /\ web[h] # Null /\ web[h].at = "read"
        /\ UNCHANGED <<kind, life, checks, fetches, alert, requests, twice, failures>>
    BY DEF RecordAnswer, Handles
  <1>2. PICK c \in DOMAIN checks : c = web[h].check
    BY <1>1 DEF UptimeTypes, DeliveriesFit
  <1>3. checks[c].status \in Outcome /\ "delete" \in WebStep /\ "except" \in WebStep
    BY UptimeTyped, TaskFields DEF UptimeTypes, WebStep
  <1>4. CASE /\ life = "alive" /\ checks[c].start > 0
             /\ Record(c, checks[c].status, web[h].previous) /\ Step(h, "delete")
    BY <1>1, <1>2, <1>3, <1>4, RecordFacts, StepContinues
  <1>5. CASE /\ ~ (life = "alive" /\ checks[c].start > 0)
             /\ Step(h, "except") /\ UNCHANGED <<statuses, disturbed>>
    BY <1>1, <1>2, <1>3, <1>5, StepContinues
  <1>6. QED
    BY <1>2, <1>4, <1>5 DEF RecordAnswer

LEMMA DeleteFacts ==
  ASSUME UptimeTypes, NEW h \in Handler, DeleteRequest(h)
  PROVE  /\ web[h] # Null /\ web[h].at = "delete" /\ requests' = requests \ {web[h].row}
         /\ UNCHANGED <<kind, life, fetches, records, twice, failures>>
         /\ IF Changed(checks[web[h].check].status, web[h].previous)
              THEN Continues(h, "alert") /\ checks' = checks
              ELSE Responds(h, "accepted")
  <1>1. /\ web[h] # Null /\ web[h].at = "delete" /\ requests' = requests \ {web[h].row}
        /\ UNCHANGED <<kind, life, fetches, records, twice, failures>>
        /\ IF Changed(checks[web[h].check].status, web[h].previous)
             THEN Step(h, "alert") /\ UNCHANGED checks
             ELSE Respond(h, "accepted")
    BY DEF DeleteRequest, Handles
  <1>2. "alert" \in WebStep
    BY DEF WebStep
  <1>3. QED
    BY <1>1, <1>2, StepContinues, RespondFacts

LEMMA AlertOfFacts ==
  ASSUME UptimeTypes, NEW h \in Handler, AlertOfAnswer(h)
  PROVE  /\ web[h] # Null /\ web[h].at = "alert" /\ SendNotification(web[h].check)
         /\ Responds(h, "accepted")
         /\ UNCHANGED <<kind, life, fetches, statuses, requests, twice, failures>>
  BY RespondFacts DEF AlertOfAnswer, Handles

LEMMA AlertFailsFacts ==
  ASSUME UptimeTypes, NEW h \in Handler, AlertFails(h)
  PROVE  /\ web[h] # Null /\ web[h].at = "alert"
         /\ WebGoes(h, web'[h]) /\ web'[h] # Null /\ web'[h].at = "except"
         /\ web'[h].check = web[h].check
         /\ web'[h].row = [check |-> web[h].check, pk |-> 1, received |-> web[h].row.received]
         /\ disturbed' = TRUE /\ twice' = twice \cup {web[h].check} /\ failures' \in 0..MaxFailures
         /\ UNCHANGED <<kind, life, checks, fetches, statuses, alert, requests>>
  <1>1. /\ web[h] # Null /\ web[h].at = "alert" /\ disturbed' = TRUE
        /\ web' = [web EXCEPT ![h].at = "except", ![h].row.pk = 1]
        /\ twice' = twice \cup {web[h].check}
        /\ UNCHANGED <<kind, life, checks, fetches, statuses, alert, requests>>
        /\ failures' = failures
    BY DEF AlertFails, Handles
  <1>2. /\ web \in [Handler -> {Null} \cup Delivery] /\ web[h] \in Delivery
        /\ web[h].row \in RequestRow /\ web[h].row.check = web[h].check /\ failures \in 0..MaxFailures
    BY <1>1, UptimeTyped DEF UptimeTypes, DeliveriesFit
  <1>3. failures' \in 0..MaxFailures
    BY <1>1, <1>2, UptimeBounds
  <1>4. PICK old \in Delivery, r \in RequestRow : old = web[h] /\ r = old.row
    BY <1>2
  <1>5. PICK s : s = [check |-> r.check, pk |-> 1, received |-> r.received]
    OBVIOUS
  <1>6. PICK d : d = DeliveryAs(old.check, "except", s, old.previous)
    OBVIOUS
  <1>7. "except" \in WebStep /\ 1 \in 0..1
    BY DEF WebStep
  <1>8. Delivered(web', web, h, d)
    <2>1. Delivered([web EXCEPT ![h].at = "except", ![h].row.pk = 1], web, h,
                    DeliveryAs(old.check, "except",
                               [check |-> r.check, pk |-> 1, received |-> r.received],
                               old.previous))
      BY <1>2, <1>4, <1>7, RowPut
    <2>2. QED
      BY <1>1, <1>5, <1>6, <2>1
  <1>9. d.check = old.check /\ d.at = "except" /\ d.row = s
    BY <1>6, DeliveryAsFields
  <1>10. d \in Delivery /\ d # Null /\ WebGoes(h, d) /\ web'[h] = d
    BY <1>8, DeliveryFields DEF Delivered, WebGoes
  <1>11. QED
    BY <1>1, <1>2, <1>3, <1>4, <1>5, <1>9, <1>10

LEMMA SaveFacts ==
  ASSUME UptimeTypes, NEW h \in Handler, SaveResponse(h)
  PROVE  /\ web[h] # Null /\ web[h].at = "except"
         /\ UNCHANGED <<kind, life, fetches, records, twice, failures>>
         /\ IF life = "alive"
              THEN requests' = WithResponse(web[h].row) /\ Responds(h, "accepted")
              ELSE requests' = requests /\ Responds(h, "answer")
  BY RespondFacts DEF SaveResponse, Handles

LEMMA DiesFacts ==
  ASSUME UptimeTypes, NEW h \in Handler, HandlerDies(h)
  PROVE  /\ web[h] # Null /\ Responds(h, "answer") /\ failures' \in 0..MaxFailures
         /\ UNCHANGED <<kind, life, fetches, statuses, alert, requests>>
         /\ IF web[h].at \in {"delete", "alert"}
              THEN disturbed' = TRUE /\ twice' = twice \cup {web[h].check}
              ELSE disturbed' = disturbed /\ twice' = twice
  <1>1. /\ web[h] # Null /\ Respond(h, "answer")
        /\ failures' = failures \/ (failures < MaxFailures /\ failures' = failures + 1)
        /\ UNCHANGED <<kind, life, fetches, statuses, alert, requests>>
        /\ IF web[h].at \in {"delete", "alert"}
             THEN disturbed' = TRUE /\ twice' = twice \cup {web[h].check}
             ELSE disturbed' = (disturbed \/ FALSE) /\ twice' = twice
    BY DEF HandlerDies, Fails
  <1>2. disturbed \in BOOLEAN /\ failures \in 0..MaxFailures
    BY DEF UptimeTypes, UptimeTypeOK
  <1>3. failures' \in 0..MaxFailures
    BY <1>1, <1>2, UptimeBounds
  <1>4. (disturbed \/ FALSE) = disturbed
    BY <1>2
  <1>5. QED
    BY <1>1, <1>3, <1>4, RespondFacts

-----------------------------------------------------------------------------
(* The command ingest_requests.                                             *)

LEMMA RequestsFinite ==
  ASSUME UptimeTypeOK
  PROVE  IsFiniteSet(requests)
  <1> DEFINE S == (Check \X (0..1)) \X BOOLEAN
             f == [t \in S |-> [check |-> t[1][1], pk |-> t[1][2], received |-> t[2]]]
  <1>1. IsFiniteSet(Check) /\ IsFiniteSet(0..1)
    <2>1. 0 \in Int /\ 1 \in Int /\ MaxChecks \in Int /\ Check = 1..MaxChecks
      BY UptimeBounds
    <2>2. IsFiniteSet(1..MaxChecks)
      BY <2>1, FS_Interval
    <2>3. IsFiniteSet(0..1)
      BY <2>1, FS_Interval
    <2>4. QED
      BY <2>1, <2>2, <2>3
  <1>2. IsFiniteSet(Check \X (0..1))
    BY <1>1, FS_Product
  <1>3. IsFiniteSet(BOOLEAN)
    <2>1. BOOLEAN = {TRUE} \cup {FALSE}
      OBVIOUS
    <2>2. IsFiniteSet({TRUE}) /\ IsFiniteSet({FALSE})
      BY FS_Singleton
    <2>3. QED
      BY <2>1, <2>2, FS_Union
  <1>4. IsFiniteSet(S)
    BY <1>2, <1>3, FS_Product
  <1>5. f \in Surjection(S, RequestRow)
    <2>1. ASSUME NEW t \in S PROVE f[t] \in RequestRow
      BY DEF RequestRow
    <2>2. ASSUME NEW r \in RequestRow PROVE \E t \in S : f[t] = r
      <3>1. <<<<r.check, r.pk>>, r.received>> \in S
        BY RequestFields
      <3>2. f[<<<<r.check, r.pk>>, r.received>>] = r
        BY <3>1, RequestFields
      <3>3. QED
        BY <3>1, <3>2
    <2>3. f \in [S -> RequestRow]
      BY <2>1
    <2> HIDE DEF f
    <2>4. QED
      BY <2>2, <2>3 DEF Surjection
  <1> HIDE DEF S, f
  <1>6. IsFiniteSet(RequestRow)
    BY <1>4, <1>5, FS_Surjection
  <1>7. QED
    BY <1>6, FS_Subset DEF UptimeTypeOK

\* The requests with a response.
Answers == {r \in requests : r.received}

\* The requests with a response become rows, in some order.
Ingests(made, order) ==
  /\ made \in Seq(StatusRow) /\ order \in [DOMAIN made -> Answers]
  /\ \A i, j \in DOMAIN made : order[i] = order[j] => i = j
  /\ \A r \in Answers : \E i \in DOMAIN made : order[i] = r
  /\ \A i \in DOMAIN made :
        /\ made[i].check = order[i].check /\ made[i].checker = "region"
        /\ made[i].status = checks[order[i].check].status

LEMMA IngestFacts ==
  ASSUME UptimeTypes, IngestRequests
  PROVE  /\ life = "alive" /\ requests' = requests \ Answers /\ disturbed' = TRUE
         /\ UNCHANGED <<kind, life, checks, fetches, alert, web, twice, failures>>
         /\ \E made : statuses' = statuses \o made /\ \E order : Ingests(made, order)
  <1>1. /\ Answers # {} /\ \A r \in Answers : checks[r.check].start > 0
        /\ requests' = requests \ Answers /\ disturbed' = TRUE
        /\ UNCHANGED <<kind, life, checks, fetches, alert, web, twice, failures>>
    BY DEF IngestRequests, Answers
  <1>2. PICK order \in SetToSeqs(Answers) :
           statuses' = statuses \o
               [i \in DOMAIN order |->
                  [check |-> order[i].check, start |-> checks[order[i].check].start,
                   status |-> checks[order[i].check].status, checker |-> "region"]]
    BY DEF IngestRequests, Answers
  <1>3. life = "alive"
    BY <1>1 DEF UptimeTypes, GoneIsEmpty, Answers
  <1>4. PICK n : n = Cardinality(Answers)
    OBVIOUS
  <1>5. IsFiniteSet(Answers) /\ n \in Nat
    <2>1. IsFiniteSet(requests) /\ Answers \subseteq requests
      BY RequestsFinite DEF UptimeTypes, Answers
    <2>2. QED
      BY <1>4, <2>1, FS_Subset, FS_CardinalityType
  <1>6. /\ order \in [1..n -> Answers]
        /\ \A i, j \in 1..n : order[i] = order[j] => i = j
    BY <1>4 DEF SetToSeqs
  <1>7. ASSUME NEW r \in Answers
        PROVE  \E i \in 1..n : order[i] = r
    <2> SUFFICES ASSUME \A i \in 1..n : order[i] # r
                 PROVE  FALSE
      OBVIOUS
    <2>1. order \in [1..n -> Answers \ {r}]
      BY <1>6
    <2>2. IsFiniteSet(Answers \ {r}) /\ Cardinality(Answers \ {r}) = n - 1
      BY <1>4, <1>5, FS_RemoveElement
    <2>3. IsFiniteSet(1..n) /\ Cardinality(1..n) = n
      <3>1. 1 \in Int /\ n \in Int /\ (IF 1 > n THEN 0 ELSE n - 1 + 1) = n
        BY <1>5
      <3>2. QED
        BY <3>1, FS_Interval
    <2>4. PICK D, T : D = 1..n /\ T = Answers \ {r}
      OBVIOUS
    <2>5. /\ IsFiniteSet(D) /\ IsFiniteSet(T) /\ Cardinality(T) < Cardinality(D)
          /\ order \in [D -> T]
      BY <1>5, <2>1, <2>2, <2>3, <2>4
    <2>6. \E i, j \in D : i # j /\ order[i] = order[j]
      BY <2>5, FS_PigeonHole
    <2>7. QED
      BY <1>6, <2>4, <2>6
  <1>8. ASSUME NEW i \in 1..n
        PROVE  [check |-> order[i].check, start |-> checks[order[i].check].start,
                status |-> checks[order[i].check].status, checker |-> "region"] \in StatusRow
    <2>1. PICK c \in DOMAIN checks : c = order[i].check
      BY <1>6 DEF UptimeTypes, RequestsFit, Answers
    <2>2. c \in Check /\ checks[c].start \in 0..MaxChecks /\ checks[c].status \in Outcome
      BY UptimeTyped, TaskFields DEF UptimeTypes
    <2>3. QED
      BY <2>1, <2>2, StatusOf DEF Checker
  <1> DEFINE made == [i \in 1..n |->
                [check |-> order[i].check, start |-> checks[order[i].check].start,
                 status |-> checks[order[i].check].status, checker |-> "region"]]
  <1>9. statuses' = statuses \o made
    BY <1>2, <1>6
  <1>10. made \in Seq(StatusRow) /\ DOMAIN made = 1..n
    BY <1>5, <1>8
  <1>11. \A i \in 1..n : /\ made[i].check = order[i].check /\ made[i].checker = "region"
                         /\ made[i].status = checks[order[i].check].status
    OBVIOUS
  <1> HIDE DEF made
  <1>12. Ingests(made, order)
    BY <1>6, <1>7, <1>10, <1>11 DEF Ingests
  <1>13. QED
    BY <1>1, <1>3, <1>9, <1>12

\* Rows are created behind those there are.
LEMMA StatusesJoin ==
  ASSUME statuses \in Seq(StatusRow), NEW made \in Seq(StatusRow), statuses' = statuses \o made
  PROVE  /\ statuses' \in Seq(StatusRow) /\ Len(statuses) \in Nat /\ Len(made) \in Nat
         /\ DOMAIN statuses = 1..Len(statuses) /\ DOMAIN made = 1..Len(made)
         /\ DOMAIN statuses' = 1..(Len(statuses) + Len(made))
         /\ \A i \in DOMAIN statuses : i \in DOMAIN statuses' /\ statuses'[i] = statuses[i]
         /\ \A j \in DOMAIN made : /\ Len(statuses) + j \in DOMAIN statuses'
                                   /\ statuses'[Len(statuses) + j] = made[j]
                                   /\ Len(statuses) + j \notin DOMAIN statuses
         /\ \A i \in DOMAIN statuses' \ DOMAIN statuses :
               i - Len(statuses) \in DOMAIN made /\ statuses'[i] = made[i - Len(statuses)]
  <1> DEFINE n == Len(statuses)
             m == Len(made)
  <1>1. /\ n \in Nat /\ m \in Nat /\ DOMAIN statuses = 1..n /\ DOMAIN made = 1..m
    OBVIOUS
  <1>2. /\ statuses' \in Seq(StatusRow) /\ Len(statuses') = n + m
        /\ \A i \in 1..(n + m) : statuses'[i] = IF i <= n THEN statuses[i] ELSE made[i - n]
    BY ConcatProperties
  <1>3. DOMAIN statuses' = 1..(n + m)
    BY <1>1, <1>2
  <1>4. ASSUME NEW i \in 1..n PROVE i \in 1..(n + m) /\ statuses'[i] = statuses[i]
    <2>1. i \in 1..(n + m) /\ i <= n
      BY <1>1
    <2>2. QED
      BY <1>2, <2>1
  <1>5. ASSUME NEW j \in 1..m
        PROVE  n + j \in 1..(n + m) /\ n + j \notin 1..n /\ statuses'[n + j] = made[j]
    <2>1. n + j \in 1..(n + m) /\ n + j \notin 1..n /\ ~ (n + j <= n) /\ (n + j) - n = j
      BY <1>1
    <2>2. QED
      BY <1>2, <2>1
  <1>6. ASSUME NEW i \in 1..(n + m), i \notin 1..n
        PROVE  i - n \in 1..m /\ statuses'[i] = made[i - n]
    <2>1. i - n \in 1..m /\ ~ (i <= n)
      BY <1>1, <1>6
    <2>2. QED
      BY <1>2, <2>1
  <1>7. QED
    BY <1>1, <1>2, <1>3, <1>4, <1>5, <1>6

-----------------------------------------------------------------------------
(* Types are kept.                                                          *)

\* The checks keep their types.
ChecksKept ==
  /\ ChecksGo /\ checks' \in Seq(CheckTask) /\ Len(checks') <= MaxChecks
  /\ ChecksFit' /\ FetchesLeft' /\ fetches' \in 0..MaxChecks

\* So do the requests to the webhook.
WebKept == web' \in [Handler -> {Null} \cup Delivery] /\ DeliveriesFit'

\* So do the rows.
RowsKept ==
  /\ statuses' \in Seq(StatusRow) /\ StatusesFit' /\ disturbed' \in BOOLEAN
  /\ requests' \subseteq RequestRow /\ RequestsFit' /\ GoneIsEmpty'

\* So does the rest.
RestKept ==
  /\ kind' = kind /\ life' \in {"absent", "alive", "deleted"}
  /\ alert' \in {"success", "failure", Null} /\ twice' \subseteq Check /\ failures' \in 0..MaxFailures

LEMMA KeptTogether ==
  ASSUME UptimeTypes, ChecksKept, WebKept, RowsKept, RestKept
  PROVE  UptimeTypes'
  BY DEF UptimeTypes, UptimeTypeOK, ChecksKept, WebKept, RowsKept, RestKept

LEMMA StayGo ==
  ASSUME UptimeTypes, checks' = checks, UNCHANGED <<kind, fetches>>
  PROVE  ChecksKept
  <1>1. ChecksGo
    BY StayForward DEF UptimeTypes, ChecksGo
  <1>2. ChecksFit' /\ FetchesLeft'
    BY DEF UptimeTypes, ChecksFit, FitsKind, FetchesLeft, Unfetched
  <1>3. QED
    BY <1>1, <1>2 DEF UptimeTypes, UptimeTypeOK, ChecksKept

LEMMA MovesKept ==
  ASSUME UptimeTypes, NEW c, Moves(c), UNCHANGED <<kind, fetches>>
  PROVE  ChecksKept
  <1>1. checks' \in Seq(CheckTask) /\ Len(checks') = Len(checks) /\ ChecksGo
    BY MovesGo
  <1>2. ChecksFit' /\ FetchesLeft'
    BY MovesFetches
  <1>3. QED
    BY <1>1, <1>2 DEF UptimeTypes, UptimeTypeOK, ChecksKept

LEMMA QueuesKept ==
  ASSUME UptimeTypes, Queues, FetchesLeft', UNCHANGED <<kind, fetches>>
  PROVE  ChecksKept
  <1>1. ChecksGo /\ ChecksFit'
    BY QueuesGo
  <1>2. QED
    BY <1>1 DEF UptimeTypes, UptimeTypeOK, ChecksKept, Queues

LEMMA SameRows ==
  ASSUME UptimeTypes, ChecksGo, UNCHANGED <<statuses, requests>>, disturbed' \in BOOLEAN,
         life' # "alive" => life # "alive"
  PROVE  RowsKept
  <1>1. StatusesFit' /\ RequestsFit'
    BY GoKeeps
  <1>2. QED
    BY <1>1 DEF UptimeTypes, UptimeTypeOK, RowsKept, GoneIsEmpty

LEMMA SameWeb ==
  ASSUME UptimeTypes, ChecksGo, web' = web
  PROVE  WebKept
  BY GoKeeps DEF UptimeTypes, UptimeTypeOK, WebKept

LEMMA RespondsKept ==
  ASSUME UptimeTypes, NEW h \in Handler, web[h] # Null, NEW at, Responds(h, at),
         UNCHANGED <<kind, fetches>>
  PROVE  ChecksKept /\ WebKept
  <1>1. ChecksKept
    <2>1. CASE checks' = checks
      BY <2>1, StayGo
    <2>2. CASE Passes(web[h].check, at)
      BY <2>2, MovesKept DEF Passes
    <2>3. QED
      BY <2>1, <2>2 DEF Responds
  <1>2. /\ web' \in [Handler -> {Null} \cup Delivery] /\ web'[h] = Null
        /\ \A g \in Handler \ {h} : web'[g] = web[g]
    BY DEF Responds, WebGoes
  <1>3. ASSUME NEW g \in Handler, web'[g] # Null
        PROVE  /\ web'[g].check \in DOMAIN checks' /\ checks'[web'[g].check].checker = "region"
               /\ checks'[web'[g].check].at \in Posted
               /\ web'[g].at # "begun" => web'[g].row \in RequestRow /\ web'[g].row.check = web'[g].check
    <2>1. g # h /\ web'[g] = web[g]
      BY <1>2, <1>3
    <2>2. PICK c \in DOMAIN checks : /\ c = web[g].check /\ checks[c].checker = "region"
                                     /\ checks[c].at \in Posted
      BY <1>3, <2>1 DEF UptimeTypes, DeliveriesFit
    <2>3. /\ c \in DOMAIN checks' /\ checks'[c].checker = "region"
          /\ checks'[c].at \in StepsOf("region") /\ checks'[c].at \in Posted \cup {"alert"}
      BY <1>1, <2>2 DEF ChecksKept, ChecksGo, Forward
    <2>4. checks'[c].at \in Posted
      BY <2>3, StepsAre
    <2>5. QED
      BY <1>3, <2>1, <2>2, <2>3, <2>4 DEF UptimeTypes, DeliveriesFit
  <1>4. DeliveriesFit'
    BY <1>3 DEF DeliveriesFit
  <1>5. QED
    BY <1>1, <1>2, <1>4 DEF WebKept

\* One request changes, and still fits.
LEMMA OneWebKept ==
  ASSUME UptimeTypes, NEW h \in Handler, checks' = checks, WebGoes(h, web'[h]),
         web'[h] # Null,
         web'[h].check \in DOMAIN checks, checks[web'[h].check].checker = "region",
         checks[web'[h].check].at \in Posted,
         web'[h].at # "begun" => web'[h].row \in RequestRow /\ web'[h].row.check = web'[h].check
  PROVE  WebKept
  <1>1. web' \in [Handler -> {Null} \cup Delivery] /\ \A g \in Handler \ {h} : web'[g] = web[g]
    BY DEF WebGoes
  <1>2. ASSUME NEW g \in Handler, web'[g] # Null
        PROVE  /\ web'[g].check \in DOMAIN checks' /\ checks'[web'[g].check].checker = "region"
               /\ checks'[web'[g].check].at \in Posted
               /\ web'[g].at # "begun" => web'[g].row \in RequestRow /\ web'[g].row.check = web'[g].check
    <2>1. CASE g = h
      BY <2>1
    <2>2. CASE g # h
      <3>1. web'[g] = web[g] /\ web[g] # Null
        BY <1>1, <1>2, <2>2
      <3>2. /\ web[g].check \in DOMAIN checks /\ checks[web[g].check].checker = "region"
            /\ checks[web[g].check].at \in Posted
            /\ web[g].at # "begun" => web[g].row \in RequestRow /\ web[g].row.check = web[g].check
        BY <3>1 DEF UptimeTypes, DeliveriesFit
      <3>3. QED
        BY <3>1, <3>2
    <2>3. QED
      BY <2>1, <2>2
  <1>3. DeliveriesFit'
    BY <1>2 DEF DeliveriesFit
  <1>4. QED
    BY <1>1, <1>3 DEF WebKept

LEMMA ContinuesKept ==
  ASSUME UptimeTypes, NEW h \in Handler, web[h] # Null, web[h].at # "begun", NEW at,
         Continues(h, at), checks' = checks
  PROVE  WebKept
  <1>1. /\ web[h].check \in DOMAIN checks /\ checks[web[h].check].checker = "region"
        /\ checks[web[h].check].at \in Posted
        /\ web[h].row \in RequestRow /\ web[h].row.check = web[h].check
    BY DEF UptimeTypes, DeliveriesFit
  <1>2. QED
    BY <1>1, OneWebKept DEF Continues

LEMMA RecordsKept ==
  ASSUME UptimeTypes, NEW c \in DOMAIN checks, NEW status, NEW previous,
         Records(c, status, previous), ChecksGo, checks'[c].at \in Posted \cup {"alert"},
         life' = life, requests' = requests
  PROVE  RowsKept
  <1>1. PICK row \in StatusRow :
           /\ row.check = c /\ row.start = checks[c].start /\ row.status = status
           /\ row.checker = checks[c].checker /\ statuses' = Append(statuses, row)
           /\ disturbed' = (disturbed \/ (row.checker # "api" /\ ~ InOrder(row, previous)))
    BY DEF Records
  <1>2. /\ statuses \in Seq(StatusRow) /\ disturbed \in BOOLEAN /\ requests' \subseteq RequestRow
    BY DEF UptimeTypes, UptimeTypeOK
  <1>3. /\ statuses' \in Seq(StatusRow)
        /\ DOMAIN statuses' = DOMAIN statuses \cup {Len(statuses) + 1}
        /\ statuses'[Len(statuses) + 1] = row
        /\ \A i \in DOMAIN statuses : statuses'[i] = statuses[i]
    BY <1>1, <1>2, StatusesGrow
  <1>4. ASSUME NEW i \in DOMAIN statuses'
        PROVE  /\ statuses'[i].check \in DOMAIN checks'
               /\ checks'[statuses'[i].check].at \in Posted \cup {"alert"}
               /\ statuses'[i].checker = checks'[statuses'[i].check].checker
    <2>1. CASE i \in DOMAIN statuses
      <3>1. /\ statuses[i].check \in DOMAIN checks
            /\ checks[statuses[i].check].at \in Posted \cup {"alert"}
            /\ statuses[i].checker = checks[statuses[i].check].checker
        BY <2>1 DEF UptimeTypes, StatusesFit
      <3>2. QED
        BY <1>3, <2>1, <3>1 DEF ChecksGo, Forward
    <2>2. CASE i = Len(statuses) + 1
      BY <1>1, <1>3, <2>2 DEF ChecksGo, Forward
    <2>3. QED
      BY <1>3, <2>1, <2>2
  <1>5. StatusesFit'
    BY <1>4 DEF StatusesFit
  <1>6. RequestsFit'
    BY GoKeeps
  <1>7. disturbed' \in BOOLEAN
    BY <1>1, <1>2
  <1>8. GoneIsEmpty'
    BY DEF Records, GoneIsEmpty
  <1>9. QED
    BY <1>2, <1>3, <1>5, <1>6, <1>7, <1>8 DEF RowsKept

\* Requests come and go.
LEMMA RequestsKept ==
  ASSUME UptimeTypes, ChecksGo, statuses' = statuses, disturbed' \in BOOLEAN,
         life' = life, life # "alive" => requests' = {},
         \A r \in requests' \ requests :
            /\ r \in RequestRow /\ r.check \in DOMAIN checks /\ checks[r.check].checker = "region"
            /\ checks'[r.check].at # "queued" /\ (r.received => checks'[r.check].at \in Posted)
  PROVE  RowsKept
  <1>1. StatusesFit'
    BY GoKeeps
  <1>2. ASSUME NEW r \in requests'
        PROVE  /\ r \in RequestRow /\ r.check \in DOMAIN checks'
               /\ checks'[r.check].checker = "region" /\ checks'[r.check].at # "queued"
               /\ r.received => checks'[r.check].at \in Posted
    <2>1. CASE r \in requests
      <3>1. /\ r \in RequestRow /\ r.check \in DOMAIN checks /\ checks[r.check].checker = "region"
            /\ checks[r.check].at # "queued" /\ (r.received => checks[r.check].at \in Posted)
        BY <2>1 DEF UptimeTypes, UptimeTypeOK, RequestsFit
      <3>2. /\ r.check \in DOMAIN checks' /\ checks'[r.check].checker = "region"
            /\ checks'[r.check].at # "queued" /\ checks'[r.check].at \in StepsOf("region")
            /\ (r.received => checks'[r.check].at \in Posted \cup {"alert"})
        BY <3>1 DEF ChecksGo, Forward
      <3>3. QED
        BY <3>1, <3>2, StepsAre
    <2>2. CASE r \notin requests
      BY <2>2 DEF ChecksGo, Forward
    <2>3. QED
      BY <2>1, <2>2
  <1>3. RequestsFit' /\ requests' \subseteq RequestRow
    BY <1>2 DEF RequestsFit
  <1>4. QED
    BY <1>1, <1>3 DEF UptimeTypes, UptimeTypeOK, RowsKept, GoneIsEmpty

LEMMA SentType ==
  ASSUME UptimeTypes, NEW c, SendNotification(c)
  PROVE  /\ alert' \in {"success", "failure"} /\ disturbed' \in BOOLEAN
         /\ alert' = NotificationType(checks[c].status) /\ StatusesOf(c) # {}
         /\ disturbed' = (disturbed \/ MostRecentStatus.check # c)
  <1>1. disturbed \in BOOLEAN
    BY DEF UptimeTypes, UptimeTypeOK
  <1>2. QED
    BY <1>1 DEF SendNotification, NotificationType

LEMMA UptimeBegins ==
  ASSUME UptimeInit
  PROVE  UptimeTypes
  <1>1. /\ kind \in {"endpoint", "public", "private"} /\ life = "absent"
        /\ statuses = <<>> /\ alert = Null /\ disturbed = FALSE
        /\ checks = <<>> /\ fetches = 0
        /\ requests = {} /\ web = [h \in Handler |-> Null] /\ twice = {} /\ failures = 0
    BY DEF UptimeInit
  <1>2. UptimeTypeOK
    <2>1. statuses \in Seq(StatusRow) /\ checks \in Seq(CheckTask) /\ Len(checks) = 0
      BY <1>1
    <2>2. web \in [Handler -> {Null} \cup Delivery]
      BY <1>1
    <2>3. 0 \in 0..MaxChecks /\ 0 \in 0..MaxFailures /\ 0 <= MaxChecks
      BY UptimeBounds
    <2>4. disturbed \in BOOLEAN /\ twice \subseteq Check /\ requests \subseteq RequestRow
      BY <1>1
    <2>5. QED
      BY <1>1, <2>1, <2>2, <2>3, <2>4 DEF UptimeTypeOK
  <1>3. ChecksFit /\ StatusesFit /\ RequestsFit /\ DeliveriesFit /\ GoneIsEmpty
    BY <1>1 DEF ChecksFit, StatusesFit, RequestsFit, DeliveriesFit, GoneIsEmpty
  <1>4. FetchesLeft
    <2>1. Unfetched = {} /\ Len(checks) = 0
      BY <1>1 DEF Unfetched
    <2>2. Cardinality(Unfetched) = 0
      BY <2>1, FS_EmptySet
    <2>3. QED
      BY <1>1, <2>1, <2>2 DEF FetchesLeft
  <1>5. QED
    BY <1>2, <1>3, <1>4 DEF UptimeTypes

\* A step that leaves all but the checks, and what is faulty, alone.
LEMMA OnlyChecksKept ==
  ASSUME UptimeTypes, ChecksKept, OnlyChecks, failures' \in 0..MaxFailures
  PROVE  UptimeTypes'
  <1>1. /\ UNCHANGED <<kind, life, statuses, alert, disturbed, requests, web, twice>>
    BY DEF OnlyChecks, records, webhook
  <1>2. WebKept /\ RowsKept /\ RestKept
    BY <1>1, SameWeb, SameRows DEF ChecksKept, RestKept, UptimeTypes, UptimeTypeOK
  <1>3. QED
    BY <1>2, KeptTogether

LEMMA TasksKept ==
  ASSUME UptimeTypes, NEW c \in DOMAIN checks, Work(c) \/ TaskFails(c) \/ PostAgain(c)
  PROVE  UptimeTypes'
  <1>1. ASSUME Fetch(c)
        PROVE  UptimeTypes'
    <2>1. /\ Moves(c) /\ fetches' \in 0..MaxChecks /\ FetchesLeft' /\ OnlyChecks /\ failures' = failures
      BY <1>1, FetchFacts
    <2>2. checks' \in Seq(CheckTask) /\ Len(checks') = Len(checks) /\ ChecksGo /\ ChecksFit'
      BY <2>1, MovesGo, MovesFetches DEF OnlyChecks
    <2>3. ChecksKept /\ failures' \in 0..MaxFailures
      BY <2>1, <2>2 DEF ChecksKept, UptimeTypes, UptimeTypeOK
    <2>4. QED
      BY <2>1, <2>3, OnlyChecksKept
  <1>2. ASSUME Skip(c) \/ ReadPrevious(c)
        PROVE  UptimeTypes'
    <2>1. Moves(c) /\ OnlyChecks /\ UNCHANGED <<fetches, failures>>
      BY <1>2, SkipFacts, ReadFacts
    <2>2. ChecksKept /\ failures' \in 0..MaxFailures
      BY <2>1, MovesKept DEF OnlyChecks, UptimeTypes, UptimeTypeOK
    <2>3. QED
      BY <2>1, <2>2, OnlyChecksKept
  <1>3. ASSUME NEW status \in Outcome, CreateStatus(c, status)
        PROVE  UptimeTypes'
    <2>1. /\ Moves(c) /\ Records(c, status, checks[c].previous)
          /\ UNCHANGED <<kind, life, fetches, alert, webhook, failures>>
          /\ checks'[c].at \in Posted \cup {"alert"}
      BY <1>3, CreateFacts DEF Posted
    <2>2. UNCHANGED <<requests, web, twice>>
      BY <2>1 DEF webhook
    <2>3. ChecksKept
      BY <2>1, MovesKept
    <2>4. WebKept
      BY <2>2, <2>3, SameWeb DEF ChecksKept
    <2>5. RowsKept
      BY <2>1, <2>2, <2>3, RecordsKept DEF ChecksKept
    <2>6. RestKept
      BY <2>1, <2>2 DEF RestKept, UptimeTypes, UptimeTypeOK
    <2>7. QED
      BY <2>3, <2>4, <2>5, <2>6, KeptTogether
  <1>4. ASSUME Alert(c)
        PROVE  UptimeTypes'
    <2>1. /\ Moves(c) /\ SendNotification(c)
          /\ UNCHANGED <<kind, life, fetches, statuses, webhook, failures>>
      BY <1>4, AlertFacts
    <2>2. UNCHANGED <<requests, web, twice>>
      BY <2>1 DEF webhook
    <2>3. alert' \in {"success", "failure"} /\ disturbed' \in BOOLEAN
      BY <2>1, SentType
    <2>4. ChecksKept
      BY <2>1, MovesKept
    <2>5. WebKept /\ RowsKept
      BY <2>1, <2>2, <2>3, <2>4, SameWeb, SameRows DEF ChecksKept
    <2>6. RestKept
      BY <2>1, <2>2, <2>3 DEF RestKept, UptimeTypes, UptimeTypeOK
    <2>7. QED
      BY <2>4, <2>5, <2>6, KeptTogether
  <1>5. ASSUME InvokeLambda(c)
        PROVE  UptimeTypes'
    <2>1. /\ Moves(c) /\ checks[c].checker = "region" /\ life = "alive"
          /\ checks'[c].at \in {"invoked", "done"}
          /\ requests' = requests \cup {[check |-> c, pk |-> 0, received |-> FALSE]}
          /\ failures' \in 0..MaxFailures
          /\ UNCHANGED <<kind, life, fetches, records, web, twice>>
      BY <1>5, InvokeFacts
    <2>2. UNCHANGED <<statuses, alert, disturbed>>
      BY <2>1 DEF records
    <2>3. c \in Check
      BY UptimeTyped DEF UptimeTypes
    <2>4. PICK r \in RequestRow :
             r = [check |-> c, pk |-> 0, received |-> FALSE] /\ r.check = c /\ ~ r.received
      <3>1. [check |-> c, pk |-> 0, received |-> FALSE] \in RequestRow
        BY <2>3 DEF RequestRow
      <3>2. QED
        BY <3>1
    <2>5. ChecksKept
      BY <2>1, MovesKept
    <2>6. WebKept
      BY <2>1, <2>5, SameWeb DEF ChecksKept
    <2>7. RowsKept
      <3>1. disturbed' \in BOOLEAN
        BY <2>2 DEF UptimeTypes, UptimeTypeOK
      <3>2. QED
        BY <2>1, <2>2, <2>4, <2>5, <3>1, RequestsKept DEF ChecksKept
    <2>8. RestKept
      BY <2>1, <2>2 DEF RestKept, UptimeTypes, UptimeTypeOK
    <2>9. QED
      BY <2>5, <2>6, <2>7, <2>8, KeptTogether
  <1>6. ASSUME NEW h \in Handler, PostToWebhook(h, c)
        PROVE  UptimeTypes'
    <2>1. /\ Passes(c, "posted") /\ checks[c].checker = "region" /\ checks[c].at = "answer"
          /\ web[h] = Null /\ WebGoes(h, web'[h]) /\ web'[h] # Null
          /\ web'[h].check = c /\ web'[h].at = "begun"
          /\ UNCHANGED <<kind, life, fetches, records, requests, twice, failures>>
      BY <1>6, PostFacts
    <2>2. UNCHANGED <<statuses, alert, disturbed>>
      BY <2>1 DEF records
    <2>3. ChecksKept
      BY <2>1, MovesKept DEF Passes
    <2>4. checks'[c].at = "posted"
      BY <2>1 DEF Passes
    <2>5. /\ web' \in [Handler -> {Null} \cup Delivery]
          /\ \A g \in Handler \ {h} : web'[g] = web[g]
      BY <2>1 DEF WebGoes
    <2>6. ASSUME NEW g \in Handler, web'[g] # Null
          PROVE  /\ web'[g].check \in DOMAIN checks' /\ checks'[web'[g].check].checker = "region"
                 /\ checks'[web'[g].check].at \in Posted
                 /\ web'[g].at # "begun" => web'[g].row \in RequestRow /\ web'[g].row.check = web'[g].check
      <3>1. CASE g = h
        BY <2>1, <2>3, <2>4, <3>1 DEF ChecksKept, ChecksGo, Forward, Posted
      <3>2. CASE g # h
        <4>1. web'[g] = web[g] /\ web[g] # Null
          BY <2>5, <2>6, <3>2
        <4>2. PICK d \in DOMAIN checks :
                 d = web[g].check /\ checks[d].checker = "region" /\ checks[d].at \in Posted
          BY <4>1 DEF UptimeTypes, DeliveriesFit
        <4>3. /\ d \in DOMAIN checks' /\ checks'[d].checker = "region"
              /\ checks'[d].at \in StepsOf("region") /\ checks'[d].at \in Posted \cup {"alert"}
          BY <2>3, <4>2 DEF ChecksKept, ChecksGo, Forward
        <4>4. checks'[d].at \in Posted
          BY <4>3, StepsAre
        <4>5. QED
          BY <4>1, <4>2, <4>3, <4>4 DEF UptimeTypes, DeliveriesFit
      <3>3. QED
        BY <3>1, <3>2
    <2>7. WebKept
      BY <2>5, <2>6 DEF WebKept, DeliveriesFit
    <2>8. RowsKept /\ RestKept
      BY <2>1, <2>2, <2>3, SameRows DEF ChecksKept, RestKept, UptimeTypes, UptimeTypeOK
    <2>9. QED
      BY <2>3, <2>7, <2>8, KeptTogether
  <1>7. ASSUME TaskFails(c)
        PROVE  UptimeTypes'
    <2>1. /\ Moves(c) /\ failures' \in 0..MaxFailures
          /\ disturbed' = (disturbed \/ checks[c].at = "alert")
          /\ UNCHANGED <<kind, life, fetches, statuses, alert, webhook>>
      BY <1>7, TaskFailsFacts
    <2>2. UNCHANGED <<requests, web, twice>>
      BY <2>1 DEF webhook
    <2>3. ChecksKept
      BY <2>1, MovesKept
    <2>4. disturbed' \in BOOLEAN
      BY <2>1 DEF UptimeTypes, UptimeTypeOK
    <2>5. WebKept /\ RowsKept
      BY <2>1, <2>2, <2>3, <2>4, SameWeb, SameRows DEF ChecksKept
    <2>6. RestKept
      BY <2>1, <2>2 DEF RestKept, UptimeTypes, UptimeTypeOK
    <2>7. QED
      BY <2>3, <2>5, <2>6, KeptTogether
  <1>8. ASSUME PostAgain(c)
        PROVE  UptimeTypes'
    <2>1. Moves(c) /\ OnlyChecks /\ fetches' = fetches /\ failures' \in 0..MaxFailures
      BY <1>8, PostAgainFacts DEF Passes
    <2>2. ChecksKept
      BY <2>1, MovesKept DEF OnlyChecks
    <2>3. QED
      BY <2>1, <2>2, OnlyChecksKept
  <1>9. QED
    BY <1>1, <1>2, <1>3, <1>4, <1>5, <1>6, <1>7, <1>8 DEF Work

LEMMA WebhookKept ==
  ASSUME UptimeTypes, NEW h \in Handler, EndpointStatusWebhook(h) \/ HandlerDies(h)
  PROVE  UptimeTypes'
  <1>1. /\ alert \in {"success", "failure", Null} /\ disturbed \in BOOLEAN /\ twice \subseteq Check
        /\ life \in {"absent", "alive", "deleted"} /\ requests \subseteq RequestRow
        /\ failures \in 0..MaxFailures
    BY DEF UptimeTypes, UptimeTypeOK
  <1>2. ASSUME web[h] # Null
        PROVE  /\ web[h].check \in DOMAIN checks /\ web[h].check \in Check
               /\ checks[web[h].check].checker = "region" /\ checks[web[h].check].at \in Posted
               /\ web[h].at # "begun" => web[h].row \in RequestRow /\ web[h].row.check = web[h].check
    BY <1>2, UptimeTyped DEF UptimeTypes, DeliveriesFit
  <1>3. ASSUME LoadRequest(h)
        PROVE  UptimeTypes'
    <2>1. /\ web[h] # Null
          /\ UNCHANGED <<kind, life, fetches, statuses, alert, disturbed, requests, failures>>
          /\ \/ Responds(h, "accepted") /\ twice' = twice
             \/ \E r \in OpenRequests(web[h].check) : Loads(h, r)
      BY <1>3, LoadFacts DEF records
    <2>2. CASE Responds(h, "accepted") /\ twice' = twice
      <3>1. ChecksKept /\ WebKept
        BY <2>1, <2>2, RespondsKept
      <3>2. RowsKept /\ RestKept
        BY <1>1, <2>1, <2>2, <3>1, SameRows DEF ChecksKept, RestKept
      <3>3. QED
        BY <3>1, <3>2, KeptTogether
    <2>3. ASSUME NEW r \in OpenRequests(web[h].check), Loads(h, r)
          PROVE  UptimeTypes'
      <3>1. /\ r \in RequestRow /\ r.check = web[h].check
        BY <1>1 DEF OpenRequests
      <3>2. /\ WebGoes(h, web'[h]) /\ web'[h] # Null /\ web'[h].check = web[h].check
            /\ web'[h].row = r /\ checks' = checks
            /\ twice' = IF Others(h) = {} THEN twice ELSE twice \cup {web[h].check}
        BY <2>3 DEF Loads
      <3>3. WebKept
        BY <1>2, <2>1, <3>1, <3>2, OneWebKept
      <3>4. ChecksKept
        BY <2>1, <3>2, StayGo
      <3>5. RowsKept /\ RestKept
        BY <1>1, <1>2, <2>1, <3>2, <3>4, SameRows DEF ChecksKept, RestKept
      <3>6. QED
        BY <3>3, <3>4, <3>5, KeptTogether
    <2>4. QED
      BY <2>1, <2>2, <2>3
  <1>4. ASSUME RecordAnswer(h)
        PROVE  UptimeTypes'
    <2>1. /\ web[h] # Null /\ web[h].at = "read"
          /\ UNCHANGED <<kind, life, checks, fetches, alert, requests, twice, failures>>
          /\ \/ /\ Records(web[h].check, checks[web[h].check].status, web[h].previous)
                /\ Continues(h, "delete")
             \/ Continues(h, "except") /\ UNCHANGED <<statuses, disturbed>>
      BY <1>4, AnswerFacts
    <2>2. ChecksKept
      BY <2>1, StayGo
    <2>3. WebKept
      BY <2>1, ContinuesKept
    <2>4. RestKept
      BY <1>1, <2>1 DEF RestKept
    <2>5. CASE Records(web[h].check, checks[web[h].check].status, web[h].previous)
      <3>1. PICK c \in DOMAIN checks : c = web[h].check /\ checks'[c].at \in Posted
        BY <1>2, <2>1
      <3>2. Records(c, checks[c].status, web[h].previous)
        BY <2>5, <3>1
      <3>3. RowsKept
        BY <2>1, <2>2, <3>1, <3>2, RecordsKept DEF ChecksKept
      <3>4. QED
        BY <2>2, <2>3, <2>4, <3>3, KeptTogether
    <2>6. CASE UNCHANGED <<statuses, disturbed>>
      <3>1. RowsKept
        BY <1>1, <2>1, <2>2, <2>6, SameRows DEF ChecksKept
      <3>2. QED
        BY <2>2, <2>3, <2>4, <3>1, KeptTogether
    <2>7. QED
      BY <2>1, <2>5, <2>6
  <1>5. ASSUME DeleteRequest(h)
        PROVE  UptimeTypes'
    <2>1. /\ web[h] # Null /\ web[h].at = "delete" /\ requests' = requests \ {web[h].row}
          /\ UNCHANGED <<kind, life, fetches, statuses, alert, disturbed, twice, failures>>
          /\ \/ Continues(h, "alert") /\ checks' = checks
             \/ Responds(h, "accepted")
      BY <1>5, DeleteFacts DEF records
    <2>2. ChecksKept /\ WebKept
      BY <2>1, StayGo, ContinuesKept, RespondsKept
    <2>3. RowsKept
      <3>1. life # "alive" => requests' = {}
        BY <2>1 DEF UptimeTypes, GoneIsEmpty
      <3>2. requests' \ requests = {} /\ disturbed' \in BOOLEAN
        BY <1>1, <2>1
      <3>3. QED
        BY <2>1, <2>2, <3>1, <3>2, RequestsKept DEF ChecksKept
    <2>4. RestKept
      BY <1>1, <2>1 DEF RestKept
    <2>5. QED
      BY <2>2, <2>3, <2>4, KeptTogether
  <1>6. ASSUME AlertOfAnswer(h)
        PROVE  UptimeTypes'
    <2>1. /\ web[h] # Null /\ SendNotification(web[h].check) /\ Responds(h, "accepted")
          /\ UNCHANGED <<kind, life, fetches, statuses, requests, twice, failures>>
      BY <1>6, AlertOfFacts
    <2>2. alert' \in {"success", "failure"} /\ disturbed' \in BOOLEAN
      BY <2>1, SentType
    <2>3. ChecksKept /\ WebKept
      BY <2>1, RespondsKept
    <2>4. RowsKept /\ RestKept
      BY <1>1, <2>1, <2>2, <2>3, SameRows DEF ChecksKept, RestKept
    <2>5. QED
      BY <2>3, <2>4, KeptTogether
  <1>7. ASSUME AlertFails(h)
        PROVE  UptimeTypes'
    <2>1. /\ web[h] # Null /\ web[h].at = "alert"
          /\ WebGoes(h, web'[h]) /\ web'[h] # Null /\ web'[h].at = "except"
          /\ web'[h].check = web[h].check
          /\ web'[h].row = [check |-> web[h].check, pk |-> 1, received |-> web[h].row.received]
          /\ disturbed' = TRUE /\ twice' = twice \cup {web[h].check} /\ failures' \in 0..MaxFailures
          /\ UNCHANGED <<kind, life, checks, fetches, statuses, alert, requests>>
      BY <1>7, AlertFailsFacts
    <2>2. web'[h].row \in RequestRow /\ web'[h].row.check = web'[h].check
      <3>1. web[h].row.received \in BOOLEAN /\ web[h].check \in Check
        BY <1>2, <2>1, RequestFields
      <3>2. QED
        BY <2>1, <3>1, RequestOf
    <2>3. WebKept
      BY <1>2, <2>1, <2>2, OneWebKept
    <2>4. ChecksKept
      BY <2>1, StayGo
    <2>5. RowsKept /\ RestKept
      BY <1>1, <1>2, <2>1, <2>4, SameRows DEF ChecksKept, RestKept
    <2>6. QED
      BY <2>3, <2>4, <2>5, KeptTogether
  <1>8. ASSUME SaveResponse(h)
        PROVE  UptimeTypes'
    <2>1. /\ web[h] # Null /\ web[h].at = "except"
          /\ UNCHANGED <<kind, life, fetches, statuses, alert, disturbed, twice, failures>>
          /\ IF life = "alive"
               THEN requests' = WithResponse(web[h].row) /\ Responds(h, "accepted")
               ELSE requests' = requests /\ Responds(h, "answer")
      BY <1>8, SaveFacts DEF records
    <2>2. ChecksKept /\ WebKept
      BY <2>1, RespondsKept
    <2>3. RowsKept
      <3>1. PICK old \in RequestRow : old = web[h].row /\ old.check = web[h].check
        BY <1>2, <2>1
      <3>2. PICK new : new = [old EXCEPT !.received = TRUE]
        OBVIOUS
      <3>3. new \in RequestRow /\ new.check = old.check
        BY <3>2 DEF RequestRow
      <3>4. \A r \in requests' \ requests : r = new
        BY <2>1, <3>1, <3>2 DEF WithResponse
      <3>5. life # "alive" => requests' = {}
        BY <2>1 DEF UptimeTypes, GoneIsEmpty
      <3>6. PICK c \in DOMAIN checks : c = web[h].check /\ checks[c].checker = "region"
                                       /\ checks[c].at \in Posted
        BY <1>2, <2>1
      <3>7. checks'[c].at # "queued" /\ checks'[c].at \in Posted
        <4>1. checks'[c].at \in Posted \cup {"alert"} /\ checks'[c].at \in StepsOf("region")
          BY <2>2, <3>6 DEF ChecksKept, ChecksGo, Forward
        <4>2. QED
          BY <4>1, StepsAre DEF Posted
      <3>8. disturbed' \in BOOLEAN
        BY <1>1, <2>1
      <3>9. QED
        BY <2>1, <2>2, <3>1, <3>3, <3>4, <3>5, <3>6, <3>7, <3>8, RequestsKept DEF ChecksKept
    <2>4. RestKept
      BY <1>1, <2>1 DEF RestKept
    <2>5. QED
      BY <2>2, <2>3, <2>4, KeptTogether
  <1>9. ASSUME HandlerDies(h)
        PROVE  UptimeTypes'
    <2>1. /\ web[h] # Null /\ Responds(h, "answer") /\ failures' \in 0..MaxFailures
          /\ UNCHANGED <<kind, life, fetches, statuses, alert, requests>>
          /\ \/ disturbed' = TRUE /\ twice' = twice \cup {web[h].check}
             \/ disturbed' = disturbed /\ twice' = twice
      BY <1>9, DiesFacts
    <2>2. disturbed' \in BOOLEAN /\ twice' \subseteq Check
      BY <1>1, <1>2, <2>1
    <2>3. ChecksKept /\ WebKept
      BY <2>1, RespondsKept
    <2>4. RowsKept /\ RestKept
      BY <1>1, <2>1, <2>2, <2>3, SameRows DEF ChecksKept, RestKept
    <2>5. QED
      BY <2>3, <2>4, KeptTogether
  <1>10. QED
    BY <1>3, <1>4, <1>5, <1>6, <1>7, <1>8, <1>9 DEF EndpointStatusWebhook

LEMMA OthersKept ==
  ASSUME UptimeTypes, Add \/ CheckAllStatusInterval \/ IngestRequests \/ Delete
  PROVE  UptimeTypes'
  <1>1. /\ alert \in {"success", "failure", Null} /\ disturbed \in BOOLEAN /\ twice \subseteq Check
        /\ life \in {"absent", "alive", "deleted"} /\ requests \subseteq RequestRow
        /\ failures \in 0..MaxFailures /\ statuses \in Seq(StatusRow)
    BY DEF UptimeTypes, UptimeTypeOK
  <1>2. ASSUME Add
        PROVE  UptimeTypes'
    <2>1. /\ checks' = checks \/ Queues
          /\ FetchesLeft' /\ life = "absent" /\ life' = "alive"
          /\ UNCHANGED <<kind, fetches, statuses, alert, disturbed, requests, web, twice, failures>>
      BY <1>2, AddFacts DEF records, webhook
    <2>2. ChecksKept
      BY <2>1, StayGo, QueuesKept
    <2>3. WebKept /\ RowsKept /\ RestKept
      BY <1>1, <2>1, <2>2, SameWeb, SameRows DEF ChecksKept, RestKept
    <2>4. QED
      BY <2>2, <2>3, KeptTogether
  <1>3. ASSUME CheckAllStatusInterval
        PROVE  UptimeTypes'
    <2>1. /\ Queues /\ FetchesLeft'
          /\ UNCHANGED <<kind, life, fetches, statuses, alert, disturbed, requests, web, twice, failures>>
      BY <1>3, CheckAllFacts DEF records, webhook
    <2>2. ChecksKept
      BY <2>1, QueuesKept
    <2>3. WebKept /\ RowsKept /\ RestKept
      BY <1>1, <2>1, <2>2, SameWeb, SameRows DEF ChecksKept, RestKept
    <2>4. QED
      BY <2>2, <2>3, KeptTogether
  <1>4. ASSUME IngestRequests
        PROVE  UptimeTypes'
    <2>1. /\ life = "alive" /\ requests' = requests \ Answers /\ disturbed' = TRUE
          /\ UNCHANGED <<kind, life, checks, fetches, alert, web, twice, failures>>
          /\ \E made : statuses' = statuses \o made /\ \E order : Ingests(made, order)
      BY <1>4, IngestFacts
    <2>2. PICK made, order : statuses' = statuses \o made /\ Ingests(made, order)
      BY <2>1
    <2>3. /\ made \in Seq(StatusRow)
          /\ \A j \in DOMAIN made : \E r \in requests :
                /\ made[j].check = r.check /\ made[j].checker = "region" /\ r.received
      BY <2>2 DEF Ingests, Answers
    <2>4. /\ statuses' \in Seq(StatusRow)
          /\ \A i \in DOMAIN statuses : i \in DOMAIN statuses' /\ statuses'[i] = statuses[i]
          /\ \A i \in DOMAIN statuses' \ DOMAIN statuses :
                i - Len(statuses) \in DOMAIN made /\ statuses'[i] = made[i - Len(statuses)]
      BY <1>1, <2>2, <2>3, StatusesJoin
    <2>5. ChecksKept
      BY <2>1, StayGo
    <2>6. WebKept
      BY <2>1, <2>5, SameWeb DEF ChecksKept
    <2>7. RestKept
      BY <1>1, <2>1 DEF RestKept
    <2>8. ASSUME NEW i \in DOMAIN statuses'
          PROVE  /\ statuses'[i].check \in DOMAIN checks
                 /\ checks[statuses'[i].check].at \in Posted \cup {"alert"}
                 /\ statuses'[i].checker = checks[statuses'[i].check].checker
      <3>1. CASE i \in DOMAIN statuses
        BY <2>4, <3>1 DEF UptimeTypes, StatusesFit
      <3>2. CASE i \notin DOMAIN statuses
        <4>1. PICK r \in requests : statuses'[i].check = r.check /\ statuses'[i].checker = "region"
                                     /\ r.received
          BY <2>3, <2>4, <3>2
        <4>2. QED
          BY <4>1 DEF UptimeTypes, RequestsFit
      <3>3. QED
        BY <3>1, <3>2
    <2>9. StatusesFit'
      BY <2>1, <2>8 DEF StatusesFit
    <2>10. RequestsFit'
      BY <2>1, <2>5, GoKeeps DEF ChecksKept
    <2>11. RowsKept
      BY <1>1, <2>1, <2>4, <2>9, <2>10 DEF RowsKept, GoneIsEmpty
    <2>12. QED
      BY <2>5, <2>6, <2>7, <2>11, KeptTogether
  <1>5. ASSUME Delete
        PROVE  UptimeTypes'
    <2>1. /\ life' = "deleted" /\ statuses' = <<>> /\ requests' = {} /\ alert' = Null
          /\ failures' = failures + 1 /\ failures < MaxFailures
          /\ UNCHANGED <<kind, checks, fetches, disturbed, web, twice>>
      BY <1>5 DEF Delete, Fails
    <2>2. ChecksKept
      BY <2>1, StayGo
    <2>3. WebKept
      BY <2>1, <2>2, SameWeb DEF ChecksKept
    <2>4. RowsKept
      BY <1>1, <2>1 DEF RowsKept, StatusesFit, RequestsFit, GoneIsEmpty
    <2>5. RestKept
      BY <1>1, <2>1, UptimeBounds DEF RestKept
    <2>6. QED
      BY <2>2, <2>3, <2>4, <2>5, KeptTogether
  <1>6. QED
    BY <1>2, <1>3, <1>4, <1>5

LEMMA UptimeGoesOn ==
  ASSUME UptimeTypes, [UptimeNext]_uptimeVars
  PROVE  UptimeTypes'
  <1>1. CASE UNCHANGED uptimeVars
    <2>1. /\ UNCHANGED <<kind, life, checks, fetches, statuses, alert, disturbed, requests, web, twice,
                         failures>>
      BY <1>1 DEF uptimeVars, records, webhook
    <2>2. ChecksKept
      BY <2>1, StayGo
    <2>3. WebKept /\ RowsKept /\ RestKept
      BY <2>1, <2>2, SameWeb, SameRows DEF ChecksKept, RestKept, UptimeTypes, UptimeTypeOK
    <2>4. QED
      BY <2>2, <2>3, KeptTogether
  <1>2. CASE UptimeNext
    BY <1>2, TasksKept, WebhookKept, OthersKept DEF UptimeNext
  <1>3. QED
    BY <1>1, <1>2

THEOREM UptimeTypesHold == UptimeSpec => []UptimeTypes
  <1>1. UptimeInit => UptimeTypes
    BY UptimeBegins
  <1>2. UptimeTypes /\ [UptimeNext]_uptimeVars => UptimeTypes'
    BY UptimeGoesOn
  <1>3. QED
    BY <1>1, <1>2, PTL DEF UptimeSpec

\* Every variable keeps its type: a check, a request to the webhook and a row are what
\* the tasks and the view say, and no more fetches begin than there are checks.
THEOREM UptimeTypeCorrect == UptimeSpec => []UptimeTypeOK
  <1>1. UptimeTypes => UptimeTypeOK
    BY DEF UptimeTypes
  <1>2. QED
    BY <1>1, UptimeTypesHold, PTL

-----------------------------------------------------------------------------
(* What a step leaves of the outcomes and of the rows.                      *)

\* Once an answer may have arrived, the outcome of a check in a region stays; an alert
\* is about the outcome that was recorded.
KeepsOutcome(old, t) ==
  old.at \in Posted \cup {"alert"} =>
     /\ old.checker = "region" => t.status = old.status
     /\ t.at = "alert" => old.at = "alert" /\ t.status = old.status

OutcomesStay ==
  \A c \in DOMAIN checks :
     /\ c \in DOMAIN checks' /\ checks'[c].checker = checks[c].checker
     /\ KeepsOutcome(checks[c], checks'[c])

\* A step that begins no alert.
NoNewAlert ==
  \A c \in DOMAIN checks' : checks'[c].at = "alert" => c \in DOMAIN checks /\ checks[c].at = "alert"

\* A step that ends none.
NoAlertLost == \A c \in DOMAIN checks : checks[c].at = "alert" => checks'[c].at = "alert"

LEMMA OneMoves ==
  ASSUME UptimeTypes, NEW c, Moves(c), KeepsOutcome(checks[c], checks'[c])
  PROVE  /\ OutcomesStay
         /\ checks'[c].at # "alert" => NoNewAlert
         /\ checks[c].at # "alert" => NoAlertLost
  <1>1. /\ \A d \in DOMAIN checks \ {c} : checks'[d] = checks[d]
        /\ DOMAIN checks' = DOMAIN checks /\ c \in DOMAIN checks
        /\ checks'[c].checker = checks[c].checker
    BY DEF Moves, TaskGoes, Forward
  <1>2. \A t : KeepsOutcome(t, t)
    BY DEF KeepsOutcome
  <1>3. OutcomesStay
    BY <1>1, <1>2 DEF OutcomesStay
  <1>4. QED
    BY <1>1, <1>3 DEF NoNewAlert, NoAlertLost

LEMMA NoneMoves ==
  ASSUME checks' = checks \/ Queues
  PROVE  OutcomesStay /\ NoNewAlert /\ NoAlertLost
  <1>1. \A c \in DOMAIN checks : c \in DOMAIN checks' /\ checks'[c] = checks[c]
    BY DEF Queues
  <1>2. \A c \in DOMAIN checks' \ DOMAIN checks : checks'[c].at = "queued"
    BY DEF Queues
  <1>3. \A t : KeepsOutcome(t, t)
    BY DEF KeepsOutcome
  <1>4. OutcomesStay
    BY <1>1, <1>3 DEF OutcomesStay
  <1>5. NoNewAlert /\ NoAlertLost
    BY <1>1, <1>2 DEF NoNewAlert, NoAlertLost
  <1>6. QED
    BY <1>4, <1>5

LEMMA PassesOutcome ==
  ASSUME UptimeTypes, NEW c, NEW at, at # "alert", Passes(c, at), checks[c].checker = "region"
  PROVE  OutcomesStay /\ NoNewAlert /\ NoAlertLost
  <1>1. /\ Moves(c) /\ checks'[c].at = at /\ checks'[c].status = checks[c].status
        /\ c \in DOMAIN checks
    BY DEF Passes, Moves
  <1>2. checks[c].at # "alert"
    BY <1>1, StepsAre DEF UptimeTypes, ChecksFit
  <1>3. KeepsOutcome(checks[c], checks'[c])
    BY <1>1 DEF KeepsOutcome
  <1>4. QED
    BY <1>1, <1>2, <1>3, OneMoves

LEMMA RespondsOutcome ==
  ASSUME UptimeTypes, NEW h \in Handler, web[h] # Null, NEW at, at # "alert", Responds(h, at)
  PROVE  OutcomesStay /\ NoNewAlert /\ NoAlertLost
  <1>1. PICK c : c = web[h].check /\ checks[c].checker = "region"
    BY DEF UptimeTypes, DeliveriesFit
  <1>2. checks' = checks \/ Passes(c, at)
    BY <1>1 DEF Responds
  <1>3. QED
    BY <1>1, <1>2, NoneMoves, PassesOutcome

LEMMA EndsOutcome ==
  ASSUME UptimeTypes, NEW c \in DOMAIN checks, Moves(c), checks'[c].at = "done",
         checks[c].at \in {"queued", "fetched", "read", "alert"}
  PROVE  /\ OutcomesStay /\ NoNewAlert
         /\ checks[c].at # "alert" => NoAlertLost
  <1>1. checks[c].checker = "region" => checks[c].at \notin Posted \cup {"alert"}
    BY StepsAre DEF UptimeTypes, ChecksFit, Posted
  <1>2. KeepsOutcome(checks[c], checks'[c])
    BY <1>1 DEF KeepsOutcome
  <1>3. QED
    BY <1>2, OneMoves

LEMMA EarlyOutcome ==
  ASSUME UptimeTypes, NEW c \in DOMAIN checks, Moves(c),
         checks[c].at \in {"queued", "fetched", "invoked", "read"}
  PROVE  /\ OutcomesStay /\ NoAlertLost
         /\ checks'[c].at # "alert" => NoNewAlert
  <1>1. KeepsOutcome(checks[c], checks'[c])
    BY DEF KeepsOutcome, Posted
  <1>2. QED
    BY <1>1, OneMoves

\* The steps of tasks, by what they leave.
LEMMA TaskOutcomes ==
  ASSUME UptimeTypes, NEW c \in DOMAIN checks, Work(c) \/ TaskFails(c) \/ PostAgain(c)
  PROVE  /\ OutcomesStay
         /\ NoNewAlert \/ \E status \in Outcome : CreateStatus(c, status)
         /\ \/ NoAlertLost
            \/ checks[c].at = "alert" /\ (Alert(c) \/ Skip(c) \/ TaskFails(c))
  <1>1. ASSUME Fetch(c) \/ ReadPrevious(c) \/ InvokeLambda(c)
        PROVE  OutcomesStay /\ NoNewAlert /\ NoAlertLost
    <2>1. /\ Moves(c) /\ checks[c].at \in {"queued", "fetched", "invoked", "read"}
          /\ checks'[c].at # "alert"
      <3>1. CASE Fetch(c)
        BY <3>1, FetchFacts
      <3>2. CASE ReadPrevious(c)
        BY <3>2, ReadFacts
      <3>3. CASE InvokeLambda(c)
        BY <3>3, InvokeFacts
      <3>4. QED
        BY <1>1, <3>1, <3>2, <3>3
    <2>2. QED
      BY <2>1, EarlyOutcome
  <1>2. ASSUME Skip(c) \/ Alert(c) \/ TaskFails(c)
        PROVE  OutcomesStay /\ NoNewAlert /\ (checks[c].at # "alert" => NoAlertLost)
    <2>1. /\ Moves(c) /\ checks'[c].at = "done"
          /\ checks[c].at \in {"queued", "fetched", "read", "alert"}
      BY <1>2, SkipFacts, AlertFacts, TaskFailsFacts
    <2>2. QED
      BY <2>1, EndsOutcome
  <1>3. ASSUME NEW status \in Outcome, CreateStatus(c, status)
        PROVE  OutcomesStay /\ NoAlertLost
    BY <1>3, CreateFacts, EarlyOutcome
  <1>4. ASSUME NEW h \in Handler, PostToWebhook(h, c)
        PROVE  OutcomesStay /\ NoNewAlert /\ NoAlertLost
    BY <1>4, PostFacts, PassesOutcome
  <1>5. ASSUME PostAgain(c)
        PROVE  OutcomesStay /\ NoNewAlert /\ NoAlertLost
    BY <1>5, PostAgainFacts, PassesOutcome
  <1>6. QED
    BY <1>1, <1>2, <1>3, <1>4, <1>5 DEF Work

LEMMA WebhookOutcomes ==
  ASSUME UptimeTypes, NEW h \in Handler, EndpointStatusWebhook(h) \/ HandlerDies(h)
  PROVE  OutcomesStay /\ NoNewAlert /\ NoAlertLost
  <1>1. ASSUME LoadRequest(h) PROVE checks' = checks \/ Responds(h, "accepted")
    BY <1>1, LoadFacts DEF Loads
  <1>2. ASSUME RecordAnswer(h) PROVE checks' = checks
    BY <1>2, AnswerFacts
  <1>3. ASSUME DeleteRequest(h) PROVE checks' = checks \/ Responds(h, "accepted")
    BY <1>3, DeleteFacts
  <1>4. ASSUME AlertOfAnswer(h) PROVE Responds(h, "accepted")
    BY <1>4, AlertOfFacts
  <1>5. ASSUME AlertFails(h) PROVE checks' = checks
    BY <1>5, AlertFailsFacts
  <1>6. ASSUME SaveResponse(h) PROVE Responds(h, "accepted") \/ Responds(h, "answer")
    BY <1>6, SaveFacts
  <1>7. ASSUME HandlerDies(h) PROVE Responds(h, "answer")
    BY <1>7, DiesFacts
  <1>8. web[h] # Null
    BY DEF EndpointStatusWebhook, HandlerDies, LoadRequest, RecordAnswer, DeleteRequest,
           AlertOfAnswer, AlertFails, SaveResponse, Handles
  <1>9. checks' = checks \/ Responds(h, "accepted") \/ Responds(h, "answer")
    BY <1>1, <1>2, <1>3, <1>4, <1>5, <1>6, <1>7 DEF EndpointStatusWebhook
  <1>10. QED
    BY <1>8, <1>9, NoneMoves, RespondsOutcome

LEMMA OutcomesKept ==
  ASSUME UptimeTypes, [UptimeNext]_uptimeVars
  PROVE  /\ OutcomesStay
         /\ NoNewAlert \/ \E c \in DOMAIN checks, status \in Outcome : CreateStatus(c, status)
  <1>1. ASSUME Add \/ CheckAllStatusInterval \/ IngestRequests \/ Delete \/ UNCHANGED uptimeVars
        PROVE  checks' = checks \/ Queues
    <2>1. CASE Add
      BY <2>1, AddFacts
    <2>2. CASE CheckAllStatusInterval
      BY <2>2, CheckAllFacts
    <2>3. CASE IngestRequests
      BY <2>3, IngestFacts
    <2>4. CASE Delete \/ UNCHANGED uptimeVars
      BY <2>4 DEF Delete, uptimeVars
    <2>5. QED
      BY <1>1, <2>1, <2>2, <2>3, <2>4
  <1>2. ASSUME Add \/ CheckAllStatusInterval \/ IngestRequests \/ Delete \/ UNCHANGED uptimeVars
        PROVE  OutcomesStay /\ NoNewAlert
    BY <1>1, <1>2, NoneMoves
  <1>3. QED
    BY <1>2, TaskOutcomes, WebhookOutcomes DEF UptimeNext

\* Only two steps of a check, a command and a deletion change the rows.
LEMMA RowsCases ==
  ASSUME UptimeTypes, [UptimeNext]_uptimeVars
  PROVE  \/ statuses' = statuses
         \/ \E c \in DOMAIN checks, status \in Outcome : CreateStatus(c, status)
         \/ \E h \in Handler : RecordAnswer(h)
         \/ IngestRequests
         \/ Delete /\ statuses' = <<>>
  <1>1. ASSUME NEW c \in DOMAIN checks, Work(c) \/ TaskFails(c) \/ PostAgain(c)
        PROVE  statuses' = statuses \/ \E status \in Outcome : CreateStatus(c, status)
    <2>1. CASE Fetch(c) \/ Skip(c) \/ ReadPrevious(c) \/ Alert(c) \/ InvokeLambda(c)
      BY <2>1 DEF Fetch, Skip, ReadPrevious, Alert, InvokeLambda, records
    <2>2. CASE (\E h \in Handler : PostToWebhook(h, c)) \/ TaskFails(c) \/ PostAgain(c)
      BY <2>2 DEF PostToWebhook, TaskFails, PostAgain, records
    <2>3. QED
      BY <1>1, <2>1, <2>2 DEF Work
  <1>2. ASSUME NEW h \in Handler, EndpointStatusWebhook(h) \/ HandlerDies(h)
        PROVE  statuses' = statuses \/ RecordAnswer(h)
    <2>1. CASE LoadRequest(h) \/ DeleteRequest(h) \/ AlertOfAnswer(h)
      BY <2>1 DEF LoadRequest, DeleteRequest, AlertOfAnswer, records
    <2>2. CASE AlertFails(h) \/ SaveResponse(h) \/ HandlerDies(h)
      BY <2>2 DEF AlertFails, SaveResponse, HandlerDies, records
    <2>3. QED
      BY <1>2, <2>1, <2>2 DEF EndpointStatusWebhook
  <1>3. CASE Add \/ CheckAllStatusInterval \/ Delete \/ UNCHANGED uptimeVars
    BY <1>3 DEF Add, CheckAllStatusInterval, Delete, uptimeVars, records
  <1>4. QED
    BY <1>1, <1>2, <1>3 DEF UptimeNext

LEMMA LifeGoes ==
  ASSUME UptimeTypes, [UptimeNext]_uptimeVars
  PROVE  kind' = kind /\ (life' = life \/ Add \/ Delete)
  <1>1. ASSUME NEW c \in DOMAIN checks, Work(c) \/ TaskFails(c) \/ PostAgain(c)
        PROVE  kind' = kind /\ life' = life
    BY <1>1 DEF Work, Fetch, Skip, ReadPrevious, Alert, InvokeLambda, CreateStatus,
                PostToWebhook, TaskFails, PostAgain
  <1>2. ASSUME NEW h \in Handler, EndpointStatusWebhook(h) \/ HandlerDies(h)
        PROVE  kind' = kind /\ life' = life
    BY <1>2 DEF EndpointStatusWebhook, LoadRequest, RecordAnswer, DeleteRequest, AlertOfAnswer,
                AlertFails, SaveResponse, HandlerDies
  <1>3. CASE Add \/ CheckAllStatusInterval \/ IngestRequests \/ Delete \/ UNCHANGED uptimeVars
    BY <1>3 DEF Add, CheckAllStatusInterval, IngestRequests, Delete, uptimeVars
  <1>4. QED
    BY <1>1, <1>2, <1>3 DEF UptimeNext

\* But for a deletion no row is lost.
LEMMA RowsStay ==
  ASSUME UptimeTypes, [UptimeNext]_uptimeVars
  PROVE  \/ Delete /\ statuses' = <<>>
         \/ \A i \in DOMAIN statuses : i \in DOMAIN statuses' /\ statuses'[i] = statuses[i]
  <1>1. statuses \in Seq(StatusRow)
    BY DEF UptimeTypes, UptimeTypeOK
  <1>2. ASSUME NEW c, NEW status, NEW previous, Records(c, status, previous)
        PROVE  \A i \in DOMAIN statuses : i \in DOMAIN statuses' /\ statuses'[i] = statuses[i]
    <2>1. PICK row \in StatusRow : statuses' = Append(statuses, row)
      BY <1>2 DEF Records
    <2>2. QED
      BY <1>1, <2>1, StatusesGrow
  <1>3. ASSUME NEW c \in DOMAIN checks, NEW status \in Outcome, CreateStatus(c, status)
        PROVE  \A i \in DOMAIN statuses : i \in DOMAIN statuses' /\ statuses'[i] = statuses[i]
    <2>1. Records(c, status, checks[c].previous)
      BY <1>3, CreateFacts
    <2>2. QED
      BY <1>2, <2>1
  <1>4. ASSUME NEW h \in Handler, RecordAnswer(h)
        PROVE  \A i \in DOMAIN statuses : i \in DOMAIN statuses' /\ statuses'[i] = statuses[i]
    <2>1. \/ Records(web[h].check, checks[web[h].check].status, web[h].previous)
          \/ statuses' = statuses
      BY <1>4, AnswerFacts
    <2>2. QED
      BY <1>2, <2>1
  <1>5. ASSUME IngestRequests
        PROVE  \A i \in DOMAIN statuses : i \in DOMAIN statuses' /\ statuses'[i] = statuses[i]
    <2>1. PICK made : statuses' = statuses \o made /\ \E order : Ingests(made, order)
      BY <1>5, IngestFacts
    <2>2. made \in Seq(StatusRow)
      BY <2>1 DEF Ingests
    <2>3. QED
      BY <1>1, <2>1, <2>2, StatusesJoin
  <1>6. QED
    BY <1>3, <1>4, <1>5, RowsCases

-----------------------------------------------------------------------------
(* What the owner knows.                                                    *)

\* A row tells the outcome of its check, as long as the check still has it.
RowTellsOutcome(row, t) == t.checker = "region" \/ t.at = "alert" => row.status = t.status

StatusSame == \A i \in DOMAIN statuses : RowTellsOutcome(statuses[i], checks[statuses[i].check])

LEMMA OldRowsSame ==
  ASSUME UptimeTypes, StatusSame, OutcomesStay, NEW i \in DOMAIN statuses
  PROVE  RowTellsOutcome(statuses[i], checks'[statuses[i].check])
  <1>1. PICK c \in DOMAIN checks : c = statuses[i].check /\ checks[c].at \in Posted \cup {"alert"}
    BY DEF UptimeTypes, StatusesFit
  <1>2. checks'[c].checker = checks[c].checker /\ KeepsOutcome(checks[c], checks'[c])
    BY DEF OutcomesStay
  <1>3. RowTellsOutcome(statuses[i], checks[c])
    BY <1>1 DEF StatusSame
  <1>4. RowTellsOutcome(statuses[i], checks'[c])
    BY <1>1, <1>2, <1>3 DEF RowTellsOutcome, KeepsOutcome
  <1>5. QED
    BY <1>1, <1>4

LEMMA NewRowSame ==
  ASSUME UptimeTypes, StatusSame, OutcomesStay, NEW c, NEW status, NEW previous,
         Records(c, status, previous),
         checks'[c].checker = "region" \/ checks'[c].at = "alert" => checks'[c].status = status
  PROVE  StatusSame'
  <1>1. PICK row \in StatusRow :
           row.check = c /\ row.status = status /\ statuses' = Append(statuses, row)
    BY DEF Records
  <1>2. /\ DOMAIN statuses' = DOMAIN statuses \cup {Len(statuses) + 1}
        /\ statuses'[Len(statuses) + 1] = row
        /\ \A i \in DOMAIN statuses : statuses'[i] = statuses[i]
    BY <1>1, StatusesGrow DEF UptimeTypes, UptimeTypeOK
  <1>3. ASSUME NEW i \in DOMAIN statuses'
        PROVE  RowTellsOutcome(statuses'[i], checks'[statuses'[i].check])
    <2>1. CASE i \in DOMAIN statuses
      BY <1>2, <2>1, OldRowsSame
    <2>2. CASE i = Len(statuses) + 1
      <3>1. statuses'[i].check = c /\ statuses'[i].status = status
        BY <1>1, <1>2, <2>2
      <3>2. QED
        BY <3>1 DEF RowTellsOutcome
    <2>3. QED
      BY <1>2, <2>1, <2>2
  <1>4. QED
    BY <1>3 DEF StatusSame

LEMMA StatusSameKept ==
  ASSUME UptimeTypes, StatusSame, [UptimeNext]_uptimeVars
  PROVE  StatusSame'
  <1>1. OutcomesStay
    BY OutcomesKept
  <1>2. CASE statuses' = statuses
    BY <1>1, <1>2, OldRowsSame DEF StatusSame
  <1>3. ASSUME NEW c \in DOMAIN checks, NEW status \in Outcome, CreateStatus(c, status)
        PROVE  StatusSame'
    <2>1. /\ checks[c].at = "read" /\ Records(c, status, checks[c].previous)
          /\ \/ checks'[c].at = "alert" /\ checks'[c].status = status
             \/ checks'[c].at = "done"
      BY <1>3, CreateFacts
    <2>2. checks'[c].checker # "region"
      BY <1>1, <2>1, StepsAre DEF UptimeTypes, ChecksFit, OutcomesStay
    <2>3. QED
      BY <1>1, <2>1, <2>2, NewRowSame
  <1>4. ASSUME NEW h \in Handler, RecordAnswer(h)
        PROVE  StatusSame'
    <2>1. PICK c : c = web[h].check
      OBVIOUS
    <2>2. CASE Records(c, checks[c].status, web[h].previous)
      <3>1. checks' = checks
        BY <1>4, AnswerFacts
      <3>2. checks'[c].status = checks[c].status
        BY <3>1
      <3>3. QED
        BY <1>1, <2>2, <3>2, NewRowSame
    <2>3. QED
      BY <1>2, <1>4, <2>1, <2>2, AnswerFacts
  <1>5. CASE IngestRequests
    <2>1. /\ checks' = checks
          /\ \E made : statuses' = statuses \o made /\ \E order : Ingests(made, order)
      BY <1>5, IngestFacts
    <2>2. PICK made, order : statuses' = statuses \o made /\ Ingests(made, order)
      BY <2>1
    <2>3. /\ made \in Seq(StatusRow)
          /\ \A j \in DOMAIN made : made[j].status = checks[made[j].check].status
      BY <2>2 DEF Ingests
    <2>4. /\ \A i \in DOMAIN statuses : statuses'[i] = statuses[i]
          /\ \A i \in DOMAIN statuses' \ DOMAIN statuses :
                i - Len(statuses) \in DOMAIN made /\ statuses'[i] = made[i - Len(statuses)]
      BY <2>2, <2>3, StatusesJoin DEF UptimeTypes, UptimeTypeOK
    <2>5. ASSUME NEW i \in DOMAIN statuses'
          PROVE  RowTellsOutcome(statuses'[i], checks'[statuses'[i].check])
      <3>1. CASE i \in DOMAIN statuses
        BY <1>1, <2>4, <3>1, OldRowsSame
      <3>2. CASE i \notin DOMAIN statuses
        <4>1. statuses'[i].status = checks[statuses'[i].check].status
          BY <2>3, <2>4, <3>2
        <4>2. QED
          BY <2>1, <4>1 DEF RowTellsOutcome
      <3>3. QED
        BY <3>1, <3>2
    <2>6. QED
      BY <2>5 DEF StatusSame
  <1>6. CASE statuses' = <<>>
    BY <1>6 DEF StatusSame
  <1>7. QED
    BY <1>2, <1>3, <1>4, <1>5, <1>6, RowsCases

\* An alert is about a row there is, until the monitor is deleted.
AlertsHaveRow ==
  life # "deleted" => \A c \in DOMAIN checks : checks[c].at = "alert" => StatusesOf(c) # {}

LEMMA AlertsHaveRowKept ==
  ASSUME UptimeTypes, AlertsHaveRow, [UptimeNext]_uptimeVars
  PROVE  AlertsHaveRow'
  <1>1. CASE Delete
    BY <1>1 DEF Delete, AlertsHaveRow
  <1>2. CASE ~ Delete
    <2> SUFFICES ASSUME life' # "deleted", NEW c \in DOMAIN checks', checks'[c].at = "alert"
                 PROVE  StatusesOf(c)' # {}
      BY DEF AlertsHaveRow
    <2>1. life # "deleted"
      BY <1>2, LifeGoes DEF Add
    <2>2. \A i \in DOMAIN statuses : i \in DOMAIN statuses' /\ statuses'[i] = statuses[i]
      BY <1>2, RowsStay
    <2>3. CASE c \in DOMAIN checks /\ checks[c].at = "alert"
      <3>1. PICK i \in DOMAIN statuses : statuses[i].check = c
        BY <2>1, <2>3 DEF AlertsHaveRow, StatusesOf
      <3>2. i \in DOMAIN statuses' /\ statuses'[i].check = c
        BY <2>2, <3>1
      <3>3. QED
        BY <3>2 DEF StatusesOf
    <2>4. ASSUME NEW d \in DOMAIN checks, NEW status \in Outcome, CreateStatus(d, status)
          PROVE  StatusesOf(c)' # {}
      <3>1. /\ Moves(d) /\ Records(d, status, checks[d].previous)
        BY <2>4, CreateFacts
      <3>2. CASE c = d
        <4>1. PICK row \in StatusRow : row.check = d /\ statuses' = Append(statuses, row)
          BY <3>1 DEF Records
        <4>2. Len(statuses) + 1 \in DOMAIN statuses' /\ statuses'[Len(statuses) + 1] = row
          BY <4>1, StatusesGrow DEF UptimeTypes, UptimeTypeOK
        <4>3. QED
          BY <3>2, <4>1, <4>2 DEF StatusesOf
      <3>3. CASE c # d
        BY <2>3, <3>1, <3>3 DEF Moves, TaskGoes
      <3>4. QED
        BY <3>2, <3>3
    <2>5. QED
      BY <2>3, <2>4, OutcomesKept DEF NoNewAlert
  <1>3. QED
    BY <1>1, <1>2

\* The owner was told the most recent status, or all were the same.
Told ==
  IF alert = Null
    THEN \A i \in Considered : statuses[i].status = MostRecentStatus.status
    ELSE alert = NotificationType(MostRecentStatus.status)

\* A request to the webhook that will send an alert.
WillAlert(d, t) == d.at = "alert" \/ (d.at = "delete" /\ Changed(t.status, d.previous))

Pending ==
  \/ \E c \in DOMAIN checks : checks[c].at = "alert"
  \/ \E h \in Handler : web[h] # Null /\ WillAlert(web[h], checks[web[h].check])

OwnerInv ==
  ~ disturbed /\ kind # "private" =>
     IF Considered = {} THEN alert = Null ELSE Told \/ Pending

\* A step after which those alerts are still to be sent.
StillAlerts ==
  \A h \in Handler : web[h] # Null /\ WillAlert(web[h], checks[web[h].check]) =>
     /\ web'[h] # Null /\ web'[h].check = web[h].check
     /\ WillAlert(web'[h], checks[web[h].check])

LEMMA PendingStays ==
  ASSUME UptimeTypes, OutcomesStay, NoAlertLost, StillAlerts, Pending
  PROVE  Pending'
  <1>1. CASE \E c \in DOMAIN checks : checks[c].at = "alert"
    BY <1>1 DEF Pending, OutcomesStay, NoAlertLost
  <1>2. ASSUME NEW h \in Handler, web[h] # Null, WillAlert(web[h], checks[web[h].check])
        PROVE  Pending'
    <2>1. PICK c \in DOMAIN checks :
             c = web[h].check /\ checks[c].checker = "region" /\ checks[c].at \in Posted
      BY <1>2 DEF UptimeTypes, DeliveriesFit
    <2>2. web'[h] # Null /\ web'[h].check = c /\ WillAlert(web'[h], checks[c])
      BY <1>2, <2>1 DEF StillAlerts
    <2>3. checks'[c].status = checks[c].status
      BY <2>1 DEF OutcomesStay, KeepsOutcome
    <2>4. WillAlert(web'[h], checks'[c])
      BY <2>2, <2>3 DEF WillAlert
    <2>5. QED
      BY <2>2, <2>4 DEF Pending
  <1>3. QED
    BY <1>1, <1>2 DEF Pending

\* Rows that are not considered change nothing.
LEMMA SameConsidered ==
  ASSUME UptimeTypeOK, kind' = kind, Considered' = Considered,
         \A i \in Considered : statuses'[i] = statuses[i]
  PROVE  /\ MostRecentStatus' = MostRecentStatus
         /\ alert' = alert => (Told => Told')
  <1>1. MostRecentStatus' = MostRecentStatus
    <2>1. CASE Considered = {}
      BY <2>1 DEF MostRecentStatus
    <2>2. CASE Considered # {}
      <3>1. LatestOf' = LatestOf
        BY DEF LatestOf
      <3>2. LatestOf \in Considered
        BY <2>2, LatestIs
      <3>3. QED
        BY <2>2, <3>1, <3>2 DEF MostRecentStatus
    <2>3. QED
      BY <2>1, <2>2
  <1>2. QED
    BY <1>1 DEF Told

\* A row recorded in order is the most recent one.
LEMMA InOrderIsLatest ==
  ASSUME UptimeTypes, kind' = kind, NEW row \in StatusRow, statuses' = Append(statuses, row),
         NEW previous, InOrder(row, previous), kind # "endpoint" => row.checker = CheckerOf
  PROVE  /\ Considered' = Considered \cup {Len(statuses) + 1}
         /\ \A i \in Considered : statuses'[i] = statuses[i]
         /\ statuses'[Len(statuses) + 1] = row /\ MostRecentStatus' = row
  <1> DEFINE n == Len(statuses)
  <1>1. /\ n \in Nat /\ DOMAIN statuses = 1..n /\ statuses'[n + 1] = row
        /\ DOMAIN statuses' = DOMAIN statuses \cup {n + 1} /\ n + 1 \notin DOMAIN statuses
        /\ \A i \in DOMAIN statuses : statuses'[i] = statuses[i]
    BY StatusesGrow DEF UptimeTypes, UptimeTypeOK
  <1>2. Considered \subseteq DOMAIN statuses /\ CheckerOf' = CheckerOf
    BY DEF Considered, CheckerOf
  <1> HIDE DEF n
  <1>3. Considered' = Considered \cup {n + 1}
    <2>1. ASSUME NEW i \in Considered' PROVE i \in Considered \cup {n + 1}
      BY <1>1, <1>2 DEF Considered
    <2>2. ASSUME NEW i \in Considered PROVE i \in Considered'
      BY <1>1, <1>2 DEF Considered
    <2>3. n + 1 \in Considered'
      BY <1>1, <1>2 DEF Considered
    <2>4. QED
      BY <2>1, <2>2, <2>3
  <1> DEFINE Ahead(i) == \A j \in Considered' :
               IF kind' = "endpoint" THEN statuses'[j].start <= statuses'[i].start ELSE j <= i
  <1>4. kind = "endpoint" => \A j \in Considered : statuses[j].start < row.start
    <2> SUFFICES ASSUME kind = "endpoint", NEW j \in Considered
                 PROVE  statuses[j].start < row.start
      OBVIOUS
    <2>1. /\ MostRecentStatus \in StatusRow /\ MostRecentStatus # Null
          /\ statuses[j].start <= MostRecentStatus.start
      BY LatestIs, StatusFields DEF UptimeTypes
    <2>2. MostRecentStatus.start < row.start
      BY <2>1 DEF InOrder
    <2>3. PICK a, b, c : a = statuses[j].start /\ b = MostRecentStatus.start /\ c = row.start
      OBVIOUS
    <2>4. a \in Nat /\ b \in Nat /\ c \in Nat
      BY <2>1, <2>3, <1>2, UptimeTyped, StatusFields, UptimeBounds DEF UptimeTypes
    <2>5. QED
      BY <2>1, <2>2, <2>3, <2>4
  <1>5. Ahead(n + 1)
    <2> SUFFICES ASSUME NEW j \in Considered'
                 PROVE  IF kind' = "endpoint" THEN statuses'[j].start <= statuses'[n + 1].start
                                              ELSE j <= n + 1
      OBVIOUS
    <2>1. row.start \in Nat
      BY StatusFields, UptimeBounds
    <2>2. CASE j = n + 1
      BY <1>1, <2>1, <2>2
    <2>3. CASE j \in Considered
      <3>1. statuses'[j] = statuses[j] /\ j \in 1..n
        BY <1>1, <1>2, <2>3
      <3>2. statuses[j].start \in Nat
        BY <1>2, <2>3, UptimeTyped, StatusFields, UptimeBounds DEF UptimeTypes
      <3>3. CASE kind = "endpoint"
        <4>1. statuses[j].start < row.start
          BY <1>4, <2>3, <3>3
        <4>2. QED
          BY <1>1, <2>1, <3>1, <3>2, <3>3, <4>1
      <3>4. CASE kind # "endpoint"
        BY <1>1, <3>1, <3>4
      <3>5. QED
        BY <3>3, <3>4
    <2>4. QED
      BY <1>3, <2>2, <2>3
  <1>6. ASSUME NEW i \in Considered', Ahead(i)
        PROVE  i = n + 1
    <2> SUFFICES ASSUME i \in Considered
                 PROVE  FALSE
      BY <1>3
    <2>1. n + 1 \in Considered' /\ i \in 1..n /\ statuses'[i] = statuses[i]
      BY <1>1, <1>2, <1>3
    <2>2. IF kind = "endpoint" THEN row.start <= statuses[i].start ELSE n + 1 <= i
      BY <1>1, <1>6, <2>1
    <2>3. CASE kind = "endpoint"
      <3>1. statuses[i].start < row.start /\ row.start <= statuses[i].start
        BY <1>4, <2>2, <2>3
      <3>2. statuses[i].start \in Nat /\ row.start \in Nat
        BY <1>2, UptimeTyped, StatusFields, UptimeBounds DEF UptimeTypes
      <3>3. QED
        BY <3>1, <3>2
    <2>4. CASE kind # "endpoint"
      BY <1>1, <2>1, <2>2, <2>4
    <2>5. QED
      BY <2>3, <2>4
  <1>7. LatestOf' = CHOOSE i \in Considered' : Ahead(i)
    BY DEF LatestOf
  <1> HIDE DEF Ahead
  <1>8. LatestOf' = n + 1
    BY <1>3, <1>5, <1>6, <1>7
  <1>9. Considered' # {} /\ MostRecentStatus' = statuses'[LatestOf']
    BY <1>3 DEF MostRecentStatus
  <1>10. QED
    BY <1>1, <1>2, <1>3, <1>8, <1>9 DEF n

LEMMA RecordsOwner ==
  ASSUME UptimeTypes, OwnerInv, UNCHANGED <<kind, alert>>, NEW c \in DOMAIN checks, NEW status,
         NEW previous, Records(c, status, previous), OutcomesStay, NoAlertLost, StillAlerts,
         checks[c].checker # "api" /\ Changed(status, previous) => Pending'
  PROVE  OwnerInv'
  <1> SUFFICES ASSUME ~ disturbed', kind # "private"
               PROVE  IF Considered' = {} THEN alert = Null ELSE Told' \/ Pending'
    BY DEF OwnerInv
  <1>1. PICK row \in StatusRow :
           /\ row.status = status /\ row.checker = checks[c].checker
           /\ statuses' = Append(statuses, row)
           /\ disturbed' = (disturbed \/ (row.checker # "api" /\ ~ InOrder(row, previous)))
    BY DEF Records
  <1>2. ~ disturbed /\ (row.checker = "api" \/ InOrder(row, previous))
    BY <1>1
  <1>3. /\ row.checker \in (IF kind = "endpoint" THEN {"local", "region"} ELSE {"badge", "api"})
        /\ CheckerOf = "badge" /\ UptimeTypeOK
    BY <1>1 DEF UptimeTypes, ChecksFit, FitsKind, CheckerOf
  <1>4. Pending => Pending'
    BY PendingStays
  <1>5. IF Considered = {} THEN alert = Null ELSE Told \/ Pending
    BY <1>2 DEF OwnerInv
  <1>6. CASE row.checker = "api"
    <2>1. /\ Len(statuses) + 1 \notin DOMAIN statuses
          /\ DOMAIN statuses' = DOMAIN statuses \cup {Len(statuses) + 1}
          /\ statuses'[Len(statuses) + 1] = row
          /\ \A i \in DOMAIN statuses : statuses'[i] = statuses[i]
      BY <1>1, <1>3, StatusesGrow DEF UptimeTypeOK
    <2>2. kind # "endpoint" /\ CheckerOf' = "badge"
      BY <1>3, <1>6 DEF CheckerOf
    <2>3. Considered' = Considered
      <3>1. ASSUME NEW i \in Considered' PROVE i \in Considered
        BY <1>3, <1>6, <2>1, <2>2 DEF Considered
      <3>2. ASSUME NEW i \in Considered PROVE i \in Considered'
        BY <1>3, <2>1, <2>2 DEF Considered
      <3>3. QED
        BY <3>1, <3>2
    <2>4. \A i \in Considered : statuses'[i] = statuses[i]
      BY <2>1 DEF Considered
    <2>5. Told => Told'
      BY <1>3, <2>3, <2>4, SameConsidered
    <2>6. QED
      BY <1>4, <1>5, <2>3, <2>5
  <1>7. CASE row.checker # "api" /\ InOrder(row, previous)
    <2>1. /\ Considered' = Considered \cup {Len(statuses) + 1}
          /\ \A i \in Considered : statuses'[i] = statuses[i]
          /\ statuses'[Len(statuses) + 1] = row /\ MostRecentStatus' = row
      BY <1>1, <1>3, <1>7, InOrderIsLatest
    <2>2. previous = MostRecentStatus
      BY <1>7 DEF InOrder
    <2>3. CASE Considered = {}
      <3>1. alert' = Null /\ \A i \in Considered' : statuses'[i].status = MostRecentStatus'.status
        BY <1>5, <2>1, <2>3
      <3>2. QED
        BY <3>1 DEF Told
    <2>4. CASE Considered # {}
      <3>1. previous \in StatusRow /\ previous # Null
        BY <1>3, <2>2, <2>4, LatestIs, StatusFields
      <3>2. CASE Changed(status, previous)
        BY <1>1, <1>7, <2>1, <3>2
      <3>3. CASE ~ Changed(status, previous)
        <4>1. MostRecentStatus.status = status /\ MostRecentStatus'.status = status
          BY <1>1, <2>1, <2>2, <3>1, <3>3 DEF Changed
        <4>2. ASSUME Told, alert = Null
              PROVE  Told'
          <5>1. \A i \in Considered : statuses'[i].status = status
            BY <2>1, <4>1, <4>2 DEF Told
          <5>2. \A i \in Considered' : statuses'[i].status = MostRecentStatus'.status
            BY <1>1, <2>1, <4>1, <5>1
          <5>3. QED
            BY <4>2, <5>2 DEF Told
        <4>3. ASSUME Told, alert # Null
              PROVE  Told'
          BY <4>1, <4>3 DEF Told
        <4>4. QED
          BY <1>4, <1>5, <2>1, <2>4, <4>2, <4>3
      <3>4. QED
        BY <3>2, <3>3
    <2>5. QED
      BY <2>3, <2>4
  <1>8. QED
    BY <1>2, <1>6, <1>7

\* Neither a row nor an alert.
LEMMA QuietOwner ==
  ASSUME UptimeTypes, OwnerInv, UNCHANGED <<kind, alert, statuses>>,
         ~ disturbed' => ~ disturbed,
         ~ disturbed' => (Pending => Pending')
  PROVE  OwnerInv'
  <1> SUFFICES ASSUME ~ disturbed', kind # "private"
               PROVE  IF Considered' = {} THEN alert' = Null ELSE Told' \/ Pending'
    BY DEF OwnerInv
  <1>1. IF Considered = {} THEN alert = Null ELSE Told \/ Pending
    BY DEF OwnerInv
  <1>2. Considered' = Considered
    BY DEF Considered, CheckerOf
  <1>3. Told => Told'
    BY <1>2, SameConsidered DEF UptimeTypes
  <1>4. QED
    BY <1>1, <1>2, <1>3

\* The alert is about the most recent status.
LEMMA SendsOwner ==
  ASSUME UptimeTypes, StatusSame, NEW c \in DOMAIN checks, SendNotification(c),
         UNCHANGED <<kind, statuses>>, checks[c].checker = "region" \/ checks[c].at = "alert"
  PROVE  OwnerInv'
  <1> SUFFICES ASSUME ~ disturbed', kind # "private"
               PROVE  IF Considered' = {} THEN alert' = Null ELSE Told' \/ Pending'
    BY DEF OwnerInv
  <1>1. /\ alert' \in {"success", "failure"} /\ alert' = NotificationType(checks[c].status)
        /\ StatusesOf(c) # {} /\ MostRecentStatus.check = c
    BY SentType
  <1>2. PICK i \in DOMAIN statuses : statuses[i].check = c
    BY <1>1 DEF StatusesOf
  <1>3. statuses[i].checker = checks[c].checker
    BY <1>2 DEF UptimeTypes, StatusesFit
  <1>4. kind # "endpoint" => checks[c].checker = CheckerOf
    <2>1. checks[c].checker # "api"
      BY StepsAre DEF UptimeTypes, ChecksFit
    <2>2. QED
      BY <2>1 DEF UptimeTypes, ChecksFit, FitsKind, CheckerOf
  <1>5. i \in Considered
    BY <1>2, <1>3, <1>4 DEF Considered
  <1>6. /\ LatestOf \in DOMAIN statuses /\ MostRecentStatus = statuses[LatestOf]
    BY <1>5, LatestIs DEF UptimeTypes, Considered
  <1>7. MostRecentStatus.status = checks[c].status
    BY <1>1, <1>6 DEF StatusSame, RowTellsOutcome
  <1>8. Considered' = Considered /\ MostRecentStatus' = MostRecentStatus
    <2>1. Considered' = Considered
      BY DEF Considered, CheckerOf
    <2>2. QED
      BY <2>1, SameConsidered DEF UptimeTypes
  <1>9. alert' # Null
    BY <1>1, NullAssumption
  <1>10. Told'
    BY <1>1, <1>7, <1>8, <1>9 DEF Told
  <1>11. QED
    BY <1>5, <1>8, <1>10

LEMMA DisturbedOwner ==
  ASSUME disturbed' = TRUE
  PROVE  OwnerInv'
  BY DEF OwnerInv

LEMMA OwnerTasks ==
  ASSUME UptimeTypes, StatusSame, AlertsHaveRow, OwnerInv, NEW c \in DOMAIN checks,
         Work(c) \/ TaskFails(c) \/ PostAgain(c)
  PROVE  OwnerInv'
  <1>1. OutcomesStay
    BY TaskOutcomes
  <1>2. disturbed \in BOOLEAN
    BY DEF UptimeTypes, UptimeTypeOK
  <1>3. ASSUME web' = web
        PROVE  StillAlerts
    BY <1>3 DEF StillAlerts
  <1>4. ASSUME Fetch(c) \/ ReadPrevious(c) \/ InvokeLambda(c)
        PROVE  OwnerInv'
    <2>1. UNCHANGED <<kind, statuses, alert, disturbed, web>>
      BY <1>4 DEF Fetch, ReadPrevious, InvokeLambda, records, webhook
    <2>2. checks[c].at # "alert"
      BY <1>4, FetchFacts, ReadFacts, InvokeFacts
    <2>3. NoAlertLost
      BY <2>2, TaskOutcomes
    <2>4. Pending => Pending'
      BY <1>1, <1>3, <2>1, <2>3, PendingStays
    <2>5. QED
      BY <2>1, <2>4, QuietOwner
  <1>5. ASSUME NEW h \in Handler, PostToWebhook(h, c)
        PROVE  OwnerInv'
    <2>1. /\ UNCHANGED <<kind, statuses, alert, disturbed>> /\ web[h] = Null /\ WebGoes(h, web'[h])
          /\ checks[c].at = "answer"
      BY <1>5, PostFacts DEF records
    <2>2. StillAlerts
      BY <2>1 DEF StillAlerts, WebGoes
    <2>3. NoAlertLost
      BY <2>1, TaskOutcomes
    <2>4. Pending => Pending'
      BY <1>1, <2>2, <2>3, PendingStays
    <2>5. QED
      BY <2>1, <2>4, QuietOwner
  <1>6. ASSUME PostAgain(c)
        PROVE  OwnerInv'
    <2>1. UNCHANGED <<kind, statuses, alert, disturbed, web>> /\ checks[c].at = "posted"
      BY <1>6, PostAgainFacts DEF OnlyChecks, records, webhook
    <2>2. NoAlertLost
      BY <2>1, TaskOutcomes
    <2>3. Pending => Pending'
      BY <1>1, <1>3, <2>1, <2>2, PendingStays
    <2>4. QED
      BY <2>1, <2>3, QuietOwner
  <1>7. ASSUME Skip(c)
        PROVE  OwnerInv'
    <2>1. /\ UNCHANGED <<kind, statuses, alert, disturbed, web>>
          /\ checks[c].at = "alert" => StatusesOf(c) = {}
      BY <1>7, SkipFacts DEF OnlyChecks, records, webhook
    <2>2. CASE checks[c].at # "alert"
      <3>1. NoAlertLost
        BY <2>2, TaskOutcomes
      <3>2. Pending => Pending'
        BY <1>1, <1>3, <2>1, <3>1, PendingStays
      <3>3. QED
        BY <2>1, <3>2, QuietOwner
    <2>3. CASE checks[c].at = "alert"
      <3>1. life = "deleted"
        BY <2>1, <2>3 DEF AlertsHaveRow
      <3>2. statuses = <<>>
        BY <3>1 DEF UptimeTypes, GoneIsEmpty
      <3>3. Considered = {} /\ Considered' = {}
        BY <2>1, <3>2 DEF Considered
      <3>4. QED
        BY <2>1, <3>3 DEF OwnerInv
    <2>4. QED
      BY <2>2, <2>3
  <1>8. ASSUME TaskFails(c)
        PROVE  OwnerInv'
    <2>1. /\ UNCHANGED <<kind, statuses, alert, web>>
          /\ disturbed' = (disturbed \/ checks[c].at = "alert")
      BY <1>8, TaskFailsFacts DEF webhook
    <2>2. CASE checks[c].at # "alert"
      <3>1. NoAlertLost
        BY <2>2, TaskOutcomes
      <3>2. Pending => Pending'
        BY <1>1, <1>3, <2>1, <3>1, PendingStays
      <3>3. QED
        BY <2>1, <3>2, QuietOwner
    <2>3. CASE checks[c].at = "alert"
      BY <2>1, <2>3, DisturbedOwner
    <2>4. QED
      BY <2>2, <2>3
  <1>9. ASSUME Alert(c)
        PROVE  OwnerInv'
    <2>1. /\ checks[c].at = "alert" /\ SendNotification(c) /\ UNCHANGED <<kind, statuses>>
      BY <1>9, AlertFacts
    <2>2. QED
      BY <2>1, SendsOwner
  <1>10. ASSUME NEW status \in Outcome, CreateStatus(c, status)
         PROVE  OwnerInv'
    <2>1. /\ checks[c].at = "read" /\ Records(c, status, checks[c].previous)
          /\ UNCHANGED <<kind, alert, web>>
          /\ Notify(c, status) => checks'[c].at = "alert"
          /\ c \in DOMAIN checks'
      BY <1>1, <1>10, CreateFacts DEF webhook, OutcomesStay
    <2>2. NoAlertLost
      BY <2>1, TaskOutcomes
    <2>3. StillAlerts
      BY <1>3, <2>1
    <2>4. checks[c].checker # "api" /\ Changed(status, checks[c].previous) => Pending'
      BY <2>1 DEF Notify, Pending
    <2>5. QED
      BY <1>1, <2>1, <2>2, <2>3, <2>4, RecordsOwner
  <1>11. QED
    BY <1>4, <1>5, <1>6, <1>7, <1>8, <1>9, <1>10 DEF Work

LEMMA OwnerWebhook ==
  ASSUME UptimeTypes, StatusSame, OwnerInv, NEW h \in Handler,
         EndpointStatusWebhook(h) \/ HandlerDies(h)
  PROVE  OwnerInv'
  <1>1. OutcomesStay /\ NoAlertLost
    BY WebhookOutcomes
  <1>2. ASSUME web[h] # Null, ~ WillAlert(web[h], checks[web[h].check]),
               \A g \in Handler \ {h} : web'[g] = web[g]
        PROVE  StillAlerts
    BY <1>2 DEF StillAlerts
  <1>3. ASSUME web[h] # Null, ~ WillAlert(web[h], checks[web[h].check]),
               WebGoes(h, web'[h]) \/ WebGoes(h, Null),
               UNCHANGED <<kind, statuses, alert, disturbed>>
        PROVE  OwnerInv'
    <2>1. \A g \in Handler \ {h} : web'[g] = web[g]
      BY <1>3 DEF WebGoes
    <2>2. StillAlerts
      BY <1>2, <1>3, <2>1
    <2>3. Pending => Pending'
      BY <1>1, <2>2, PendingStays
    <2>4. QED
      BY <1>3, <2>3, QuietOwner
  <1>4. ASSUME LoadRequest(h)
        PROVE  OwnerInv'
    <2>1. /\ web[h] # Null /\ web[h].at = "begun" /\ UNCHANGED <<kind, statuses, alert, disturbed>>
          /\ WebGoes(h, Null) \/ WebGoes(h, web'[h])
      BY <1>4, LoadFacts DEF Responds, Loads, records
    <2>2. QED
      BY <1>3, <2>1 DEF WillAlert
  <1>5. ASSUME RecordAnswer(h)
        PROVE  OwnerInv'
    <2>1. /\ web[h] # Null /\ web[h].at = "read" /\ UNCHANGED <<kind, alert>> /\ checks' = checks
          /\ WebGoes(h, web'[h])
      BY <1>5, AnswerFacts DEF Continues
    <2>2. PICK c \in DOMAIN checks : c = web[h].check
      BY <2>1 DEF UptimeTypes, DeliveriesFit
    <2>3. CASE UNCHANGED <<statuses, disturbed>>
      BY <1>3, <2>1, <2>3 DEF WillAlert
    <2>4. CASE /\ Records(c, checks[c].status, web[h].previous)
               /\ Continues(h, "delete")
      <3>1. StillAlerts
        BY <1>2, <2>1 DEF WillAlert, WebGoes
      <3>2. ASSUME Changed(checks[c].status, web[h].previous)
            PROVE  Pending'
        <4>1. /\ web'[h] # Null /\ web'[h].at = "delete" /\ web'[h].check = c
              /\ web'[h].previous = web[h].previous
          BY <2>2, <2>4 DEF Continues
        <4>2. WillAlert(web'[h], checks'[c])
          BY <2>1, <3>2, <4>1 DEF WillAlert
        <4>3. QED
          BY <4>1, <4>2 DEF Pending
      <3>3. QED
        BY <1>1, <2>1, <2>4, <3>1, <3>2, RecordsOwner
    <2>5. QED
      BY <1>5, <2>2, <2>3, <2>4, AnswerFacts
  <1>6. ASSUME DeleteRequest(h)
        PROVE  OwnerInv'
    <2>1. /\ web[h] # Null /\ web[h].at = "delete" /\ UNCHANGED <<kind, statuses, alert, disturbed>>
          /\ IF Changed(checks[web[h].check].status, web[h].previous)
               THEN Continues(h, "alert") /\ checks' = checks
               ELSE Responds(h, "accepted")
      BY <1>6, DeleteFacts DEF records
    <2>2. CASE ~ Changed(checks[web[h].check].status, web[h].previous)
      BY <1>3, <2>1, <2>2 DEF WillAlert, Responds
    <2>3. CASE Changed(checks[web[h].check].status, web[h].previous)
      <3>1. /\ web'[h] # Null /\ web'[h].check = web[h].check /\ web'[h].at = "alert"
            /\ \A g \in Handler \ {h} : web'[g] = web[g]
        BY <2>1, <2>3 DEF Continues, WebGoes
      <3>2. StillAlerts
        BY <3>1 DEF StillAlerts, WillAlert
      <3>3. Pending => Pending'
        BY <1>1, <3>2, PendingStays
      <3>4. QED
        BY <2>1, <3>3, QuietOwner
    <2>4. QED
      BY <2>2, <2>3
  <1>7. ASSUME AlertOfAnswer(h)
        PROVE  OwnerInv'
    <2>1. /\ web[h] # Null /\ SendNotification(web[h].check) /\ UNCHANGED <<kind, statuses>>
      BY <1>7, AlertOfFacts
    <2>2. PICK c \in DOMAIN checks : c = web[h].check /\ checks[c].checker = "region"
      BY <2>1 DEF UptimeTypes, DeliveriesFit
    <2>3. QED
      BY <2>1, <2>2, SendsOwner
  <1>8. ASSUME AlertFails(h)
        PROVE  OwnerInv'
    BY <1>8, AlertFailsFacts, DisturbedOwner
  <1>9. ASSUME SaveResponse(h)
        PROVE  OwnerInv'
    <2>1. /\ web[h] # Null /\ web[h].at = "except" /\ UNCHANGED <<kind, statuses, alert, disturbed>>
          /\ WebGoes(h, Null)
      BY <1>9, SaveFacts DEF Responds, records
    <2>2. QED
      BY <1>3, <2>1 DEF WillAlert
  <1>10. ASSUME HandlerDies(h)
         PROVE  OwnerInv'
    <2>1. /\ web[h] # Null /\ UNCHANGED <<kind, statuses, alert>> /\ WebGoes(h, Null)
          /\ IF web[h].at \in {"delete", "alert"} THEN disturbed' = TRUE ELSE disturbed' = disturbed
      BY <1>10, DiesFacts DEF Responds
    <2>2. CASE web[h].at \in {"delete", "alert"}
      BY <2>1, <2>2, DisturbedOwner
    <2>3. CASE web[h].at \notin {"delete", "alert"}
      BY <1>3, <2>1, <2>3 DEF WillAlert
    <2>4. QED
      BY <2>2, <2>3
  <1>11. QED
    BY <1>4, <1>5, <1>6, <1>7, <1>8, <1>9, <1>10 DEF EndpointStatusWebhook

LEMMA OwnerKept ==
  ASSUME UptimeTypes, StatusSame, AlertsHaveRow, OwnerInv, [UptimeNext]_uptimeVars
  PROVE  OwnerInv'
  <1>1. CASE Add \/ CheckAllStatusInterval \/ UNCHANGED uptimeVars
    <2>1. UNCHANGED <<kind, statuses, alert, disturbed, web>>
      BY <1>1 DEF Add, CheckAllStatusInterval, uptimeVars, records, webhook
    <2>2. checks' = checks \/ Queues
      BY <1>1, AddFacts, CheckAllFacts DEF uptimeVars
    <2>3. OutcomesStay /\ NoAlertLost
      BY <2>2, NoneMoves
    <2>4. StillAlerts
      BY <2>1 DEF StillAlerts
    <2>5. Pending => Pending'
      BY <2>3, <2>4, PendingStays
    <2>6. QED
      BY <2>1, <2>5, QuietOwner
  <1>2. CASE IngestRequests
    BY <1>2, IngestFacts, DisturbedOwner
  <1>3. CASE Delete
    <2>1. statuses' = <<>> /\ alert' = Null
      BY <1>3 DEF Delete
    <2>2. Considered' = {}
      BY <2>1 DEF Considered
    <2>3. QED
      BY <2>1, <2>2 DEF OwnerInv
  <1>4. QED
    BY <1>1, <1>2, <1>3, OwnerTasks, OwnerWebhook DEF UptimeNext

UptimeInv == UptimeTypes /\ StatusSame /\ AlertsHaveRow /\ OwnerInv

THEOREM UptimeInvHolds == UptimeSpec => []UptimeInv
  <1>1. UptimeInit => UptimeInv
    <2> SUFFICES ASSUME UptimeInit
                 PROVE  UptimeInv
      OBVIOUS
    <2>1. UptimeTypes
      BY UptimeBegins
    <2>2. statuses = <<>> /\ checks = <<>> /\ alert = Null
      BY DEF UptimeInit
    <2>3. StatusSame /\ AlertsHaveRow
      BY <2>2 DEF StatusSame, AlertsHaveRow
    <2>4. Considered = {}
      BY <2>2 DEF Considered
    <2>5. OwnerInv
      BY <2>2, <2>4 DEF OwnerInv
    <2>6. QED
      BY <2>1, <2>3, <2>5 DEF UptimeInv
  <1>2. UptimeInv /\ [UptimeNext]_uptimeVars => UptimeInv'
    BY UptimeGoesOn, StatusSameKept, AlertsHaveRowKept, OwnerKept DEF UptimeInv
  <1>3. QED
    BY <1>1, <1>2, PTL DEF UptimeSpec

\* Once the alerts are sent, what the owner heard last is the most recent status; without
\* an alert the status never changed (check_endpoint_function, check_action,
\* endpoint_status_webhook and their alerts), but for the checks OwnerKnows exempts.
THEOREM OwnerIsTold == UptimeSpec => []OwnerKnows
  <1>1. UptimeInv => OwnerKnows
    <2> SUFFICES ASSUME UptimeInv, Settled, ~ disturbed, kind # "private", Considered # {}
                 PROVE  Told
      BY DEF OwnerKnows, Told
    <2>1. Told \/ Pending
      BY DEF UptimeInv, OwnerInv
    <2>2. ~ Pending
      BY DEF Pending, WillAlert, Settled
    <2>3. QED
      BY <2>1, <2>2
  <1>2. QED
    BY <1>1, UptimeInvHolds, PTL

-----------------------------------------------------------------------------
(* What is kept of an answer.                                               *)

RowsOfCheck(c) == {r \in requests : r.check = c}

\* The requests about a check that have found its row.
Working(c) == {h \in Handler : web[h] # Null /\ web[h].at # "begun" /\ web[h].check = c}

\* The function of the check was invoked, and did not give up.
IsSent(c) ==
  /\ c \in DOMAIN checks /\ checks[c].checker = "region"
  /\ checks[c].at \in {"invoked", "answer", "posted", "accepted"}

\* Nothing about the check changes, but how its function got on.
Still(c) ==
  /\ IsSent(c) /\ (checks'[c].at = "accepted" => checks[c].at = "accepted")
  /\ StatusesOf(c)' = StatusesOf(c) /\ RowsOfCheck(c)' = RowsOfCheck(c)
  /\ Working(c)' = Working(c) /\ \A h \in Working(c) : web'[h] = web[h]
  /\ c \in twice => c \in twice'

LEMMA SameStill ==
  ASSUME NEW c, IsSent(c), UNCHANGED <<statuses, requests, web, twice>>,
         checks'[c].at = "accepted" => checks[c].at = "accepted"
  PROVE  Still(c)
  BY DEF Still, StatusesOf, RowsOfCheck, Working

\* The step of one task, or of one request to the webhook, about another check.
LEMMA OtherTaskStill ==
  ASSUME UptimeTypes, NEW d, Moves(d), UNCHANGED <<statuses, requests, web, twice>>,
         NEW c \in DOMAIN checks', IsSent(c)', c # d
  PROVE  Still(c)
  <1>1. c \in DOMAIN checks /\ checks'[c] = checks[c]
    BY DEF Moves, TaskGoes
  <1>2. IsSent(c)
    BY <1>1 DEF IsSent
  <1>3. QED
    BY <1>1, <1>2, SameStill

LEMMA RecordsRows ==
  ASSUME UptimeTypes, NEW d, NEW status, NEW previous, Records(d, status, previous), NEW c
  PROVE  /\ c = d => \E s : s \notin StatusesOf(c) /\ StatusesOf(c)' = StatusesOf(c) \cup {s}
         /\ c # d => StatusesOf(c)' = StatusesOf(c)
  <1>1. PICK row \in StatusRow : row.check = d /\ statuses' = Append(statuses, row)
    BY DEF Records
  <1>2. PICK n : n = Len(statuses) + 1
    OBVIOUS
  <1>3. /\ DOMAIN statuses' = DOMAIN statuses \cup {n} /\ n \notin DOMAIN statuses
        /\ statuses'[n] = row /\ \A i \in DOMAIN statuses : statuses'[i] = statuses[i]
    BY <1>1, <1>2, StatusesGrow DEF UptimeTypes, UptimeTypeOK
  <1>4. CASE c = d
    <2>1. StatusesOf(c)' = StatusesOf(c) \cup {n} /\ n \notin StatusesOf(c)
      BY <1>1, <1>3, <1>4 DEF StatusesOf
    <2>2. QED
      BY <1>4, <2>1
  <1>5. CASE c # d
    <2>1. StatusesOf(c)' = StatusesOf(c)
      BY <1>1, <1>3, <1>5 DEF StatusesOf
    <2>2. QED
      BY <1>5, <2>1
  <1>6. QED
    BY <1>4, <1>5

LEMMA TaskSentCases ==
  ASSUME UptimeTypes, NEW d \in DOMAIN checks, Work(d) \/ TaskFails(d) \/ PostAgain(d),
         NEW c \in DOMAIN checks', IsSent(c)'
  PROVE  Still(c) \/ (c \in DOMAIN checks /\ InvokeLambda(c))
  <1>1. ASSUME Fetch(d)
        PROVE  Still(c)
    <2>1. /\ Moves(d) /\ UNCHANGED <<statuses, requests, web, twice>>
          /\ \/ checks'[d].at = (IF checks[d].checker = "local" THEN "fetched" ELSE "answer")
             \/ checks'[d].at = "done" /\ checks[d].checker = "local"
      BY <1>1, FetchFacts DEF OnlyChecks, records, webhook
    <2>2. CASE c # d
      BY <2>1, <2>2, OtherTaskStill
    <2>3. CASE c = d
      <3>1. checks[d].checker = "region"
        BY <2>1, <2>3 DEF IsSent, Moves, Forward
      <3>2. IsSent(c) /\ checks'[c].at = "answer"
        BY <1>1, <2>1, <2>3, <3>1 DEF Fetch, At, IsSent
      <3>3. QED
        BY <2>1, <3>2, SameStill
    <2>4. QED
      BY <2>2, <2>3
  <1>2. ASSUME Skip(d) \/ TaskFails(d) \/ Alert(d)
        PROVE  Still(c)
    <2>1. /\ Moves(d) /\ UNCHANGED <<statuses, requests, web, twice>> /\ checks'[d].at = "done"
      <3>1. CASE Skip(d)
        BY <3>1, SkipFacts DEF OnlyChecks, records, webhook
      <3>2. CASE TaskFails(d)
        BY <3>2, TaskFailsFacts DEF webhook
      <3>3. CASE Alert(d)
        BY <3>3, AlertFacts DEF webhook
      <3>4. QED
        BY <1>2, <3>1, <3>2, <3>3
    <2>2. c # d
      BY <2>1 DEF IsSent
    <2>3. QED
      BY <2>1, <2>2, OtherTaskStill
  <1>3. ASSUME ReadPrevious(d)
        PROVE  Still(c)
    <2>1. /\ Moves(d) /\ UNCHANGED <<statuses, requests, web, twice>> /\ checks'[d].at = "read"
      BY <1>3, ReadFacts DEF OnlyChecks, records, webhook
    <2>2. c # d
      BY <2>1 DEF IsSent
    <2>3. QED
      BY <2>1, <2>2, OtherTaskStill
  <1>4. ASSUME PostAgain(d)
        PROVE  Still(c)
    <2>1. /\ Moves(d) /\ UNCHANGED <<statuses, requests, web, twice>>
          /\ checks'[d].at \in {"answer", "done"}
          /\ checks[d].checker = "region" /\ checks[d].at = "posted"
      BY <1>4, PostAgainFacts DEF OnlyChecks, records, webhook, Passes
    <2>2. CASE c # d
      BY <2>1, <2>2, OtherTaskStill
    <2>3. CASE c = d
      <3>1. IsSent(c)
        BY <2>1, <2>3 DEF IsSent
      <3>2. QED
        BY <2>1, <2>3, <3>1, SameStill
    <2>4. QED
      BY <2>2, <2>3
  <1>5. ASSUME NEW status \in Outcome, CreateStatus(d, status)
        PROVE  Still(c)
    <2>1. /\ Moves(d) /\ Records(d, status, checks[d].previous) /\ UNCHANGED <<requests, web, twice>>
          /\ checks'[d].at \in {"alert", "done"}
      BY <1>5, CreateFacts DEF webhook
    <2>2. c # d
      BY <2>1 DEF IsSent
    <2>3. c \in DOMAIN checks /\ checks'[c] = checks[c]
      BY <2>1, <2>2 DEF Moves, TaskGoes
    <2>4. IsSent(c)
      BY <2>3 DEF IsSent
    <2>5. StatusesOf(c)' = StatusesOf(c)
      BY <2>1, <2>2, RecordsRows
    <2>6. QED
      BY <2>1, <2>3, <2>4, <2>5 DEF Still, RowsOfCheck, Working
  <1>6. ASSUME InvokeLambda(d), c # d
        PROVE  Still(c)
    <2>1. /\ Moves(d) /\ UNCHANGED <<statuses, web, twice>>
          /\ requests' = requests \cup {[check |-> d, pk |-> 0, received |-> FALSE]}
      BY <1>6, InvokeFacts DEF records
    <2>2. c \in DOMAIN checks /\ checks'[c] = checks[c]
      BY <1>6, <2>1 DEF Moves, TaskGoes
    <2>3. IsSent(c)
      BY <2>2 DEF IsSent
    <2>4. RowsOfCheck(c)' = RowsOfCheck(c)
      BY <1>6, <2>1 DEF RowsOfCheck
    <2>5. QED
      BY <2>1, <2>2, <2>3, <2>4 DEF Still, StatusesOf, Working
  <1>7. ASSUME NEW h \in Handler, PostToWebhook(h, d)
        PROVE  Still(c)
    <2>1. /\ Moves(d) /\ checks'[d].at = "posted" /\ checks[d].checker = "region"
          /\ checks[d].at = "answer" /\ web[h] = Null /\ WebGoes(h, web'[h])
          /\ web'[h].at = "begun" /\ UNCHANGED <<statuses, requests, twice>>
      BY <1>7, PostFacts DEF Passes, records
    <2>2. IsSent(c) /\ (checks'[c].at = "accepted" => checks[c].at = "accepted")
      <3>1. CASE c = d
        BY <2>1, <3>1 DEF IsSent
      <3>2. CASE c # d
        BY <2>1, <3>2 DEF Moves, TaskGoes, IsSent
      <3>3. QED
        BY <3>1, <3>2
    <2>3. Working(c)' = Working(c) /\ \A g \in Working(c) : web'[g] = web[g]
      BY <2>1 DEF Working, WebGoes
    <2>4. QED
      BY <2>1, <2>2, <2>3 DEF Still, StatusesOf, RowsOfCheck
  <1>8. QED
    BY <1>1, <1>2, <1>3, <1>4, <1>5, <1>6, <1>7 DEF Work

\* The step of a request leaves the others alone, and the rows of other checks.
Leaves(h) ==
  /\ \A g \in Handler \ {h} : web'[g] = web[g]
  /\ web'[h] # Null => web'[h].check = web[h].check
  /\ \A c : c # web[h].check =>
        /\ StatusesOf(c)' = StatusesOf(c) /\ RowsOfCheck(c)' = RowsOfCheck(c)
        /\ c \in twice => c \in twice'
  /\ checks' = checks \/ Responds(h, "accepted") \/ Responds(h, "answer")

LEMMA WebhookLeaves ==
  ASSUME UptimeTypes, NEW h \in Handler, EndpointStatusWebhook(h) \/ HandlerDies(h)
  PROVE  Leaves(h) /\ web[h] # Null
  <1>1. web[h] # Null
    BY DEF EndpointStatusWebhook, HandlerDies, LoadRequest, RecordAnswer, DeleteRequest,
           AlertOfAnswer, AlertFails, SaveResponse, Handles
  <1>2. web[h].at # "begun" => web[h].row \in RequestRow /\ web[h].row.check = web[h].check
    BY <1>1 DEF UptimeTypes, DeliveriesFit
  <1>3. ASSUME NEW d, WebGoes(h, d)
        PROVE  /\ \A g \in Handler \ {h} : web'[g] = web[g]
               /\ web'[h] = d
    BY <1>3 DEF WebGoes
  <1>4. ASSUME NEW at, Responds(h, at)
        PROVE  (\A g \in Handler \ {h} : web'[g] = web[g]) /\ web'[h] = Null
    BY <1>3, <1>4 DEF Responds
  <1>5. ASSUME NEW at, Continues(h, at)
        PROVE  (\A g \in Handler \ {h} : web'[g] = web[g]) /\ web'[h].check = web[h].check
    BY <1>3, <1>5 DEF Continues
  <1>6. ASSUME UNCHANGED <<statuses, requests>>, twice \subseteq twice'
        PROVE  \A c : c # web[h].check =>
                  /\ StatusesOf(c)' = StatusesOf(c) /\ RowsOfCheck(c)' = RowsOfCheck(c)
                  /\ c \in twice => c \in twice'
    BY <1>6 DEF StatusesOf, RowsOfCheck
  <1>7. ASSUME LoadRequest(h)
        PROVE  Leaves(h)
    <2>1. /\ UNCHANGED <<statuses, requests>>
          /\ \/ Responds(h, "accepted") /\ twice' = twice
             \/ \E r : Loads(h, r)
      BY <1>7, LoadFacts DEF records
    <2>2. CASE Responds(h, "accepted") /\ twice' = twice
      BY <1>4, <1>6, <2>1, <2>2 DEF Leaves
    <2>3. ASSUME NEW r, Loads(h, r)
          PROVE  Leaves(h)
      <3>1. /\ WebGoes(h, web'[h]) /\ web'[h].check = web[h].check /\ checks' = checks
            /\ twice \subseteq twice'
        BY <2>3 DEF Loads
      <3>2. QED
        BY <1>3, <1>6, <2>1, <3>1 DEF Leaves
    <2>4. QED
      BY <2>1, <2>2, <2>3
  <1>8. ASSUME RecordAnswer(h)
        PROVE  Leaves(h)
    <2>1. /\ UNCHANGED <<checks, requests, twice>>
          /\ \/ /\ Records(web[h].check, checks[web[h].check].status, web[h].previous)
                /\ Continues(h, "delete")
             \/ Continues(h, "except") /\ statuses' = statuses
      BY <1>8, AnswerFacts
    <2>2. CASE Continues(h, "except") /\ statuses' = statuses
      BY <1>5, <1>6, <2>1, <2>2 DEF Leaves
    <2>3. CASE /\ Records(web[h].check, checks[web[h].check].status, web[h].previous)
               /\ Continues(h, "delete")
      <3>1. \A c : c # web[h].check => StatusesOf(c)' = StatusesOf(c)
        BY <2>3, RecordsRows
      <3>2. QED
        BY <1>5, <2>1, <2>3, <3>1 DEF Leaves, RowsOfCheck
    <2>4. QED
      BY <2>1, <2>2, <2>3
  <1>9. ASSUME DeleteRequest(h)
        PROVE  Leaves(h)
    <2>1. /\ web[h].at = "delete" /\ requests' = requests \ {web[h].row} /\ UNCHANGED <<statuses, twice>>
          /\ \/ Continues(h, "alert") /\ checks' = checks
             \/ Responds(h, "accepted")
      BY <1>9, DeleteFacts DEF records
    <2>2. \A c : c # web[h].check =>
             StatusesOf(c)' = StatusesOf(c) /\ RowsOfCheck(c)' = RowsOfCheck(c)
      BY <1>2, <2>1 DEF StatusesOf, RowsOfCheck
    <2>3. QED
      BY <1>4, <1>5, <2>1, <2>2 DEF Leaves
  <1>10. ASSUME AlertOfAnswer(h)
         PROVE  Leaves(h)
    BY <1>4, <1>6, <1>10, AlertOfFacts DEF Leaves
  <1>11. ASSUME AlertFails(h)
         PROVE  Leaves(h)
    <2>1. /\ WebGoes(h, web'[h]) /\ web'[h].check = web[h].check
          /\ twice \subseteq twice' /\ UNCHANGED <<checks, statuses, requests>>
      BY <1>11, AlertFailsFacts
    <2>2. QED
      BY <1>3, <1>6, <2>1 DEF Leaves
  <1>12. ASSUME SaveResponse(h)
         PROVE  Leaves(h)
    <2>1. /\ web[h].at = "except" /\ UNCHANGED <<statuses, twice>>
          /\ requests' = WithResponse(web[h].row) \/ requests' = requests
          /\ Responds(h, "accepted") \/ Responds(h, "answer")
      BY <1>12, SaveFacts DEF records
    <2>2. PICK row \in RequestRow : row = web[h].row /\ row.check = web[h].check
      BY <1>2, <2>1
    <2>3. [row EXCEPT !.received = TRUE].check = web[h].check
      BY <2>2 DEF RequestRow
    <2>4. \A c : c # web[h].check =>
             StatusesOf(c)' = StatusesOf(c) /\ RowsOfCheck(c)' = RowsOfCheck(c)
      BY <2>1, <2>2, <2>3 DEF StatusesOf, RowsOfCheck, WithResponse
    <2>5. QED
      BY <1>4, <2>1, <2>4 DEF Leaves
  <1>13. ASSUME HandlerDies(h)
         PROVE  Leaves(h)
    <2>1. /\ Responds(h, "answer") /\ UNCHANGED <<statuses, requests>> /\ twice \subseteq twice'
      BY <1>13, DiesFacts
    <2>2. QED
      BY <1>4, <1>6, <2>1 DEF Leaves
  <1>14. QED
    BY <1>1, <1>7, <1>8, <1>9, <1>10, <1>11, <1>12, <1>13 DEF EndpointStatusWebhook

LEMMA WebhookSentCases ==
  ASSUME UptimeTypes, NEW h \in Handler, Leaves(h), web[h] # Null,
         NEW c \in DOMAIN checks', IsSent(c)'
  PROVE  IsSent(c) /\ (c # web[h].check => Still(c))
  <1>1. PICK d \in DOMAIN checks :
           d = web[h].check /\ checks[d].checker = "region" /\ checks[d].at \in Posted
    BY DEF UptimeTypes, DeliveriesFit
  <1>2. \/ checks' = checks
        \/ /\ checks[d].at = "posted" /\ DOMAIN checks' = DOMAIN checks
           /\ \A e \in DOMAIN checks \ {d} : checks'[e] = checks[e]
    BY <1>1 DEF Leaves, Responds, Passes, Moves, TaskGoes
  <1>3. IsSent(c)
    BY <1>1, <1>2 DEF IsSent
  <1>4. ASSUME c # d
        PROVE  Still(c)
    <2>1. checks'[c] = checks[c]
      BY <1>2, <1>3, <1>4 DEF IsSent
    <2>2. Working(c)' = Working(c) /\ \A g \in Working(c) : web'[g] = web[g]
      BY <1>1, <1>4 DEF Working, Leaves
    <2>3. QED
      BY <1>1, <1>3, <1>4, <2>1, <2>2 DEF Still, Leaves
  <1>5. QED
    BY <1>1, <1>3, <1>4

\* The command makes rows of the answered requests, and of no others.
LEMMA IngestRows ==
  ASSUME UptimeTypes, IngestRequests, NEW c
  PROVE  /\ StatusesOf(c) \subseteq StatusesOf(c)'
         /\ RowsOfCheck(c)' = {r \in RowsOfCheck(c) : ~ r.received}
         /\ (\E r \in RowsOfCheck(c) : r.received) => StatusesOf(c)' # {}
         /\ (\A r \in RowsOfCheck(c) : ~ r.received) => StatusesOf(c)' = StatusesOf(c)
         /\ \A r : RowsOfCheck(c) = {r} /\ r.received /\ StatusesOf(c) = {} =>
               \E s : StatusesOf(c)' = {s}
         /\ IsSent(c)' => IsSent(c)
         /\ checks' = checks /\ web' = web /\ twice' = twice
  <1>1. /\ requests' = requests \ Answers /\ UNCHANGED <<kind, life, checks, fetches, alert, web, twice, failures>>
        /\ \E made : statuses' = statuses \o made /\ \E order : Ingests(made, order)
    BY IngestFacts
  <1>2. PICK made, order : statuses' = statuses \o made /\ Ingests(made, order)
    BY <1>1
  <1>3. /\ made \in Seq(StatusRow) /\ order \in [DOMAIN made -> Answers]
        /\ \A i, j \in DOMAIN made : order[i] = order[j] => i = j
        /\ \A r \in Answers : \E i \in DOMAIN made : order[i] = r
        /\ \A i \in DOMAIN made : made[i].check = order[i].check
    BY <1>2 DEF Ingests
  <1>4. PICK n : n = Len(statuses)
    OBVIOUS
  <1>5. /\ n \in Nat
        /\ \A i \in DOMAIN statuses : i \in DOMAIN statuses' /\ statuses'[i] = statuses[i]
        /\ \A j \in DOMAIN made : /\ n + j \in DOMAIN statuses' /\ statuses'[n + j] = made[j]
                                  /\ n + j \notin DOMAIN statuses
        /\ \A i \in DOMAIN statuses' \ DOMAIN statuses :
              i - n \in DOMAIN made /\ statuses'[i] = made[i - n]
    BY <1>2, <1>3, <1>4, StatusesJoin DEF UptimeTypes, UptimeTypeOK
  <1>6. StatusesOf(c) \subseteq StatusesOf(c)'
    BY <1>5 DEF StatusesOf
  <1>7. RowsOfCheck(c)' = {r \in RowsOfCheck(c) : ~ r.received}
    BY <1>1 DEF RowsOfCheck, Answers
  <1>8. ASSUME NEW i \in StatusesOf(c)', i \notin StatusesOf(c)
        PROVE  \E r \in RowsOfCheck(c) : /\ r.received /\ i - n \in DOMAIN made /\ order[i - n] = r
                                         /\ i \in Int
    <2>1. i \in DOMAIN statuses' \ DOMAIN statuses /\ statuses'[i].check = c
      BY <1>5, <1>8 DEF StatusesOf
    <2>2. PICK r \in Answers : i - n \in DOMAIN made /\ order[i - n] = r /\ made[i - n].check = r.check
      BY <1>3, <1>5, <2>1
    <2>3. r.check = c
      BY <1>5, <2>1, <2>2
    <2>4. i \in Int
      <3>1. DOMAIN statuses' = 1..(n + Len(made)) /\ Len(made) \in Nat
        BY <1>2, <1>3, <1>4, StatusesJoin DEF UptimeTypes, UptimeTypeOK
      <3>2. QED
        BY <1>5, <2>1, <3>1
    <2>5. QED
      BY <2>2, <2>3, <2>4 DEF RowsOfCheck, Answers
  <1>9. ASSUME NEW r \in RowsOfCheck(c), r.received
        PROVE  \E j \in DOMAIN made : order[j] = r /\ n + j \in StatusesOf(c)'
    <2>1. PICK j \in DOMAIN made : order[j] = r
      BY <1>3, <1>9 DEF RowsOfCheck, Answers
    <2>2. n + j \in DOMAIN statuses' /\ statuses'[n + j].check = c
      BY <1>3, <1>5, <1>9, <2>1 DEF RowsOfCheck
    <2>3. QED
      BY <2>1, <2>2 DEF StatusesOf
  <1>10. (\A r \in RowsOfCheck(c) : ~ r.received) => StatusesOf(c)' = StatusesOf(c)
    BY <1>6, <1>8
  <1>11. ASSUME NEW r, RowsOfCheck(c) = {r}, r.received, StatusesOf(c) = {}
         PROVE  \E s : StatusesOf(c)' = {s}
    <2>1. PICK s : s \in StatusesOf(c)'
      BY <1>9, <1>11
    <2>2. ASSUME NEW i \in StatusesOf(c)'
          PROVE  /\ i \in Int /\ i - n \in DOMAIN made /\ order[i - n] = r
      BY <1>8, <1>11
    <2>3. ASSUME NEW i \in StatusesOf(c)'
          PROVE  i = s
      <3>1. i - n = s - n /\ i \in Int /\ s \in Int
        BY <1>3, <2>1, <2>2
      <3>2. QED
        BY <1>5, <3>1
    <2>4. StatusesOf(c)' = {s}
      BY <2>1, <2>3
    <2>5. QED
      BY <2>4
  <1>12. IsSent(c)' => IsSent(c)
    BY <1>1 DEF IsSent
  <1>13. QED
    BY <1>1, <1>6, <1>7, <1>9, <1>10, <1>11, <1>12

\* How a step concerns a check whose function was invoked.
LEMMA SentCases ==
  ASSUME UptimeTypes, [UptimeNext]_uptimeVars, NEW c \in DOMAIN checks', IsSent(c)'
  PROVE  \/ Still(c) \/ (c \in DOMAIN checks /\ InvokeLambda(c)) \/ Delete \/ IngestRequests
         \/ \E h \in Handler : /\ EndpointStatusWebhook(h) \/ HandlerDies(h)
                               /\ Leaves(h) /\ web[h] # Null /\ web[h].check = c /\ IsSent(c)
  <1>1. CASE Add \/ CheckAllStatusInterval \/ UNCHANGED uptimeVars
    <2>1. UNCHANGED <<statuses, requests, web, twice>>
      BY <1>1 DEF Add, CheckAllStatusInterval, uptimeVars, records, webhook
    <2>2. checks' = checks \/ Queues
      BY <1>1, AddFacts, CheckAllFacts DEF uptimeVars
    <2>3. c \in DOMAIN checks /\ checks'[c] = checks[c]
      BY <2>2 DEF Queues, IsSent
    <2>4. IsSent(c)
      BY <2>3 DEF IsSent
    <2>5. QED
      BY <2>1, <2>3, <2>4, SameStill
  <1>2. ASSUME NEW d \in DOMAIN checks, Work(d) \/ TaskFails(d) \/ PostAgain(d)
        PROVE  Still(c) \/ (c \in DOMAIN checks /\ InvokeLambda(c))
    BY <1>2, TaskSentCases
  <1>3. ASSUME NEW h \in Handler, EndpointStatusWebhook(h) \/ HandlerDies(h)
        PROVE  Still(c) \/ (Leaves(h) /\ web[h] # Null /\ web[h].check = c /\ IsSent(c))
    BY <1>3, WebhookLeaves, WebhookSentCases
  <1>4. QED
    BY <1>1, <1>2, <1>3 DEF UptimeNext

\* A request that has recorded its answer has a row, until the endpoint is deleted.
HandlersHaveRow ==
  life # "deleted" =>
     \A h \in Handler :
        web[h] # Null /\ web[h].at \in {"delete", "alert"} => StatusesOf(web[h].check) # {}

LEMMA WebKeeps ==
  ASSUME UptimeTypes, [UptimeNext]_uptimeVars, NEW h \in Handler, web'[h] # Null,
         web'[h].at \in {"delete", "alert"}
  PROVE  \/ web[h] # Null /\ web[h].at \in {"delete", "alert"} /\ web'[h].check = web[h].check
         \/ /\ web[h] # Null /\ web'[h].check = web[h].check
            /\ Records(web[h].check, checks[web[h].check].status, web[h].previous)
  <1>1. CASE web' = web
    BY <1>1
  <1>2. ASSUME NEW c \in DOMAIN checks, NEW g \in Handler, PostToWebhook(g, c)
        PROVE  web'[h] = web[h]
    <2>1. WebGoes(g, web'[g]) /\ web'[g].at = "begun"
      BY <1>2, PostFacts
    <2>2. h # g
      BY <2>1
    <2>3. QED
      BY <2>1, <2>2 DEF WebGoes
  <1>3. ASSUME NEW g \in Handler, EndpointStatusWebhook(g) \/ HandlerDies(g), g # h
        PROVE  web'[h] = web[h]
    BY <1>3, WebhookLeaves DEF Leaves
  <1>4. ASSUME EndpointStatusWebhook(h) \/ HandlerDies(h)
        PROVE  \/ /\ web[h] # Null /\ web[h].at \in {"delete", "alert"}
                  /\ web'[h].check = web[h].check
               \/ /\ web[h] # Null /\ web'[h].check = web[h].check
                  /\ Records(web[h].check, checks[web[h].check].status, web[h].previous)
    <2>1. ~ LoadRequest(h)
      <3>1. ASSUME LoadRequest(h) PROVE web'[h] = Null \/ web'[h].at = "read"
        BY <3>1, LoadFacts DEF Responds, WebGoes, Loads
      <3>2. QED
        BY <3>1
    <2>2. ~ AlertFails(h)
      <3>1. ASSUME AlertFails(h) PROVE web'[h].at = "except"
        BY <3>1, AlertFailsFacts
      <3>2. QED
        BY <3>1
    <2>3. ~ (AlertOfAnswer(h) \/ SaveResponse(h) \/ HandlerDies(h))
      <3>1. ASSUME AlertOfAnswer(h) \/ SaveResponse(h) \/ HandlerDies(h) PROVE web'[h] = Null
        BY <3>1, AlertOfFacts, SaveFacts, DiesFacts DEF Responds, WebGoes
      <3>2. QED
        BY <3>1
    <2>4. CASE DeleteRequest(h)
      <3>1. web[h] # Null /\ web[h].at = "delete"
        BY <2>4, DeleteFacts
      <3>2. QED
        BY <2>4, <3>1, WebhookLeaves DEF Leaves, EndpointStatusWebhook
    <2>5. CASE RecordAnswer(h)
      <3>1. /\ web[h] # Null
            /\ \/ /\ Records(web[h].check, checks[web[h].check].status, web[h].previous)
                  /\ Continues(h, "delete")
               \/ Continues(h, "except")
        BY <2>5, AnswerFacts
      <3>2. QED
        BY <3>1 DEF Continues
    <2>6. QED
      BY <1>4, <2>1, <2>2, <2>3, <2>4, <2>5 DEF EndpointStatusWebhook
  <1>5. ASSUME NEW c \in DOMAIN checks, Work(c) \/ TaskFails(c) \/ PostAgain(c)
        PROVE  web' = web \/ \E g \in Handler : PostToWebhook(g, c)
    BY <1>5 DEF Work, Fetch, Skip, ReadPrevious, Alert, InvokeLambda, CreateStatus, TaskFails,
                PostAgain, webhook
  <1>6. CASE Add \/ CheckAllStatusInterval \/ IngestRequests \/ Delete \/ UNCHANGED uptimeVars
    BY <1>1, <1>6 DEF Add, CheckAllStatusInterval, IngestRequests, Delete, uptimeVars, webhook
  <1>7. QED
    BY <1>1, <1>2, <1>3, <1>4, <1>5, <1>6 DEF UptimeNext

LEMMA HandlersHaveRowKept ==
  ASSUME UptimeTypes, HandlersHaveRow, [UptimeNext]_uptimeVars
  PROVE  HandlersHaveRow'
  <1> SUFFICES ASSUME life' # "deleted", NEW h \in Handler, web'[h] # Null,
                      web'[h].at \in {"delete", "alert"}, NEW c, c = web'[h].check
               PROVE  StatusesOf(c)' # {}
    BY DEF HandlersHaveRow, StatusesOf
  <1>1. ~ Delete /\ life # "deleted"
    BY LifeGoes DEF Delete, Add
  <1>2. \A i \in DOMAIN statuses : i \in DOMAIN statuses' /\ statuses'[i] = statuses[i]
    BY <1>1, RowsStay
  <1>3. CASE web[h] # Null /\ web[h].at \in {"delete", "alert"} /\ web'[h].check = web[h].check
    <2>1. PICK i \in DOMAIN statuses : statuses[i].check = c
      BY <1>1, <1>3 DEF HandlersHaveRow, StatusesOf
    <2>2. QED
      BY <1>2, <2>1 DEF StatusesOf
  <1>4. CASE Records(c, checks[c].status, web[h].previous)
    BY <1>4, RecordsRows
  <1>5. QED
    BY <1>3, <1>4, WebKeeps

Kept(c) == StatusesOf(c) # {} \/ \E r \in RowsOfCheck(c) : r.received

\* An answer is awaited, or was kept; it was kept if the function was told so.
KeptState(c) ==
  /\ Kept(c) \/ \E r \in RowsOfCheck(c) : ~ r.received
  /\ checks[c].at = "accepted" => Kept(c)

KeptInv == life # "deleted" => \A c \in DOMAIN checks : IsSent(c) => KeptState(c)

LEMMA KeptByWebhook ==
  ASSUME UptimeTypes, HandlersHaveRow, NEW h \in Handler, web[h] # Null, life # "deleted",
         EndpointStatusWebhook(h) \/ HandlerDies(h), NEW c, c = web[h].check, KeptState(c)
  PROVE  KeptState(c)'
  <1>1. /\ c \in DOMAIN checks /\ checks[c].checker = "region"
        /\ web[h].at # "begun" => web[h].row \in RequestRow /\ web[h].row.check = c
    BY DEF UptimeTypes, DeliveriesFit
  <1>2. ASSUME NEW at, Responds(h, at)
        PROVE  checks'[c].at = "accepted" => at = "accepted" \/ checks[c].at = "accepted"
    BY <1>2 DEF Responds, Passes
  <1>3. ASSUME UNCHANGED <<statuses, requests>>
        PROVE  Kept(c)' = Kept(c) /\ RowsOfCheck(c)' = RowsOfCheck(c)
    BY <1>3 DEF Kept, StatusesOf, RowsOfCheck
  <1>4. ASSUME UNCHANGED <<statuses, requests>>,
               checks'[c].at = "accepted" => checks[c].at = "accepted"
        PROVE  KeptState(c)'
    BY <1>3, <1>4 DEF KeptState
  <1>5. ASSUME Kept(c)'
        PROVE  KeptState(c)'
    BY <1>5 DEF KeptState
  <1>6. ASSUME LoadRequest(h)
        PROVE  KeptState(c)'
    <2>1. /\ UNCHANGED <<statuses, requests>>
          /\ \/ OpenRequests(c) = {}
             \/ checks' = checks
      BY <1>6, LoadFacts DEF records, Loads
    <2>2. CASE checks' = checks
      BY <1>4, <2>1, <2>2
    <2>3. CASE OpenRequests(c) = {}
      <3>1. Kept(c)
        BY <2>3 DEF KeptState, OpenRequests, RowsOfCheck
      <3>2. QED
        BY <1>3, <1>5, <2>1, <3>1
    <2>4. QED
      BY <2>1, <2>2, <2>3
  <1>7. ASSUME RecordAnswer(h)
        PROVE  KeptState(c)'
    <2>1. /\ UNCHANGED <<checks, requests>>
          /\ \/ Records(c, checks[c].status, web[h].previous)
             \/ statuses' = statuses
      BY <1>7, AnswerFacts
    <2>2. CASE statuses' = statuses
      BY <1>4, <2>1, <2>2
    <2>3. CASE Records(c, checks[c].status, web[h].previous)
      <3>1. StatusesOf(c)' # {}
        BY <2>3, RecordsRows
      <3>2. QED
        BY <1>5, <3>1 DEF Kept
    <2>4. QED
      BY <2>1, <2>2, <2>3
  <1>8. ASSUME DeleteRequest(h) \/ AlertOfAnswer(h)
        PROVE  KeptState(c)'
    <2>1. web[h].at \in {"delete", "alert"} /\ statuses' = statuses
      BY <1>8, DeleteFacts, AlertOfFacts DEF records
    <2>2. StatusesOf(c) # {}
      BY <2>1 DEF HandlersHaveRow
    <2>3. StatusesOf(c)' # {}
      BY <2>1, <2>2 DEF StatusesOf
    <2>4. QED
      BY <1>5, <2>3 DEF Kept
  <1>9. ASSUME AlertFails(h)
        PROVE  KeptState(c)'
    BY <1>4, <1>9, AlertFailsFacts
  <1>10. ASSUME SaveResponse(h)
         PROVE  KeptState(c)'
    <2>1. /\ web[h].at = "except" /\ statuses' = statuses
          /\ IF life = "alive"
               THEN requests' = WithResponse(web[h].row)
               ELSE requests' = requests /\ Responds(h, "answer")
      BY <1>10, SaveFacts DEF records
    <2>2. CASE life = "alive"
      <3>1. PICK row \in RequestRow : row = web[h].row /\ row.check = c
        BY <1>1, <2>1
      <3>2. PICK new : new = [row EXCEPT !.received = TRUE]
        OBVIOUS
      <3>3. new.check = c /\ new.received
        BY <3>1, <3>2 DEF RequestRow
      <3>4. new \in requests'
        BY <2>1, <2>2, <3>1, <3>2 DEF WithResponse
      <3>5. Kept(c)'
        BY <3>3, <3>4 DEF Kept, RowsOfCheck
      <3>6. QED
        BY <1>5, <3>5
    <2>3. CASE life # "alive"
      BY <1>2, <1>4, <2>1, <2>3
    <2>4. QED
      BY <2>2, <2>3
  <1>11. ASSUME HandlerDies(h)
         PROVE  KeptState(c)'
    BY <1>2, <1>4, <1>11, DiesFacts
  <1>12. QED
    BY <1>6, <1>7, <1>8, <1>9, <1>10, <1>11 DEF EndpointStatusWebhook

LEMMA KeptInvKept ==
  ASSUME UptimeTypes, HandlersHaveRow, KeptInv, [UptimeNext]_uptimeVars
  PROVE  KeptInv'
  <1> SUFFICES ASSUME life' # "deleted", NEW c \in DOMAIN checks', IsSent(c)'
               PROVE  KeptState(c)'
    BY DEF KeptInv
  <1>1. ~ Delete /\ life # "deleted"
    BY LifeGoes DEF Delete, Add
  <1>2. ASSUME IsSent(c)
        PROVE  KeptState(c)
    BY <1>1, <1>2 DEF KeptInv, IsSent
  <1>3. CASE Still(c)
    <2>1. /\ KeptState(c) /\ StatusesOf(c)' = StatusesOf(c) /\ RowsOfCheck(c)' = RowsOfCheck(c)
          /\ checks'[c].at = "accepted" => checks[c].at = "accepted"
      BY <1>2, <1>3 DEF Still
    <2>2. Kept(c)' = Kept(c)
      BY <2>1 DEF Kept
    <2>3. QED
      BY <2>1, <2>2 DEF KeptState
  <1>4. CASE c \in DOMAIN checks /\ InvokeLambda(c)
    <2>1. /\ checks'[c].at \in {"invoked", "done"}
          /\ requests' = requests \cup {[check |-> c, pk |-> 0, received |-> FALSE]}
      BY <1>4, InvokeFacts
    <2>2. \E r \in RowsOfCheck(c)' : ~ r.received
      <3>1. PICK r : r = [check |-> c, pk |-> 0, received |-> FALSE]
        OBVIOUS
      <3>2. r.check = c /\ ~ r.received /\ r \in requests'
        BY <2>1, <3>1
      <3>3. QED
        BY <3>2 DEF RowsOfCheck
    <2>3. QED
      BY <2>1, <2>2 DEF KeptState
  <1>5. CASE IngestRequests
    <2>1. /\ StatusesOf(c) \subseteq StatusesOf(c)'
          /\ RowsOfCheck(c)' = {r \in RowsOfCheck(c) : ~ r.received}
          /\ (\E r \in RowsOfCheck(c) : r.received) => StatusesOf(c)' # {}
          /\ IsSent(c) /\ checks' = checks
      BY <1>5, IngestRows
    <2>2. KeptState(c)
      BY <1>2, <2>1
    <2>3. Kept(c) => Kept(c)'
      BY <2>1 DEF Kept
    <2>4. QED
      BY <2>1, <2>2, <2>3 DEF KeptState
  <1>6. ASSUME NEW h \in Handler, EndpointStatusWebhook(h) \/ HandlerDies(h), web[h] # Null,
               web[h].check = c, IsSent(c)
        PROVE  KeptState(c)'
    BY <1>1, <1>2, <1>6, KeptByWebhook
  <1>7. QED
    BY <1>1, <1>3, <1>4, <1>5, <1>6, SentCases

-----------------------------------------------------------------------------
(* An answer is kept once.                                                  *)

OpenRow(c) == [check |-> c, pk |-> 0, received |-> FALSE]

AnsweredRow(c) == [check |-> c, pk |-> 0, received |-> TRUE]

\* Nothing was recorded; the request waits, whoever read it.
Awaited(c) ==
  /\ StatusesOf(c) = {} /\ RowsOfCheck(c) = {OpenRow(c)} /\ checks[c].at # "accepted"
  /\ \A h \in Working(c) : web[h].at \in {"read", "except"} /\ web[h].row = OpenRow(c)

\* The answer is a row, and its request is about to be deleted.
RowMade(c) ==
  /\ \E s : StatusesOf(c) = {s}
  /\ RowsOfCheck(c) = {OpenRow(c)} /\ checks[c].at # "accepted"
  /\ \E h \in Working(c) : web[h].at = "delete" /\ web[h].row = OpenRow(c)

\* The answer is a row, and no request.
RowOnly(c) ==
  /\ \E s : StatusesOf(c) = {s}
  /\ RowsOfCheck(c) = {} /\ \A h \in Working(c) : web[h].at = "alert"

\* The answer is saved with its request, and no row.
RequestOnly(c) == StatusesOf(c) = {} /\ RowsOfCheck(c) = {AnsweredRow(c)} /\ Working(c) = {}

OnceState(c) ==
  /\ \A g, h \in Working(c) : g = h
  /\ Awaited(c) \/ RowMade(c) \/ RowOnly(c) \/ RequestOnly(c)

OnceInv ==
  life # "deleted" => \A c \in DOMAIN checks : IsSent(c) /\ c \notin twice => OnceState(c)

LEMMA RowsOfCheckAre ==
  ASSUME NEW c
  PROVE  /\ OpenRow(c).check = c /\ ~ OpenRow(c).received /\ OpenRow(c).received = FALSE
         /\ AnsweredRow(c).check = c /\ AnsweredRow(c).received
         /\ [OpenRow(c) EXCEPT !.received = TRUE] = AnsweredRow(c)
         /\ OpenRow(c) # AnsweredRow(c)
  <1>1. /\ OpenRow(c).check = c /\ OpenRow(c).received = FALSE
        /\ AnsweredRow(c).check = c /\ AnsweredRow(c).received = TRUE
    BY DEF OpenRow, AnsweredRow
  <1>2. [OpenRow(c) EXCEPT !.received = TRUE] = AnsweredRow(c)
    <2>1. PICK r : r = OpenRow(c)
      OBVIOUS
    <2>2. PICK q : q = [r EXCEPT !.received = TRUE]
      OBVIOUS
    <2>3. /\ DOMAIN r = {"check", "pk", "received"}
          /\ r["check"] = c /\ r["pk"] = 0
      BY <2>1 DEF OpenRow
    <2>4. /\ DOMAIN q = {"check", "pk", "received"}
          /\ q = [x \in {"check", "pk", "received"} |-> q[x]]
          /\ q["check"] = c /\ q["pk"] = 0 /\ q["received"] = TRUE
      BY <2>2, <2>3
    <2>5. q = AnsweredRow(c)
      BY <2>4 DEF AnsweredRow
    <2>6. QED
      BY <2>1, <2>2, <2>5
  <1>3. QED
    BY <1>1, <1>2

LEMMA StillOnce ==
  ASSUME NEW c, Still(c), OnceState(c)
  PROVE  OnceState(c)'
  <1>1. /\ StatusesOf(c)' = StatusesOf(c) /\ RowsOfCheck(c)' = RowsOfCheck(c)
        /\ Working(c)' = Working(c) /\ \A h \in Working(c) : web'[h] = web[h]
        /\ checks[c].at # "accepted" => checks'[c].at # "accepted"
    BY DEF Still
  <1>2. Awaited(c) => Awaited(c)'
    BY <1>1 DEF Awaited
  <1>3. RowMade(c) => RowMade(c)'
    BY <1>1 DEF RowMade
  <1>4. (RowOnly(c) => RowOnly(c)') /\ (RequestOnly(c) => RequestOnly(c)')
    BY <1>1 DEF RowOnly, RequestOnly
  <1>5. QED
    BY <1>1, <1>2, <1>3, <1>4 DEF OnceState

\* A function that is invoked has nothing yet.
LEMMA InvokeOnce ==
  ASSUME UptimeTypes, NEW c \in DOMAIN checks, InvokeLambda(c)
  PROVE  OnceState(c)'
  <1>1. /\ checks[c].at = "queued" /\ checks'[c].at \in {"invoked", "done"}
        /\ requests' = requests \cup {OpenRow(c)} /\ UNCHANGED <<statuses, web>>
    BY InvokeFacts DEF records, OpenRow
  <1>2. StatusesOf(c) = {}
    BY <1>1 DEF UptimeTypes, StatusesFit, StatusesOf, Posted
  <1>3. RowsOfCheck(c) = {}
    BY <1>1 DEF UptimeTypes, RequestsFit, RowsOfCheck
  <1>4. Working(c) = {}
    BY <1>1 DEF UptimeTypes, DeliveriesFit, Working, Posted
  <1>5. RowsOfCheck(c)' = {OpenRow(c)}
    BY <1>1, <1>3, RowsOfCheckAre DEF RowsOfCheck
  <1>6. StatusesOf(c)' = {} /\ Working(c)' = {}
    BY <1>1, <1>2, <1>4 DEF StatusesOf, Working
  <1>7. Awaited(c)'
    BY <1>1, <1>5, <1>6 DEF Awaited
  <1>8. QED
    BY <1>6, <1>7 DEF OnceState

LEMMA IngestOnce ==
  ASSUME UptimeTypes, IngestRequests, NEW c, OnceState(c)
  PROVE  OnceState(c)'
  <1>1. /\ RowsOfCheck(c)' = {r \in RowsOfCheck(c) : ~ r.received}
        /\ (\A r \in RowsOfCheck(c) : ~ r.received) => StatusesOf(c)' = StatusesOf(c)
        /\ \A r : RowsOfCheck(c) = {r} /\ r.received /\ StatusesOf(c) = {} =>
              \E s : StatusesOf(c)' = {s}
        /\ checks' = checks /\ web' = web
    BY IngestRows
  <1>2. Working(c)' = Working(c)
    BY <1>1 DEF Working
  <1>3. CASE Awaited(c) \/ RowMade(c) \/ RowOnly(c)
    <2>1. \A r \in RowsOfCheck(c) : ~ r.received
      BY <1>3, RowsOfCheckAre DEF Awaited, RowMade, RowOnly
    <2>2. StatusesOf(c)' = StatusesOf(c) /\ RowsOfCheck(c)' = RowsOfCheck(c)
      BY <1>1, <2>1
    <2>3. Awaited(c) => Awaited(c)'
      BY <1>1, <1>2, <2>2 DEF Awaited
    <2>4. RowMade(c) => RowMade(c)'
      BY <1>1, <1>2, <2>2 DEF RowMade
    <2>5. RowOnly(c) => RowOnly(c)'
      BY <1>1, <1>2, <2>2 DEF RowOnly
    <2>6. QED
      BY <1>2, <1>3, <2>3, <2>4, <2>5 DEF OnceState
  <1>4. CASE RequestOnly(c)
    <2>1. \E s : StatusesOf(c)' = {s}
      BY <1>1, <1>4, RowsOfCheckAre DEF RequestOnly
    <2>2. RowsOfCheck(c)' = {} /\ Working(c)' = {}
      BY <1>1, <1>2, <1>4, RowsOfCheckAre DEF RequestOnly
    <2>3. RowOnly(c)'
      BY <2>1, <2>2 DEF RowOnly
    <2>4. QED
      BY <2>2, <2>3 DEF OnceState
  <1>5. QED
    BY <1>3, <1>4 DEF OnceState

\* A request that ends.
LEMMA EndOnce ==
  ASSUME UptimeTypes, NEW h \in Handler, NEW c, c = web[h].check, web[h] # Null, WebGoes(h, Null)
  PROVE  Working(c)' = Working(c) \ {h} /\ \A g \in Working(c)' : web'[g] = web[g]
  BY DEF WebGoes, Working

\* A request that goes on, and had found its row.
LEMMA GoOnce ==
  ASSUME UptimeTypes, NEW h \in Handler, NEW c, c = web[h].check, web[h] # Null,
         web[h].at # "begun", NEW at, at # "begun", Continues(h, at)
  PROVE  /\ Working(c)' = Working(c) /\ h \in Working(c) /\ web'[h].at = at
         /\ web'[h].row = web[h].row
         /\ \A g \in Working(c) \ {h} : web'[g] = web[g]
  <1>1. /\ web'[h] # Null /\ web'[h].at = at /\ web'[h].check = c /\ web'[h].row = web[h].row
        /\ \A g \in Handler \ {h} : web'[g] = web[g]
    BY DEF Continues, WebGoes
  <1>2. Working(c)' = Working(c)
    BY <1>1 DEF Working
  <1>3. h \in Working(c)
    BY DEF Working
  <1>4. QED
    BY <1>1, <1>2, <1>3 DEF Working

LEMMA LoadOnce ==
  ASSUME UptimeTypes, NEW h \in Handler, NEW c, c = web[h].check, LoadRequest(h), OnceState(c),
         c \notin twice'
  PROVE  OnceState(c)'
  <1>1. /\ web[h] # Null /\ web[h].at = "begun" /\ UNCHANGED <<statuses, requests>>
        /\ \/ OpenRequests(c) = {} /\ Responds(h, "accepted")
           \/ \E r \in OpenRequests(c) : Loads(h, r)
    BY LoadFacts DEF records
  <1>2. /\ StatusesOf(c)' = StatusesOf(c) /\ RowsOfCheck(c)' = RowsOfCheck(c)
        /\ OpenRequests(c) = {r \in RowsOfCheck(c) : ~ r.received} /\ h \notin Working(c)
    BY <1>1 DEF StatusesOf, RowsOfCheck, OpenRequests, Working
  <1>3. CASE OpenRequests(c) = {} /\ Responds(h, "accepted")
    <2>1. Working(c)' = Working(c) /\ \A g \in Working(c) : web'[g] = web[g]
      <3>1. WebGoes(h, Null) /\ web[h] # Null
        BY <1>1, <1>3 DEF Responds
      <3>2. /\ Working(c)' = Working(c) \ {h}
            /\ \A g \in Working(c)' : web'[g] = web[g]
        BY <3>1, EndOnce
      <3>3. Working(c)' = Working(c)
        BY <1>2, <3>2
      <3>4. QED
        BY <3>2, <3>3
    <2>2. RowOnly(c) \/ RequestOnly(c)
      BY <1>2, <1>3, RowsOfCheckAre DEF OnceState, Awaited, RowMade
    <2>3. RowOnly(c) => RowOnly(c)'
      BY <1>2, <2>1 DEF RowOnly
    <2>4. RequestOnly(c) => RequestOnly(c)'
      BY <1>2, <2>1 DEF RequestOnly
    <2>5. QED
      BY <2>1, <2>2, <2>3, <2>4 DEF OnceState
  <1>4. ASSUME NEW r \in OpenRequests(c), Loads(h, r)
        PROVE  OnceState(c)'
    <2>1. /\ web'[h] # Null /\ web'[h].at = "read" /\ web'[h].check = c /\ web'[h].row = r
          /\ \A g \in Handler \ {h} : web'[g] = web[g]
          /\ checks' = checks /\ Others(h) = {}
      BY <1>4 DEF Loads, WebGoes
    <2>2. Working(c) = {}
      BY <1>2, <2>1 DEF Others, Working
    <2>3. Working(c)' = {h}
      <3>1. h \in Working(c)'
        BY <2>1 DEF Working
      <3>2. ASSUME NEW g \in Working(c)', g # h PROVE FALSE
        BY <2>1, <2>2, <3>2 DEF Working
      <3>3. QED
        BY <3>1, <3>2
    <2>4. Awaited(c)
      BY <1>2, <1>4, <2>2, RowsOfCheckAre DEF OnceState, RowMade, RowOnly, RequestOnly
    <2>5. r = OpenRow(c)
      BY <1>2, <1>4, <2>4 DEF Awaited
    <2>6. Awaited(c)'
      BY <1>2, <2>1, <2>3, <2>4, <2>5 DEF Awaited
    <2>7. QED
      BY <2>3, <2>6 DEF OnceState
  <1>5. QED
    BY <1>1, <1>3, <1>4

LEMMA AnswerOnce ==
  ASSUME UptimeTypes, NEW h \in Handler, NEW c, c = web[h].check, RecordAnswer(h), OnceState(c)
  PROVE  OnceState(c)'
  <1>1. /\ web[h] # Null /\ web[h].at = "read" /\ UNCHANGED <<checks, requests>>
        /\ \/ /\ Records(c, checks[c].status, web[h].previous)
              /\ Continues(h, "delete")
           \/ Continues(h, "except") /\ statuses' = statuses
    BY AnswerFacts
  <1>2. h \in Working(c) /\ \A g \in Working(c) : g = h
    BY <1>1 DEF Working, OnceState
  <1>3. Awaited(c) /\ web[h].row = OpenRow(c)
    BY <1>1, <1>2 DEF OnceState, Awaited, RowMade, RowOnly, RequestOnly
  <1>4. RowsOfCheck(c)' = {OpenRow(c)} /\ checks'[c].at # "accepted" /\ StatusesOf(c) = {}
    BY <1>1, <1>3 DEF Awaited, RowsOfCheck
  <1>5. CASE Continues(h, "except") /\ statuses' = statuses
    <2>1. Working(c)' = Working(c) /\ web'[h].at = "except" /\ web'[h].row = web[h].row
      BY <1>1, <1>5, GoOnce
    <2>2. StatusesOf(c)' = {}
      BY <1>4, <1>5 DEF StatusesOf
    <2>3. Awaited(c)'
      BY <1>2, <1>3, <1>4, <2>1, <2>2 DEF Awaited
    <2>4. QED
      BY <1>2, <2>1, <2>3 DEF OnceState
  <1>6. CASE Records(c, checks[c].status, web[h].previous) /\ Continues(h, "delete")
    <2>1. Working(c)' = Working(c) /\ web'[h].at = "delete" /\ web'[h].row = web[h].row
      BY <1>1, <1>6, GoOnce
    <2>2. \E s : StatusesOf(c)' = {s}
      BY <1>4, <1>6, RecordsRows
    <2>3. RowMade(c)'
      BY <1>2, <1>3, <1>4, <2>1, <2>2 DEF RowMade
    <2>4. QED
      BY <1>2, <2>1, <2>3 DEF OnceState
  <1>7. QED
    BY <1>1, <1>5, <1>6

LEMMA DeleteOnce ==
  ASSUME UptimeTypes, NEW h \in Handler, NEW c, c = web[h].check, DeleteRequest(h), OnceState(c)
  PROVE  OnceState(c)'
  <1>1. /\ web[h] # Null /\ web[h].at = "delete" /\ statuses' = statuses
        /\ requests' = requests \ {web[h].row}
        /\ Continues(h, "alert") \/ Responds(h, "accepted")
    BY DeleteFacts DEF records
  <1>2. h \in Working(c) /\ \A g \in Working(c) : g = h
    BY <1>1 DEF Working, OnceState
  <1>3. RowMade(c) /\ web[h].row = OpenRow(c)
    BY <1>1, <1>2 DEF OnceState, Awaited, RowMade, RowOnly, RequestOnly
  <1>4. RowsOfCheck(c)' = {}
    BY <1>1, <1>3 DEF RowMade, RowsOfCheck
  <1>5. \E s : StatusesOf(c)' = {s}
    BY <1>1, <1>3 DEF RowMade, StatusesOf
  <1>6. CASE Continues(h, "alert")
    <2>1. Working(c)' = Working(c) /\ web'[h].at = "alert"
      BY <1>1, <1>6, GoOnce
    <2>2. RowOnly(c)'
      BY <1>2, <1>4, <1>5, <2>1 DEF RowOnly
    <2>3. QED
      BY <1>2, <2>1, <2>2 DEF OnceState
  <1>7. CASE Responds(h, "accepted")
    <2>1. Working(c)' = {}
      BY <1>1, <1>2, <1>7, EndOnce DEF Responds
    <2>2. RowOnly(c)'
      BY <1>4, <1>5, <2>1 DEF RowOnly
    <2>3. QED
      BY <2>1, <2>2 DEF OnceState
  <1>8. QED
    BY <1>1, <1>6, <1>7

LEMMA AlertOnce ==
  ASSUME UptimeTypes, NEW h \in Handler, NEW c, c = web[h].check, AlertOfAnswer(h), OnceState(c)
  PROVE  OnceState(c)'
  <1>1. /\ web[h] # Null /\ web[h].at = "alert" /\ UNCHANGED <<statuses, requests>>
        /\ Responds(h, "accepted")
    BY AlertOfFacts
  <1>2. h \in Working(c) /\ \A g \in Working(c) : g = h
    BY <1>1 DEF Working, OnceState
  <1>3. RowOnly(c)
    BY <1>1, <1>2 DEF OnceState, Awaited, RowMade, RowOnly, RequestOnly
  <1>4. Working(c)' = {}
    BY <1>1, <1>2, EndOnce DEF Responds
  <1>5. StatusesOf(c)' = StatusesOf(c) /\ RowsOfCheck(c)' = RowsOfCheck(c)
    BY <1>1 DEF StatusesOf, RowsOfCheck
  <1>6. RowOnly(c)'
    BY <1>3, <1>4, <1>5 DEF RowOnly
  <1>7. QED
    BY <1>4, <1>6 DEF OnceState

LEMMA SaveOnce ==
  ASSUME UptimeTypes, NEW h \in Handler, NEW c, c = web[h].check, SaveResponse(h), OnceState(c),
         life # "deleted"
  PROVE  OnceState(c)'
  <1>1. /\ web[h] # Null /\ web[h].at = "except" /\ statuses' = statuses
        /\ IF life = "alive"
             THEN requests' = WithResponse(web[h].row) /\ Responds(h, "accepted")
             ELSE requests' = requests /\ Responds(h, "answer")
    BY SaveFacts DEF records
  <1>2. h \in Working(c) /\ \A g \in Working(c) : g = h
    BY <1>1 DEF Working, OnceState
  <1>3. Awaited(c) /\ web[h].row = OpenRow(c)
    BY <1>1, <1>2 DEF OnceState, Awaited, RowMade, RowOnly, RequestOnly
  <1>4. life = "alive"
    <2>1. requests # {}
      BY <1>3 DEF Awaited, RowsOfCheck
    <2>2. QED
      BY <2>1 DEF UptimeTypes, GoneIsEmpty
  <1>5. requests' = (requests \ {OpenRow(c)}) \cup {AnsweredRow(c)}
    BY <1>1, <1>3, <1>4, RowsOfCheckAre DEF WithResponse
  <1>6. RowsOfCheck(c)' = {AnsweredRow(c)}
    BY <1>3, <1>5, RowsOfCheckAre DEF Awaited, RowsOfCheck
  <1>7. StatusesOf(c)' = {}
    BY <1>1, <1>3 DEF Awaited, StatusesOf
  <1>8. Working(c)' = {}
    BY <1>1, <1>2, <1>4, EndOnce DEF Responds
  <1>9. RequestOnly(c)'
    BY <1>6, <1>7, <1>8 DEF RequestOnly
  <1>10. QED
    BY <1>8, <1>9 DEF OnceState

LEMMA DiesOnce ==
  ASSUME UptimeTypes, NEW h \in Handler, NEW c, c = web[h].check, HandlerDies(h), OnceState(c),
         c \notin twice'
  PROVE  OnceState(c)'
  <1>1. /\ web[h] # Null /\ Responds(h, "answer") /\ UNCHANGED <<statuses, requests>>
        /\ web[h].at \notin {"delete", "alert"}
    BY DiesFacts
  <1>2. /\ StatusesOf(c)' = StatusesOf(c) /\ RowsOfCheck(c)' = RowsOfCheck(c)
        /\ Working(c)' = Working(c) \ {h} /\ \A g \in Working(c)' : web'[g] = web[g]
        /\ checks[c].at # "accepted" => checks'[c].at # "accepted"
    <2>1. /\ Working(c)' = Working(c) \ {h} /\ \A g \in Working(c)' : web'[g] = web[g]
      BY <1>1, EndOnce DEF Responds
    <2>2. checks[c].at # "accepted" => checks'[c].at # "accepted"
      BY <1>1 DEF Responds, Passes
    <2>3. QED
      BY <1>1, <2>1, <2>2 DEF StatusesOf, RowsOfCheck
  <1>3. ASSUME NEW g \in Working(c), web[g].at = "delete"
        PROVE  g \in Working(c)'
    BY <1>1, <1>2, <1>3
  <1>4. Awaited(c) => Awaited(c)'
    BY <1>2 DEF Awaited
  <1>5. RowMade(c) => RowMade(c)'
    BY <1>2, <1>3 DEF RowMade
  <1>6. RowOnly(c) => RowOnly(c)'
    BY <1>2 DEF RowOnly
  <1>7. RequestOnly(c) => RequestOnly(c)'
    BY <1>2 DEF RequestOnly
  <1>8. QED
    BY <1>2, <1>4, <1>5, <1>6, <1>7 DEF OnceState

LEMMA OnceInvKept ==
  ASSUME UptimeTypes, OnceInv, [UptimeNext]_uptimeVars
  PROVE  OnceInv'
  <1> SUFFICES ASSUME life' # "deleted", NEW c \in DOMAIN checks', IsSent(c)', c \notin twice'
               PROVE  OnceState(c)'
    BY DEF OnceInv
  <1>1. ~ Delete /\ life # "deleted"
    BY LifeGoes DEF Delete, Add
  <1>2. ASSUME IsSent(c), c \notin twice
        PROVE  OnceState(c)
    BY <1>1, <1>2 DEF OnceInv, IsSent
  <1>3. CASE Still(c)
    BY <1>2, <1>3, StillOnce DEF Still
  <1>4. CASE c \in DOMAIN checks /\ InvokeLambda(c)
    BY <1>4, InvokeOnce
  <1>5. CASE IngestRequests
    <2>1. IsSent(c) /\ twice' = twice
      BY <1>5, IngestRows
    <2>2. QED
      BY <1>2, <1>5, <2>1, IngestOnce
  <1>6. ASSUME NEW h \in Handler, EndpointStatusWebhook(h) \/ HandlerDies(h), web[h] # Null,
               web[h].check = c, IsSent(c)
        PROVE  OnceState(c)'
    <2>1. c \notin twice /\ ~ AlertFails(h)
      <3>1. twice \subseteq twice'
        <4>1. CASE LoadRequest(h)
          BY <4>1, LoadFacts DEF Loads
        <4>2. CASE RecordAnswer(h) \/ DeleteRequest(h) \/ AlertOfAnswer(h) \/ SaveResponse(h)
          BY <4>2 DEF RecordAnswer, DeleteRequest, AlertOfAnswer, SaveResponse
        <4>3. CASE AlertFails(h)
          BY <4>3, AlertFailsFacts
        <4>4. CASE HandlerDies(h)
          BY <4>4, DiesFacts
        <4>5. QED
          BY <1>6, <4>1, <4>2, <4>3, <4>4 DEF EndpointStatusWebhook
      <3>2. ASSUME AlertFails(h) PROVE FALSE
        BY <1>6, <3>2, AlertFailsFacts
      <3>3. QED
        BY <3>1, <3>2
    <2>2. OnceState(c)
      BY <1>2, <1>6, <2>1
    <2>3. QED
      BY <1>1, <1>6, <2>1, <2>2, LoadOnce, AnswerOnce, DeleteOnce, AlertOnce, SaveOnce, DiesOnce
         DEF EndpointStatusWebhook
  <1>7. QED
    BY <1>1, <1>3, <1>4, <1>5, <1>6, SentCases

AnswerInv == UptimeTypes /\ HandlersHaveRow /\ KeptInv /\ OnceInv

THEOREM AnswerInvHolds == UptimeSpec => []AnswerInv
  <1>1. UptimeInit => AnswerInv
    <2> SUFFICES ASSUME UptimeInit
                 PROVE  AnswerInv
      OBVIOUS
    <2>1. UptimeTypes
      BY UptimeBegins
    <2>2. checks = <<>> /\ web = [h \in Handler |-> Null]
      BY DEF UptimeInit
    <2>3. KeptInv /\ OnceInv
      BY <2>2 DEF KeptInv, OnceInv
    <2>4. HandlersHaveRow
      BY <2>2 DEF HandlersHaveRow
    <2>5. QED
      BY <2>1, <2>3, <2>4 DEF AnswerInv
  <1>2. AnswerInv /\ [UptimeNext]_uptimeVars => AnswerInv'
    BY UptimeGoesOn, HandlersHaveRowKept, KeptInvKept, OnceInvKept DEF AnswerInv
  <1>3. QED
    BY <1>1, <1>2, PTL DEF UptimeSpec

LEMMA OneOfEach ==
  ASSUME NEW S, NEW R,
         ((\E s : S = {s}) /\ R = {}) \/ (S = {} /\ (\E r : R = {r}))
  PROVE  Cardinality(S) + Cardinality(R) = 1
  <1>1. \A T : T = {} => Cardinality(T) = 0
    BY FS_EmptySet
  <1>2. \A T : \A x : T = {x} => Cardinality(T) = 1
    BY FS_Singleton
  <1>3. /\ (\E s : S = {s}) => Cardinality(S) = 1
        /\ (\E s : R = {s}) => Cardinality(R) = 1
        /\ S = {} => Cardinality(S) = 0
        /\ R = {} => Cardinality(R) = 0
    BY <1>1, <1>2
  <1>4. PICK i, j : i = Cardinality(S) /\ j = Cardinality(R)
    OBVIOUS
  <1>5. (i = 1 /\ j = 0) \/ (i = 0 /\ j = 1)
    BY <1>3, <1>4, Zenon
  <1>6. i + j = 1
    BY <1>5
  <1>7. QED
    BY <1>4, <1>6, Zenon

\* An answer that endpoint_status_webhook accepted is kept, as a status or with its
\* request; and once, unless deliveries of it overlapped or a handler failed half way.
THEOREM AnswersAreKeptOnce == UptimeSpec => []AnswerIsKeptOnce
  <1>1. AnswerInv => AnswerIsKeptOnce
    <2> SUFFICES ASSUME AnswerInv, NEW c \in DOMAIN checks, checks[c].at = "accepted",
                        life = "alive"
                 PROVE  /\ StatusesOf(c) # {} \/ \E r \in RowsOfCheck(c) : r.received
                        /\ c \notin twice =>
                             Cardinality(StatusesOf(c)) + Cardinality(RowsOfCheck(c)) = 1
      BY DEF AnswerIsKeptOnce, RowsOfCheck
    <2>1. IsSent(c)
      BY StepsAre DEF AnswerInv, UptimeTypes, ChecksFit, FitsKind, IsSent
    <2>2. KeptState(c) /\ (c \notin twice => OnceState(c))
      BY <2>1 DEF AnswerInv, KeptInv, OnceInv
    <2>3. Kept(c)
      BY <2>2 DEF KeptState
    <2>4. c \notin twice => RowOnly(c) \/ RequestOnly(c)
      BY <2>2 DEF OnceState, Awaited, RowMade
    <2>5. ASSUME c \notin twice
          PROVE  Cardinality(StatusesOf(c)) + Cardinality(RowsOfCheck(c)) = 1
      <3>1. \/ ((\E s : StatusesOf(c) = {s}) /\ RowsOfCheck(c) = {})
            \/ (StatusesOf(c) = {} /\ (\E r : RowsOfCheck(c) = {r}))
        BY <2>4, <2>5 DEF RowOnly, RequestOnly
      <3>2. QED
        BY <3>1, OneOfEach
    <2>6. QED
      BY <2>3, <2>5 DEF Kept
  <1>2. QED
    BY <1>1, AnswerInvHolds, PTL
===============================================================================

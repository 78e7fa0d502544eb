------------------------------ MODULE BlogProofs ------------------------------
(***************************************************************************)
(* Proofs about Comments, for any number of comments, users, requests and  *)
(* votes.                                                                  *)
(***************************************************************************)
EXTENDS Comments, KnowledgeGraph, FunctionTheorems, FiniteSetTheorems,
        SequenceTheorems, NaturalsInduction, WellFoundedInduction, TLAPS

-----------------------------------------------------------------------------
(* The inductive invariant.                                                 *)

\* A request knows its comment, and a vote it goes on to write is its voter's.
RequestsKnow ==
    \A w \in Web :
        /\ step[w] # "idle" => about[w] \in Comment
        /\ step[w] \in {"look", "remove", "change", "create"} =>
              /\ held[w] \in Vote
              /\ held[w].user = voter[w]
              /\ held[w].comment = about[w]

\* The rows there are, and those that requests remember.
Known == votes \cup {held[w] : w \in {x \in Web : step[x] \in {"remove", "change"}}}

SameRow(v, x) == v.id = x.id /\ v.user = x.user /\ v.comment = x.comment

\* A number was given to one row only, also when that row is gone.
RowsAreKnown ==
    \A v \in Known : v.id \in 1..issued /\ \A x \in Known : v.id = x.id => SameRow(v, x)

IInv ==
    /\ TypeOK
    /\ RequestsKnow
    /\ RowsAreKnown
    /\ OneVotePerUser
    /\ NothingDangles
    /\ NoMoreVotesThanUsers

-----------------------------------------------------------------------------
(* Counting.                                                                *)

\* As a user has one vote, both counts together stay within the number of users.
LEMMA TallyIsBounded ==
  ASSUME votes \subseteq Vote, OneVotePerUser, NEW c
  PROVE  /\ Tally(c) \in Counts
         /\ Tally(c).upvotes + Tally(c).downvotes <= Cardinality(User)
  <1> DEFINE Up == VotesOn(c, "upvote")
             Down == VotesOn(c, "downvote")
             f == [v \in Up \cup Down |-> v.user]
  <1>1. f \in [Up \cup Down -> User]
    BY DEF VotesOn, Vote
  <1>2. ASSUME NEW v \in Up \cup Down, NEW x \in Up \cup Down, f[v] = f[x]
        PROVE  v = x
    BY <1>2 DEF VotesOn, OneVotePerUser
  <1>3. f \in Injection(Up \cup Down, User)
    BY <1>1, <1>2, Fun_IsInj
  <1>4. IsFiniteSet(Up \cup Down) /\ Cardinality(Up \cup Down) <= Cardinality(User)
    BY <1>3, UserAssumption, FS_Injection
  <1>5. IsFiniteSet(Up) /\ IsFiniteSet(Down)
    BY <1>4, FS_Subset
  <1>6. Up \cap Down = {}
    BY DEF VotesOn
  <1>7. Cardinality(Up \cup Down) = Cardinality(Up) + Cardinality(Down) - Cardinality(Up \cap Down)
    BY <1>5, FS_Union
  <1>8. Cardinality(Up \cap Down) = 0
    BY <1>6, FS_EmptySet
  <1>9. Cardinality(Up) \in Nat /\ Cardinality(Down) \in Nat /\ Cardinality(User) \in Nat
    BY <1>5, UserAssumption, FS_CardinalityType
  <1>10. Cardinality(Up) + Cardinality(Down) <= Cardinality(User)
    BY <1>4, <1>7, <1>8, <1>9
  <1>11. QED
    BY <1>9, <1>10 DEF Tally, Counts

-----------------------------------------------------------------------------
(* Type correctness.                                                        *)

LEMMA InitTypeOK == Init => TypeOK
  BY BoundAssumption DEF Init, TypeOK, Steps, Counts, NoCounts

LEMMA EndType ==
  ASSUME TypeOK, NEW w \in Web, End(w)
  PROVE  /\ step' \in [Web -> Steps] /\ about' \in [Web -> Comment \cup {NoComment}]
         /\ voter' \in [Web -> User \cup {NoUser}] /\ held' \in [Web -> Vote \cup {NoVote}]
         /\ seen' \in [Web -> Counts] /\ requests' \in 0..MaxRequests
  BY DEF End, Proceed, TypeOK, Steps, Counts, NoCounts

LEMMA LoadType ==
  ASSUME TypeOK, NEW w \in Web, NEW next \in Steps, NEW c \in Comment, Load(w, next, c)
  PROVE  /\ step' \in [Web -> Steps] /\ about' \in [Web -> Comment \cup {NoComment}]
         /\ requests' \in 0..MaxRequests
  BY BoundAssumption DEF Load, CountRequest, TypeOK

LEMMA InsertType ==
  ASSUME TypeOK, NEW c \in Comment, NEW p \in Comment \cup {NoComment}, Insert(c, p)
  PROVE  /\ status' \in [Comment -> Status \cup {"unposted", "deleted"}]
         /\ parent' \in [Comment -> Comment \cup {NoComment}]
         /\ counts' \in [Comment -> Counts]
  BY DEF Insert, TypeOK, Status

\* Posting, moderating, deleting and loading keep the types.
LEMMA StaffTypeOK ==
  ASSUME TypeOK, Staff \/ \E c \in Comment : Submit(c)
  PROVE  TypeOK'
  <1>1. ASSUME NEW c \in Comment, Submit(c)
        PROVE  TypeOK'
    <2>1. requests' \in 0..MaxRequests
      BY <1>1, BoundAssumption DEF Submit, CountRequest, TypeOK
    <2>2. QED
      BY <1>1, <2>1, InsertType DEF Submit, TypeOK, ballots, web
  <1>2. ASSUME NEW c \in Comment, NEW s \in Status, Moderate(c, s)
        PROVE  TypeOK'
    BY <1>2, BoundAssumption DEF Moderate, CountRequest, TypeOK, ballots, web
  <1>3. ASSUME NEW c \in Comment, Delete(c)
        PROVE  TypeOK'
    <2>1. requests' \in 0..MaxRequests
      BY <1>3, BoundAssumption DEF Delete, CountRequest, TypeOK
    <2>2. /\ status' \in [Comment -> Status \cup {"unposted", "deleted"}]
          /\ parent' \in [Comment -> Comment \cup {NoComment}]
          /\ counts' \in [Comment -> Counts]
      BY <1>3 DEF Delete, TypeOK, Counts, NoCounts
    <2>3. votes' \subseteq Vote /\ disturbed' \subseteq Comment
      BY <1>3 DEF Delete, TypeOK
    <2>4. QED
      BY <1>3, <2>1, <2>2, <2>3 DEF Delete, TypeOK, web
  <1>4. ASSUME NEW u \in User, DeleteUser(u)
        PROVE  TypeOK'
    <2>1. requests' \in 0..MaxRequests
      BY <1>4, BoundAssumption DEF DeleteUser, CountRequest, TypeOK
    <2>2. votes' \subseteq Vote /\ members' \subseteq User
      BY <1>4 DEF DeleteUser, TypeOK
    <2>3. disturbed' \subseteq Comment
      BY <1>4 DEF DeleteUser, TypeOK, Vote
    <2>4. QED
      BY <1>4, <2>1, <2>2, <2>3 DEF DeleteUser, TypeOK, comments, web
  <1>5. QED
    BY <1>1, <1>2, <1>3, <1>4 DEF Staff

LEMMA VisitTypeOK ==
  ASSUME TypeOK, NEW w \in Web, NEW c \in Comment, Visit(w, c)
  PROVE  TypeOK'
  <1>1. CASE LoadParent(w, c)
    <2>1. Load(w, "reply", c) /\ "reply" \in Steps
      BY <1>1 DEF LoadParent, Steps
    <2>2. QED
      BY <1>1, <2>1, LoadType DEF LoadParent, TypeOK, comments, ballots
  <1>2. CASE LoadForm(w, c)
    <2>1. Load(w, "form", c) /\ "form" \in Steps
      BY <1>2 DEF LoadForm, Steps
    <2>2. seen' \in [Web -> Counts]
      BY <1>2 DEF LoadForm, TypeOK
    <2>3. QED
      BY <1>2, <2>1, <2>2, LoadType DEF LoadForm, TypeOK, comments, ballots
  <1>3. ASSUME NEW u \in User, NEW type \in VoteType, LoadComment(w, u, c, type)
        PROVE  TypeOK'
    <2>1. Load(w, "look", c) /\ "look" \in Steps
      BY <1>3 DEF LoadComment, Steps
    <2>2. [id |-> 0, comment |-> c, user |-> u, type |-> type] \in Vote
      BY BoundAssumption DEF Vote
    <2>3. voter' \in [Web -> User \cup {NoUser}] /\ held' \in [Web -> Vote \cup {NoVote}]
      BY <1>3, <2>2 DEF LoadComment, TypeOK
    <2>4. QED
      BY <1>3, <2>1, <2>3, LoadType DEF LoadComment, TypeOK, comments, ballots
  <1>4. QED
    BY <1>1, <1>2, <1>3 DEF Visit

\* So does the rest of a request; counting needs that users have one vote.
LEMMA ContinueTypeOK ==
  ASSUME TypeOK, RequestsKnow, OneVotePerUser, NEW w \in Web, Continue(w)
  PROVE  TypeOK'
  <1>1. CASE SaveReply(w)
    <2>1. /\ status' \in [Comment -> Status \cup {"unposted", "deleted"}]
          /\ parent' \in [Comment -> Comment \cup {NoComment}]
          /\ counts' \in [Comment -> Counts]
      BY <1>1, InsertType DEF SaveReply, TypeOK, comments, Live
    <2>2. QED
      BY <1>1, <2>1, EndType DEF SaveReply, TypeOK, ballots
  <1>2. CASE SaveForm(w)
    <2>1. about[w] \in Comment
      BY <1>2 DEF SaveForm, RequestsKnow
    <2>2. /\ status' \in [Comment -> Status \cup {"unposted", "deleted"}]
          /\ parent' \in [Comment -> Comment \cup {NoComment}]
          /\ counts' \in [Comment -> Counts]
      BY <1>2, <2>1 DEF SaveForm, TypeOK, Live
    <2>3. disturbed' \subseteq Comment
      BY <1>2, <2>1 DEF SaveForm, Note, TypeOK
    <2>4. QED
      BY <1>2, <2>2, <2>3, EndType DEF SaveForm, TypeOK, ballots
  <1>3. CASE LookUp(w)
    <2>1. step' \in [Web -> Steps]
      BY <1>3 DEF LookUp, Proceed, TypeOK, Steps
    <2>2. held[w].type \in VoteType
      BY <1>3 DEF LookUp, RequestsKnow, Vote
    <2>3. ASSUME NEW v \in VoteOf(voter[w], about[w])
          PROVE  [v EXCEPT !.type = held[w].type] \in Vote
      BY <2>2, <2>3 DEF VoteOf, TypeOK, Vote
    <2>4. held' \in [Web -> Vote \cup {NoVote}]
      BY <1>3, <2>3 DEF LookUp, TypeOK
    <2>5. QED
      BY <1>3, <2>1, <2>4 DEF LookUp, TypeOK, comments, ballots
  <1>4. CASE RemoveVote(w)
    <2>1. step' \in [Web -> Steps] /\ votes' \subseteq Vote
      BY <1>4 DEF RemoveVote, Proceed, TypeOK, Steps
    <2>2. QED
      BY <1>4, <2>1 DEF RemoveVote, TypeOK, comments
  <1>5. ASSUME NEW these \in SUBSET Vote, Cast(w, these) \/ Refuse(w)
        PROVE  /\ step' \in [Web -> Steps] /\ about' \in [Web -> Comment \cup {NoComment}]
               /\ voter' \in [Web -> User \cup {NoUser}] /\ held' \in [Web -> Vote \cup {NoVote}]
               /\ seen' \in [Web -> Counts] /\ requests' \in 0..MaxRequests
               /\ votes' \subseteq Vote
    <2>1. CASE Cast(w, these)
      BY <1>5, <2>1 DEF Cast, Proceed, TypeOK, Steps
    <2>2. CASE Refuse(w)
      BY <1>5, <2>2, EndType DEF Refuse, TypeOK
    <2>3. QED
      BY <1>5, <2>1, <2>2
  <1>6. CASE Change(w)
    <2>1. held[w] \in Vote
      BY <1>6 DEF Change, RequestsKnow
    <2>2. {v \in votes : v.id # held[w].id} \cup {held[w]} \in SUBSET Vote
      BY <2>1 DEF TypeOK
    <2>3. Cast(w, {v \in votes : v.id # held[w].id} \cup {held[w]}) \/ Refuse(w)
      BY <1>6 DEF Change
    <2>4. QED
      BY <1>6, <2>2, <2>3, <1>5 DEF Change, TypeOK, comments
  <1>7. CASE Create(w)
    <2>1. held[w] \in Vote
      BY <1>7 DEF Create, RequestsKnow
    <2>2. issued' \in 0..MaxVotes
      BY <1>7, BoundAssumption DEF Create, TypeOK
    <2>3. CASE MayInsert(held[w])
      <3>1. issued + 1 \in 0..MaxVotes
        BY <1>7, <2>3, BoundAssumption DEF Create, TypeOK
      <3>2. votes \cup {[held[w] EXCEPT !.id = issued + 1]} \in SUBSET Vote
        BY <2>1, <3>1 DEF TypeOK, Vote
      <3>3. QED
        BY <1>7, <2>2, <2>3, <3>2, <1>5 DEF Create, TypeOK, comments
    <2>4. CASE ~MayInsert(held[w])
      BY <1>7, <2>2, <2>4, <1>5 DEF Create, TypeOK, comments
    <2>5. QED
      BY <2>3, <2>4
  <1>8. CASE CountVotes(w)
    <2>1. Tally(about[w]) \in Counts
      BY TallyIsBounded DEF TypeOK
    <2>2. step' \in [Web -> Steps] /\ seen' \in [Web -> Counts]
      BY <1>8, <2>1 DEF CountVotes, Proceed, TypeOK, Steps
    <2>3. QED
      BY <1>8, <2>2 DEF CountVotes, TypeOK, comments, ballots
  <1>9. CASE WriteCounts(w)
    <2>1. /\ step' \in [Web -> Steps] /\ about' \in [Web -> Comment \cup {NoComment}]
          /\ voter' \in [Web -> User \cup {NoUser}] /\ held' \in [Web -> Vote \cup {NoVote}]
          /\ seen' \in [Web -> Counts] /\ requests' \in 0..MaxRequests
      <3>1. CASE End(w)
        BY <3>1, EndType
      <3>2. CASE Proceed(w, "recount") /\ UNCHANGED <<about, voter, held, seen, requests>>
        BY <3>2 DEF Proceed, TypeOK, Steps
      <3>3. QED
        BY <1>9, <3>1, <3>2 DEF WriteCounts
    <2>2. counts' \in [Comment -> Counts] /\ disturbed' \subseteq Comment
      BY <1>9 DEF WriteCounts, Note, TypeOK, Live
    <2>3. QED
      BY <1>9, <2>1, <2>2 DEF WriteCounts, TypeOK, ballots
  <1>10. CASE Abandon(w)
    <2>1. about[w] \in Comment
      BY <1>10 DEF Abandon, RequestsKnow
    <2>2. disturbed' \subseteq Comment /\ faults' \in 0..MaxFaults
      BY <1>10, <2>1, BoundAssumption DEF Abandon, Note, TypeOK
    <2>3. QED
      BY <1>10, <2>2, EndType DEF Abandon, TypeOK, comments, ballots
  <1>11. QED
    BY <1>1, <1>2, <1>3, <1>4, <1>6, <1>7, <1>8, <1>9, <1>10 DEF Continue

LEMMA StepTypeOK ==
  ASSUME TypeOK, RequestsKnow, OneVotePerUser, [Next]_vars
  PROVE  TypeOK'
  <1>1. CASE Next
    BY <1>1, StaffTypeOK, VisitTypeOK, ContinueTypeOK DEF Next
  <1>2. CASE UNCHANGED vars
    BY <1>2 DEF vars, comments, ballots, web, TypeOK
  <1>3. QED
    BY <1>1, <1>2

-----------------------------------------------------------------------------
(* What requests know.                                                      *)

\* A request that ends, or that takes a step and keeps the rest, knows what it knew.
LEMMA OthersKnow ==
  ASSUME TypeOK, RequestsKnow, NEW w \in Web,
         \/ End(w)
         \/ /\ \E next \in {"count", "recount", "write", "rewrite"} : Proceed(w, next)
            /\ step[w] # "idle"
            /\ UNCHANGED <<about, voter, held>>
  PROVE  RequestsKnow'
  <1>1. CASE End(w)
    BY <1>1 DEF End, Proceed, TypeOK, RequestsKnow
  <1>2. CASE /\ \E next \in {"count", "recount", "write", "rewrite"} : Proceed(w, next)
             /\ step[w] # "idle"
             /\ UNCHANGED <<about, voter, held>>
    BY <1>2 DEF Proceed, TypeOK, RequestsKnow
  <1>3. QED
    BY <1>1, <1>2

LEMMA StepKnows ==
  ASSUME TypeOK, RequestsKnow, [Next]_vars
  PROVE  RequestsKnow'
  <1>1. CASE UNCHANGED web
    BY <1>1 DEF web, RequestsKnow
  <1>2. ASSUME NEW w \in Web, NEW c \in Comment, Visit(w, c)
        PROVE  RequestsKnow'
    <2>1. CASE LoadParent(w, c) \/ LoadForm(w, c)
      BY <1>2, <2>1 DEF LoadParent, LoadForm, Load, TypeOK, RequestsKnow
    <2>2. ASSUME NEW u \in User, NEW type \in VoteType, LoadComment(w, u, c, type)
          PROVE  RequestsKnow'
      <3>1. [id |-> 0, comment |-> c, user |-> u, type |-> type] \in Vote
        BY BoundAssumption DEF Vote
      <3>2. QED
        BY <2>2, <3>1 DEF LoadComment, Load, TypeOK, RequestsKnow
    <2>3. QED
      BY <1>2, <2>1, <2>2 DEF Visit
  <1>3. ASSUME NEW w \in Web, LookUp(w)
        PROVE  RequestsKnow'
    <2>1. /\ about[w] \in Comment /\ held[w] \in Vote
          /\ held[w].user = voter[w] /\ held[w].comment = about[w]
      BY <1>3 DEF LookUp, RequestsKnow
    <2>2. CASE Proceed(w, "create") /\ UNCHANGED held
      BY <1>3, <2>1, <2>2 DEF LookUp, Proceed, TypeOK, RequestsKnow
    <2>3. ASSUME NEW v \in VoteOf(voter[w], about[w]),
                 Proceed(w, IF v.type = held[w].type THEN "remove" ELSE "change"),
                 held' = [held EXCEPT ![w] = [v EXCEPT !.type = held[w].type]]
          PROVE  RequestsKnow'
      <3>1. /\ [v EXCEPT !.type = held[w].type] \in Vote
            /\ [v EXCEPT !.type = held[w].type].user = voter[w]
            /\ [v EXCEPT !.type = held[w].type].comment = about[w]
        BY <2>1 DEF VoteOf, TypeOK, Vote
      <3>2. QED
        BY <1>3, <2>1, <2>3, <3>1 DEF LookUp, Proceed, TypeOK, RequestsKnow
    <2>4. QED
      BY <1>3, <2>2, <2>3 DEF LookUp
  <1>4. ASSUME NEW w \in Web, Continue(w), ~LookUp(w)
        PROVE  RequestsKnow'
    <2>1. CASE SaveReply(w) \/ SaveForm(w) \/ Abandon(w)
      BY <2>1, OthersKnow DEF SaveReply, SaveForm, Abandon
    <2>2. CASE RemoveVote(w) \/ CountVotes(w)
      BY <2>2, OthersKnow DEF RemoveVote, CountVotes
    <2>3. CASE Change(w) \/ Create(w)
      BY <2>3, OthersKnow DEF Change, Create, Cast, Refuse
    <2>4. CASE WriteCounts(w)
      BY <2>4, OthersKnow DEF WriteCounts
    <2>5. QED
      BY <1>4, <2>1, <2>2, <2>3, <2>4 DEF Continue
  <1>5. QED
    BY <1>1, <1>2, <1>3, <1>4
    DEF Next, Staff, Submit, Moderate, Delete, DeleteUser, vars

-----------------------------------------------------------------------------
(* Rows.                                                                    *)

\* What is known stays unambiguous when nothing is known that was not.
LEMMA NothingNewKnown ==
  ASSUME RowsAreKnown, issued' = issued,
         \A v \in Known' : \E x \in Known : SameRow(v, x)
  PROVE  RowsAreKnown'
  <1> SUFFICES ASSUME NEW v \in Known'
               PROVE  /\ v.id \in 1..issued'
                      /\ \A y \in Known' : v.id = y.id => SameRow(v, y)
    BY DEF RowsAreKnown
  <1>1. PICK x \in Known : SameRow(v, x)
    OBVIOUS
  <1>2. v.id \in 1..issued'
    BY <1>1 DEF RowsAreKnown, SameRow
  <1>3. ASSUME NEW y \in Known', v.id = y.id
        PROVE  SameRow(v, y)
    <2>1. PICK z \in Known : SameRow(y, z)
      OBVIOUS
    <2>2. SameRow(x, z)
      BY <1>1, <1>3, <2>1 DEF RowsAreKnown, SameRow
    <2>3. QED
      BY <1>1, <2>1, <2>2 DEF SameRow
  <1>4. QED
    BY <1>2, <1>3

\* The requests that remember a row remember the one they did.
RemembersNoMore ==
    \A x \in Web : step'[x] \in {"remove", "change"} =>
        step[x] \in {"remove", "change"} /\ held'[x] = held[x]

LEMMA GoingOnRemembers ==
  ASSUME TypeOK, NEW w \in Web,
         \/ UNCHANGED web
         \/ End(w)
         \/ /\ \E next \in Steps \ {"remove", "change"} : step' = [step EXCEPT ![w] = next]
            /\ \A x \in Web \ {w} : held'[x] = held[x]
  PROVE  RemembersNoMore
  <1>1. CASE UNCHANGED web
    BY <1>1 DEF web, RemembersNoMore
  <1>2. CASE End(w)
    BY <1>2 DEF End, Proceed, TypeOK, RemembersNoMore
  <1>3. CASE /\ \E next \in Steps \ {"remove", "change"} : step' = [step EXCEPT ![w] = next]
             /\ \A x \in Web \ {w} : held'[x] = held[x]
    BY <1>3 DEF TypeOK, RemembersNoMore
  <1>4. QED
    BY <1>1, <1>2, <1>3

LEMMA KnownRowsStay ==
  ASSUME RowsAreKnown, issued' = issued, votes' \subseteq Known, RemembersNoMore
  PROVE  RowsAreKnown'
  <1>1. ASSUME NEW v \in Known'
        PROVE  v \in Known
    BY <1>1 DEF Known, RemembersNoMore
  <1>2. QED
    BY <1>1, NothingNewKnown DEF SameRow

LEMMA LookUpKnows ==
  ASSUME TypeOK, RowsAreKnown, NEW w \in Web, LookUp(w)
  PROVE  RowsAreKnown'
  <1>1. CASE Proceed(w, "create") /\ UNCHANGED held
    <2>1. RemembersNoMore
      BY <1>1, GoingOnRemembers DEF Proceed, Steps
    <2>2. QED
      BY <2>1, KnownRowsStay DEF LookUp, ballots, Known
  <1>2. ASSUME NEW v \in VoteOf(voter[w], about[w]), NEW next \in {"remove", "change"},
               Proceed(w, next),
               held' = [held EXCEPT ![w] = [v EXCEPT !.type = held[w].type]]
        PROVE  RowsAreKnown'
    <2>1. v \in Known /\ v \in Vote
      BY DEF VoteOf, Known, TypeOK
    <2>2. SameRow([v EXCEPT !.type = held[w].type], v)
      BY <2>1 DEF Vote, SameRow
    <2>3. \A x \in Known' : x \in Known \/ x = [v EXCEPT !.type = held[w].type]
      BY <1>2 DEF LookUp, Proceed, TypeOK, ballots, Known
    <2>4. \A x \in Known' : \E y \in Known : SameRow(x, y)
      BY <2>1, <2>2, <2>3 DEF SameRow
    <2>5. QED
      BY <2>4, NothingNewKnown DEF LookUp, ballots
  <1>3. QED
    BY <1>1, <1>2 DEF LookUp

\* A new row has a number that no row had.
LEMMA CreateKnows ==
  ASSUME TypeOK, RequestsKnow, RowsAreKnown, NEW w \in Web, Create(w)
  PROVE  RowsAreKnown'
  <1>1. CASE ~MayInsert(held[w])
    BY <1>1, GoingOnRemembers, KnownRowsStay DEF Create, Refuse, Known
  <1>2. CASE MayInsert(held[w])
    <2> DEFINE new == [held[w] EXCEPT !.id = issued + 1]
    <2>1. held[w] \in Vote
      BY DEF Create, RequestsKnow
    <2>2. new.id = issued + 1
      BY <2>1 DEF Vote
    <2>3. /\ votes' = votes \cup {new} /\ issued' = issued + 1
          /\ Proceed(w, "count") /\ UNCHANGED held
      BY <1>2 DEF Create, Cast
    <2>4. RemembersNoMore
      BY <2>3, GoingOnRemembers DEF Proceed, Steps
    <2>5. \A x \in Known' : x \in Known \/ x = new
      BY <2>3, <2>4 DEF Known, RemembersNoMore
    <2>6. issued \in Nat
      BY BoundAssumption DEF TypeOK
    <2>7. \A x \in Known : x.id \in 1..issued /\ x.id # new.id
      BY <2>2, <2>6 DEF RowsAreKnown
    <2>8. new.id \in 1..issued' /\ \A x \in Known : x.id \in 1..issued'
      BY <2>2, <2>3, <2>6, <2>7
    <2>9. \A x, y \in Known' : x.id = y.id => SameRow(x, y)
      BY <2>5, <2>7 DEF RowsAreKnown, SameRow
    <2>10. QED
      BY <2>5, <2>8, <2>9 DEF RowsAreKnown
  <1>3. QED
    BY <1>1, <1>2

LEMMA StepRowsAreKnown ==
  ASSUME TypeOK, RequestsKnow, RowsAreKnown, [Next]_vars
  PROVE  RowsAreKnown'
  <1>1. CASE UNCHANGED web /\ votes' \subseteq votes /\ issued' = issued
    <2>1. RemembersNoMore
      BY <1>1 DEF web, RemembersNoMore
    <2>2. QED
      BY <1>1, <2>1, KnownRowsStay DEF Known
  <1>2. ASSUME NEW w \in Web, NEW c \in Comment, Visit(w, c)
        PROVE  RowsAreKnown'
    <2>1. /\ \E next \in {"reply", "form", "look"} : step' = [step EXCEPT ![w] = next]
          /\ \A x \in Web \ {w} : held'[x] = held[x]
          /\ UNCHANGED ballots
      BY <1>2 DEF Visit, LoadParent, LoadForm, LoadComment, Load, TypeOK
    <2>2. RemembersNoMore
      BY <2>1, GoingOnRemembers DEF Steps
    <2>3. QED
      BY <2>1, <2>2, KnownRowsStay DEF ballots, Known
  <1>3. ASSUME NEW w \in Web, SaveReply(w) \/ SaveForm(w) \/ Abandon(w)
        PROVE  RowsAreKnown'
    BY <1>3, GoingOnRemembers, KnownRowsStay
    DEF SaveReply, SaveForm, Abandon, ballots, Known
  <1>4. ASSUME NEW w \in Web, RemoveVote(w) \/ CountVotes(w)
        PROVE  RowsAreKnown'
    <2>1. /\ \E next \in {"recount", "write", "rewrite"} : step' = [step EXCEPT ![w] = next]
          /\ UNCHANGED held
          /\ votes' \subseteq votes /\ issued' = issued
      BY <1>4 DEF RemoveVote, CountVotes, Proceed, ballots
    <2>2. RemembersNoMore
      BY <2>1, GoingOnRemembers DEF Steps
    <2>3. QED
      BY <2>1, <2>2, KnownRowsStay DEF Known
  <1>5. ASSUME NEW w \in Web, WriteCounts(w)
        PROVE  RowsAreKnown'
    <2>1. End(w) \/ (Proceed(w, "recount") /\ UNCHANGED held)
      BY <1>5 DEF WriteCounts
    <2>2. RemembersNoMore
      BY <2>1, GoingOnRemembers DEF Proceed, Steps
    <2>3. QED
      BY <1>5, <2>2, KnownRowsStay DEF WriteCounts, ballots, Known
  <1>6. ASSUME NEW w \in Web, Change(w)
        PROVE  RowsAreKnown'
    <2>1. End(w) \/ (Proceed(w, "count") /\ UNCHANGED held)
      BY <1>6 DEF Change, Cast, Refuse
    <2>2. RemembersNoMore
      BY <2>1, GoingOnRemembers DEF Proceed, Steps
    <2>3. votes' \subseteq votes \cup {held[w]}
      BY <1>6 DEF Change, Cast, Refuse
    <2>4. held[w] \in Known
      BY <1>6 DEF Change, Known
    <2>5. QED
      BY <1>6, <2>2, <2>3, <2>4, KnownRowsStay DEF Change, Known
  <1>7. QED
    BY <1>1, <1>2, <1>3, <1>4, <1>5, <1>6, LookUpKnows, CreateKnows
    DEF Next, Continue, Staff, Submit, Moderate, Delete, DeleteUser, vars, ballots

-----------------------------------------------------------------------------
(* One vote per user and comment.                                           *)

\* Where a request reads and writes: the votes change in five actions only.
LEMMA VotesChange ==
  ASSUME [Next]_vars, votes' # votes
  PROVE  \/ \E c \in Comment : Delete(c)
         \/ \E u \in User : DeleteUser(u)
         \/ \E w \in Web : RemoveVote(w) \/ Change(w) \/ Create(w)
  BY DEF Next, Staff, Submit, Moderate, Visit, LoadParent, LoadForm, LoadComment, Continue,
         SaveReply, SaveForm, LookUp, CountVotes, WriteCounts, Abandon, vars, ballots

\* The rows that a change or a removal takes away are those of the voter.
LEMMA HeldRowIsTheVoters ==
  ASSUME RequestsKnow, RowsAreKnown, NEW w \in Web, step[w] \in {"remove", "change"},
         NEW v \in votes, v.id = held[w].id
  PROVE  v.user = voter[w] /\ v.comment = about[w]
  <1>1. held[w] \in Known /\ v \in Known
    BY DEF Known
  <1>2. SameRow(v, held[w])
    BY <1>1 DEF RowsAreKnown
  <1>3. QED
    BY <1>2 DEF SameRow, RequestsKnow

LEMMA ChangeKeepsOneVote ==
  ASSUME RequestsKnow, RowsAreKnown, OneVotePerUser, NEW w \in Web, Change(w)
  PROVE  OneVotePerUser'
  <1> DEFINE others == {v \in votes : v.id # held[w].id}
  <1>1. step[w] = "change" /\ held[w].user = voter[w] /\ held[w].comment = about[w]
    BY DEF Change, RequestsKnow
  <1>2. CASE votes' \subseteq votes
    BY <1>2 DEF OneVotePerUser
  <1>3. CASE votes' = others \cup {held[w]} /\ (others # votes \/ MayInsert(held[w]))
    <2>1. ASSUME NEW v \in others, v.user = held[w].user, v.comment = held[w].comment
          PROVE  FALSE
      <3>1. v \in VoteOf(held[w].user, held[w].comment)
        BY <2>1 DEF VoteOf
      <3>2. CASE MayInsert(held[w])
        BY <3>1, <3>2 DEF MayInsert
      <3>3. CASE others # votes
        <4>1. PICK x \in votes : x.id = held[w].id
          BY <3>3
        <4>2. x.user = held[w].user /\ x.comment = held[w].comment
          BY <1>1, <4>1, HeldRowIsTheVoters
        <4>3. x = v
          BY <2>1, <4>2 DEF OneVotePerUser
        <4>4. QED
          BY <2>1, <4>1, <4>3
      <3>4. QED
        BY <1>3, <3>2, <3>3
    <2>2. QED
      BY <1>3, <2>1 DEF OneVotePerUser
  <1>4. QED
    BY <1>2, <1>3 DEF Change, Cast, Refuse

LEMMA CreateKeepsOneVote ==
  ASSUME RequestsKnow, OneVotePerUser, NEW w \in Web, Create(w)
  PROVE  OneVotePerUser'
  <1> DEFINE new == [held[w] EXCEPT !.id = issued + 1]
  <1>1. new.user = held[w].user /\ new.comment = held[w].comment
    BY DEF Create, RequestsKnow, Vote
  <1>2. CASE votes' = votes
    BY <1>2 DEF OneVotePerUser
  <1>3. CASE votes' = votes \cup {new} /\ MayInsert(held[w])
    <2>1. \A v \in votes : ~(v.user = new.user /\ v.comment = new.comment)
      BY <1>1, <1>3 DEF MayInsert, VoteOf
    <2> HIDE DEF new
    <2>2. QED
      BY <1>3, <2>1 DEF OneVotePerUser
  <1>4. QED
    BY <1>2, <1>3 DEF Create, Cast, Refuse

LEMMA StepOneVote ==
  ASSUME RequestsKnow, RowsAreKnown, OneVotePerUser, [Next]_vars
  PROVE  OneVotePerUser'
  <1>1. CASE votes' \subseteq votes
    BY <1>1 DEF OneVotePerUser
  <1>2. QED
    BY <1>1, VotesChange, ChangeKeepsOneVote, CreateKeepsOneVote
    DEF Delete, DeleteUser, RemoveVote

-----------------------------------------------------------------------------
(* Nothing dangles.                                                         *)

\* The replies to what a deletion takes go with it.
LEMMA CascadeClosed ==
  ASSUME NEW c, NEW d \in Live, parent[d] \in Cascade(c)
  PROVE  d \in Cascade(c)
  BY DEF Cascade, Replies

LEMMA DeleteLeavesNothing ==
  ASSUME NothingDangles, NEW c \in Comment, Delete(c)
  PROVE  NothingDangles'
  <1> DEFINE gone == Cascade(c)
  <1>1. Live' = Live \ gone
    BY DEF Delete, Live, Cascade, Status
  <1>2. ASSUME NEW d \in Live'
        PROVE  parent'[d] \in Live' \cup {NoComment}
    <2>1. d \in Live /\ d \notin gone /\ parent'[d] = parent[d]
      BY <1>1 DEF Delete, Live
    <2>2. parent[d] \notin gone
      BY <2>1, CascadeClosed
    <2>3. QED
      BY <1>1, <2>1, <2>2 DEF NothingDangles
  <1>3. ASSUME NEW v \in votes'
        PROVE  v.comment \in Live' /\ v.user \in members'
    BY <1>1 DEF Delete, NothingDangles
  <1>4. QED
    BY <1>2, <1>3 DEF NothingDangles

\* A comment that is written over, or inserted below one that exists.
LEMMA WrittenIsLive ==
  ASSUME NothingDangles, TypeOK, NEW c \in Comment, NEW s \in Status,
         NEW p \in Live \cup {c, NoComment},
         status' = [status EXCEPT ![c] = s], parent' = [parent EXCEPT ![c] = p],
         UNCHANGED <<votes, members>>
  PROVE  NothingDangles'
  <1>1. Live' = Live \cup {c}
    BY DEF Live, TypeOK
  <1>2. QED
    BY <1>1 DEF NothingDangles, TypeOK, Live

LEMMA InsertIsLive ==
  ASSUME NothingDangles, TypeOK, NEW c \in Comment, NEW p \in Live \cup {NoComment},
         Insert(c, p), UNCHANGED <<votes, members>>
  PROVE  NothingDangles'
  <1>1. PICK s \in Status : status' = [status EXCEPT ![c] = s]
    BY DEF Insert, Status
  <1>2. QED
    BY <1>1, WrittenIsLive DEF Insert

LEMMA ContinueDangles ==
  ASSUME TypeOK, RequestsKnow, RowsAreKnown, NothingDangles, NEW w \in Web, Continue(w)
  PROVE  NothingDangles'
  <1>1. CASE SaveReply(w)
    <2>1. CASE UNCHANGED comments
      BY <1>1, <2>1 DEF SaveReply, comments, ballots, NothingDangles, Live
    <2>2. CASE about[w] \in Live /\ \E c \in Comment : Insert(c, about[w])
      BY <1>1, <2>2, InsertIsLive DEF SaveReply, ballots
    <2>3. QED
      BY <1>1, <2>1, <2>2 DEF SaveReply
  <1>2. CASE SaveForm(w)
    <2>1. about[w] \in Comment
      BY <1>2 DEF SaveForm, RequestsKnow
    <2>2. QED
      BY <1>2, <2>1, WrittenIsLive DEF SaveForm, ballots
  <1>3. CASE LookUp(w) \/ CountVotes(w) \/ WriteCounts(w) \/ Abandon(w)
    BY <1>3 DEF LookUp, CountVotes, WriteCounts, Abandon, comments, ballots, NothingDangles, Live
  <1>4. CASE RemoveVote(w)
    BY <1>4 DEF RemoveVote, comments, NothingDangles, Live
  <1>5. CASE Change(w)
    <2>1. \A v \in votes' \ votes : v = held[w]
                /\ (\/ MayInsert(held[w])
                    \/ \E x \in votes : x.id = held[w].id)
      BY <1>5 DEF Change, Cast, Refuse
    <2>2. ASSUME NEW x \in votes, x.id = held[w].id
          PROVE  held[w].comment \in Live /\ held[w].user \in members
      BY <1>5, <2>2, HeldRowIsTheVoters DEF Change, RequestsKnow, NothingDangles
    <2>3. \A v \in votes' : v.comment \in Live /\ v.user \in members
      BY <2>1, <2>2 DEF MayInsert, NothingDangles
    <2>4. QED
      BY <1>5, <2>3 DEF Change, comments, NothingDangles, Live
  <1>6. CASE Create(w)
    <2>1. \A v \in votes' \ votes : MayInsert(held[w])
                /\ v.comment = held[w].comment /\ v.user = held[w].user
      BY <1>6 DEF Create, Cast, Refuse, RequestsKnow, Vote
    <2>2. \A v \in votes' : v.comment \in Live /\ v.user \in members
      BY <2>1 DEF MayInsert, NothingDangles
    <2>3. QED
      BY <1>6, <2>2 DEF Create, comments, NothingDangles, Live
  <1>7. QED
    BY <1>1, <1>2, <1>3, <1>4, <1>5, <1>6 DEF Continue

LEMMA StepDangles ==
  ASSUME TypeOK, RequestsKnow, RowsAreKnown, NothingDangles, [Next]_vars
  PROVE  NothingDangles'
  <1>1. CASE UNCHANGED <<comments, ballots, members>>
    BY <1>1 DEF comments, ballots, NothingDangles, Live
  <1>2. ASSUME NEW w \in Web, NEW c \in Comment, Visit(w, c)
        PROVE  UNCHANGED <<comments, ballots, members>>
    BY <1>2 DEF Visit, LoadParent, LoadForm, LoadComment, comments, ballots
  <1>3. ASSUME NEW c \in Comment, Submit(c)
        PROVE  NothingDangles'
    BY <1>3, InsertIsLive DEF Submit, ballots
  <1>4. ASSUME NEW c \in Comment, NEW s \in Status, Moderate(c, s)
        PROVE  NothingDangles'
    <2>1. Live' = Live
      BY <1>4 DEF Moderate, Live, TypeOK, Status
    <2>2. QED
      BY <1>4, <2>1 DEF Moderate, ballots, NothingDangles
  <1>5. ASSUME NEW u \in User, DeleteUser(u)
        PROVE  NothingDangles'
    BY <1>5 DEF DeleteUser, comments, NothingDangles, Live
  <1>6. QED
    BY <1>1, <1>2, <1>3, <1>4, <1>5, DeleteLeavesNothing, ContinueDangles
    DEF Next, Staff, vars

-----------------------------------------------------------------------------
(* Counts of one instant.                                                   *)

Possible(n) == n.upvotes + n.downvotes <= Cardinality(User)

LEMMA NoCountsPossible == Possible(NoCounts)
  <1>1. Cardinality(User) \in Nat
    BY UserAssumption, FS_CardinalityType
  <1>2. QED
    BY <1>1 DEF Possible, NoCounts

LEMMA PossibleCounts ==
  NoMoreVotesThanUsers <=>
    (\A c \in Comment : Possible(counts[c])) /\ (\A w \in Web : Possible(seen[w]))
  BY DEF NoMoreVotesThanUsers, Possible

LEMMA PossibleCountsNext ==
  (\A c \in Comment : Possible(counts'[c])) /\ (\A w \in Web : Possible(seen'[w]))
  => NoMoreVotesThanUsers'
  BY DEF NoMoreVotesThanUsers, Possible

LEMMA StepPossible ==
  ASSUME TypeOK, OneVotePerUser, NoMoreVotesThanUsers, [Next]_vars
  PROVE  NoMoreVotesThanUsers'
  <1>1. (\A c \in Comment : Possible(counts[c])) /\ (\A w \in Web : Possible(seen[w]))
    BY PossibleCounts
  <1>2. ASSUME NEW w \in Web, End(w)
        PROVE  \A x \in Web : Possible(seen'[x])
    BY <1>1, <1>2, NoCountsPossible DEF End, TypeOK
  <1>3. ASSUME NEW c \in Comment, Delete(c)
        PROVE  NoMoreVotesThanUsers'
    BY <1>1, <1>3, NoCountsPossible, PossibleCountsNext DEF Delete, web
  <1>4. ASSUME NEW w \in Web, NEW c \in Comment, LoadForm(w, c)
        PROVE  NoMoreVotesThanUsers'
    BY <1>1, <1>4, PossibleCountsNext DEF LoadForm, comments, TypeOK
  <1>5. ASSUME NEW w \in Web, SaveForm(w)
        PROVE  NoMoreVotesThanUsers'
    <2>1. \A c \in Comment : Possible(counts'[c])
      BY <1>1, <1>5 DEF SaveForm, TypeOK
    <2>2. QED
      BY <1>2, <1>5, <2>1, PossibleCountsNext DEF SaveForm
  <1>6. ASSUME NEW w \in Web, CountVotes(w)
        PROVE  NoMoreVotesThanUsers'
    <2>1. Possible(Tally(about[w]))
      BY TallyIsBounded DEF TypeOK, Possible
    <2>2. QED
      BY <1>1, <1>6, <2>1, PossibleCountsNext DEF CountVotes, comments, TypeOK
  <1>7. ASSUME NEW w \in Web, WriteCounts(w)
        PROVE  NoMoreVotesThanUsers'
    <2>1. \A c \in Comment : Possible(counts'[c])
      BY <1>1, <1>7 DEF WriteCounts, TypeOK
    <2>2. \A x \in Web : Possible(seen'[x])
      BY <1>1, <1>2, <1>7 DEF WriteCounts
    <2>3. QED
      BY <2>1, <2>2, PossibleCountsNext
  <1>8. CASE UNCHANGED <<counts, seen>>
    BY <1>1, <1>8, PossibleCountsNext
  <1>9. ASSUME NEW w \in Web, NEW c \in Comment, LoadParent(w, c)
                 \/ \E u \in User, type \in VoteType : LoadComment(w, u, c, type)
        PROVE  NoMoreVotesThanUsers'
    BY <1>8, <1>9 DEF LoadParent, LoadComment, comments
  <1>10. ASSUME NEW w \in Web, End(w), UNCHANGED counts
         PROVE  NoMoreVotesThanUsers'
    BY <1>1, <1>2, <1>10, PossibleCountsNext
  <1>11. ASSUME NEW w \in Web, SaveReply(w) \/ Abandon(w)
         PROVE  NoMoreVotesThanUsers'
    BY <1>10, <1>11 DEF SaveReply, Abandon, Insert, comments
  <1>12. ASSUME NEW w \in Web, LookUp(w) \/ RemoveVote(w) \/ Change(w) \/ Create(w)
         PROVE  NoMoreVotesThanUsers'
    BY <1>8, <1>10, <1>12 DEF LookUp, RemoveVote, Change, Create, Cast, Refuse, comments
  <1>13. CASE \/ \E c \in Comment : Submit(c) \/ \E s \in Status : Moderate(c, s)
              \/ \E u \in User : DeleteUser(u)
    BY <1>8, <1>13 DEF Submit, Insert, Moderate, DeleteUser, comments, web
  <1>14. QED
    BY <1>3, <1>4, <1>5, <1>6, <1>7, <1>8, <1>9, <1>11, <1>12, <1>13
    DEF Next, Staff, Visit, Continue, vars, comments, web

-----------------------------------------------------------------------------
(* Settled counts.                                                          *)

\* A vote on c was cast, changed or removed, and will be counted.
Pending(c) ==
    \E w \in Web : about[w] = c /\ step[w] \in {"count", "write", "recount", "rewrite"}

\* Counts that are wrong are about to be written, or were noted.
CountsFollow ==
    /\ \A c \in Live \ disturbed : Pending(c) \/ counts[c] = Tally(c)
    /\ \A c \in Comment \ Live : counts[c] = NoCounts

LEMMA NoVotesTally ==
  ASSUME NEW c, \A v \in votes : v.comment # c
  PROVE  Tally(c) = NoCounts
  <1>1. VotesOn(c, "upvote") = {} /\ VotesOn(c, "downvote") = {}
    BY DEF VotesOn
  <1>2. QED
    BY <1>1, FS_EmptySet DEF Tally, NoCounts

LEMMA SameVotesTally ==
  ASSUME NEW c, \A v \in votes \cup votes' : v.comment = c => v \in votes /\ v \in votes'
  PROVE  Tally(c)' = Tally(c)
  <1>1. \A type : VotesOn(c, type)' = VotesOn(c, type)
    BY DEF VotesOn
  <1>2. QED
    BY <1>1 DEF Tally

\* A vote that moves is counted afterwards by the request that moved it.
LEMMA MovedVoteIsPending ==
  ASSUME TypeOK, RequestsKnow, RowsAreKnown, NEW w \in Web,
         RemoveVote(w) \/ Change(w) \/ Create(w),
         NEW v \in (votes \ votes') \cup (votes' \ votes)
  PROVE  Pending(v.comment)'
  <1>1. CASE RemoveVote(w)
    <2>1. v \in votes /\ v.id = held[w].id
      BY <1>1 DEF RemoveVote
    <2>2. v.comment = about[w]
      BY <1>1, <2>1, HeldRowIsTheVoters DEF RemoveVote
    <2>3. QED
      BY <1>1, <2>2 DEF RemoveVote, Proceed, TypeOK, Pending
  <1>2. CASE Change(w)
    <2>1. Proceed(w, "count") /\ UNCHANGED about
      BY <1>2 DEF Change, Cast, Refuse
    <2>2. (v \in votes /\ v.id = held[w].id) \/ v = held[w]
      BY <1>2 DEF Change, Cast, Refuse
    <2>3. v.comment = about[w]
      BY <1>2, <2>2, HeldRowIsTheVoters DEF Change, RequestsKnow
    <2>4. QED
      BY <2>1, <2>3 DEF Proceed, TypeOK, Pending
  <1>3. CASE Create(w)
    <2>1. Proceed(w, "count") /\ UNCHANGED about
      BY <1>3 DEF Create, Cast, Refuse
    <2>2. v = [held[w] EXCEPT !.id = issued + 1]
      BY <1>3 DEF Create, Cast, Refuse
    <2>3. held[w] \in Vote /\ held[w].comment = about[w]
      BY <1>3 DEF Create, RequestsKnow
    <2>4. v.comment = about[w]
      BY <2>2, <2>3 DEF Vote
    <2>5. QED
      BY <2>1, <2>4 DEF Proceed, TypeOK, Pending
  <1>4. QED
    BY <1>1, <1>2, <1>3

\* A request that is not about to count is not what c waits for.
LEMMA StaysPending ==
  ASSUME TypeOK, NEW w \in Web, step[w] \notin {"count", "write", "recount", "rewrite"},
         \A x \in Web \ {w} : step'[x] = step[x] /\ about'[x] = about[x],
         NEW c, Pending(c)
  PROVE  Pending(c)'
  BY DEF Pending

LEMMA InsertFollows ==
  ASSUME TypeOK, NothingDangles, CountsFollow, NEW c \in Comment, NEW p, Insert(c, p),
         UNCHANGED <<votes, disturbed>>, \A d : Pending(d) => Pending(d)'
  PROVE  CountsFollow'
  <1>1. Live' = Live \cup {c} /\ c \notin Live
    BY DEF Insert, Live, TypeOK, Status
  <1>2. \A d : Tally(d)' = Tally(d)
    BY SameVotesTally
  <1>3. counts[c] = NoCounts /\ Tally(c) = NoCounts
    BY <1>1, NoVotesTally DEF CountsFollow, NothingDangles
  <1>4. QED
    BY <1>1, <1>2, <1>3 DEF CountsFollow, Insert

LEMMA DeletionFollows ==
  ASSUME TypeOK, CountsFollow,
         \/ \E c \in Comment : Delete(c)
         \/ \E u \in User : DeleteUser(u)
  PROVE  CountsFollow'
  <1>1. \A d : Pending(d) => Pending(d)'
    BY DEF Delete, DeleteUser, web, Pending
  <1>2. ASSUME NEW c \in Comment, Delete(c)
        PROVE  CountsFollow'
    <2>1. Live' = Live \ Cascade(c)
      BY <1>2 DEF Delete, Live, Cascade, Status
    <2>2. ASSUME NEW d \in Live'
          PROVE  Tally(d)' = Tally(d) /\ counts'[d] = counts[d]
      BY <1>2, <2>1, <2>2, SameVotesTally DEF Delete, Live
    <2>3. ASSUME NEW d \in Comment \ Live'
          PROVE  counts'[d] = NoCounts
      BY <1>2, <2>1, <2>3 DEF Delete, CountsFollow
    <2>4. QED
      BY <1>1, <1>2, <2>1, <2>2, <2>3 DEF CountsFollow, Delete
  <1>3. ASSUME NEW u \in User, DeleteUser(u)
        PROVE  CountsFollow'
    <2>1. Live' = Live /\ counts' = counts
      BY <1>3 DEF DeleteUser, comments, Live
    <2>2. ASSUME NEW d \in Live \ disturbed'
          PROVE  Tally(d)' = Tally(d) /\ d \notin disturbed
      BY <1>3, <2>2, SameVotesTally DEF DeleteUser
    <2>3. QED
      BY <1>1, <2>1, <2>2 DEF CountsFollow
  <1>4. QED
    BY <1>2, <1>3

\* A step that writes neither comments nor votes, and leaves nobody waiting.
LEMMA QuietFollows ==
  ASSUME CountsFollow, Live' = Live, UNCHANGED <<counts, votes, disturbed>>,
         \A d : Pending(d) => Pending(d)'
  PROVE  CountsFollow'
  <1>1. \A d : Tally(d)' = Tally(d)
    BY SameVotesTally
  <1>2. QED
    BY <1>1 DEF CountsFollow

\* The last writer of c settles it, or c is noted.
LEMMA NotedFollows ==
  ASSUME CountsFollow, NEW c \in Comment, Live' = Live \cup {c},
         Note(c, counts'[c]), UNCHANGED votes,
         \A d \in Comment \ {c} : counts'[d] = counts[d] /\ (Pending(d) => Pending(d)')
  PROVE  CountsFollow'
  <1>1. \A d : Tally(d)' = Tally(d)
    BY SameVotesTally
  <1>2. ASSUME NEW d \in Live' \ disturbed'
        PROVE  Pending(d)' \/ counts'[d] = Tally(d)
    <2>1. CASE d = c
      BY <1>2, <2>1 DEF Note
    <2>2. CASE d # c
      BY <1>2, <2>2 DEF Note, CountsFollow, Live
    <2>3. QED
      BY <2>1, <2>2
  <1>3. QED
    BY <1>1, <1>2 DEF CountsFollow, Live

\* Others than c wait for the same requests when the one on c goes on.
LEMMA OthersStayPending ==
  ASSUME TypeOK, NEW w \in Web,
         \A x \in Web \ {w} : step'[x] = step[x] /\ about'[x] = about[x]
  PROVE  \A d : d # about[w] /\ Pending(d) => Pending(d)'
  BY DEF Pending

LEMMA EndStays ==
  ASSUME TypeOK, NEW w \in Web, End(w)
  PROVE  \A x \in Web \ {w} : step'[x] = step[x] /\ about'[x] = about[x]
  BY DEF End, Proceed, TypeOK

LEMMA VoteFollows ==
  ASSUME TypeOK, RequestsKnow, RowsAreKnown, CountsFollow, NEW w \in Web,
         RemoveVote(w) \/ Change(w) \/ Create(w)
  PROVE  CountsFollow'
  <1>1. Live' = Live /\ counts' = counts /\ disturbed' = disturbed
    BY DEF RemoveVote, Change, Create, comments, Live
  <1>2. \A x \in Web \ {w} : step'[x] = step[x] /\ about'[x] = about[x]
    BY EndStays DEF RemoveVote, Change, Create, Cast, Refuse, Proceed, TypeOK
  <1>3. step[w] \notin {"count", "write", "recount", "rewrite"}
    BY DEF RemoveVote, Change, Create
  <1>4. \A d : Pending(d) => Pending(d)'
    BY <1>2, <1>3, StaysPending
  <1>5. ASSUME NEW d \in Comment, ~Pending(d)'
        PROVE  Tally(d)' = Tally(d)
    <2>1. \A v \in votes \cup votes' : v.comment = d => v \in votes /\ v \in votes'
      BY <1>5, MovedVoteIsPending
    <2>2. QED
      BY <2>1, SameVotesTally
  <1>6. QED
    BY <1>1, <1>4, <1>5 DEF CountsFollow, Live

LEMMA ContinueFollows ==
  ASSUME IInv, CountsFollow, NEW w \in Web, Continue(w)
  PROVE  CountsFollow'
  <1> USE DEF IInv
  <1>1. CASE SaveReply(w)
    <2>1. \A d : Pending(d) => Pending(d)'
      BY <1>1, EndStays, StaysPending DEF SaveReply
    <2>2. CASE UNCHANGED comments
      BY <1>1, <2>1, <2>2, QuietFollows DEF SaveReply, comments, ballots, Live
    <2>3. CASE \E c \in Comment : Insert(c, about[w])
      BY <1>1, <2>1, <2>3, InsertFollows DEF SaveReply, ballots
    <2>4. QED
      BY <1>1, <2>2, <2>3 DEF SaveReply
  <1>2. CASE SaveForm(w)
    <2> DEFINE c == about[w]
    <2>1. c \in Comment
      BY <1>2 DEF SaveForm, RequestsKnow
    <2>2. Live' = Live \cup {c}
      BY <1>2, <2>1 DEF SaveForm, Live, TypeOK
    <2>3. counts'[c] = seen[w] /\ \A d \in Comment \ {c} : counts'[d] = counts[d]
      BY <1>2, <2>1 DEF SaveForm, TypeOK
    <2>4. \A d : d # c /\ Pending(d) => Pending(d)'
      BY <1>2, EndStays, OthersStayPending DEF SaveForm
    <2>5. Note(c, counts'[c])
      BY <1>2, <2>3 DEF SaveForm
    <2> HIDE DEF c
    <2>6. QED
      BY <1>2, <2>1, <2>2, <2>3, <2>4, <2>5, NotedFollows DEF SaveForm, ballots
  <1>3. CASE LookUp(w)
    <2>1. \A x \in Web \ {w} : step'[x] = step[x] /\ about'[x] = about[x]
      BY <1>3 DEF LookUp, Proceed, TypeOK
    <2>2. \A d : Pending(d) => Pending(d)'
      BY <1>3, <2>1, StaysPending DEF LookUp
    <2>3. QED
      BY <1>3, <2>2, QuietFollows DEF LookUp, comments, ballots, Live
  <1>4. CASE CountVotes(w)
    <2>1. \A d : Pending(d) => Pending(d)'
      BY <1>4 DEF CountVotes, Proceed, Pending, TypeOK
    <2>2. QED
      BY <1>4, <2>1, QuietFollows DEF CountVotes, comments, ballots, Live
  <1>5. CASE WriteCounts(w)
    <2> DEFINE c == about[w]
    <2>1. c \in Comment
      BY <1>5 DEF WriteCounts, RequestsKnow
    <2>2. \A x \in Web \ {w} : step'[x] = step[x] /\ about'[x] = about[x]
      BY <1>5, EndStays DEF WriteCounts, Proceed, TypeOK
    <2>3. \A d : d # c /\ Pending(d) => Pending(d)'
      BY <2>2, OthersStayPending
    <2>4. Live' = Live /\ votes' = votes
      BY <1>5 DEF WriteCounts, Live, ballots
    <2>5. CASE c \in Live
      <3>1. counts'[c] = seen[w] /\ \A d \in Comment \ {c} : counts'[d] = counts[d]
        BY <1>5, <2>1, <2>5 DEF WriteCounts, TypeOK
      <3>2. Note(c, counts'[c])
        BY <1>5, <2>5, <3>1 DEF WriteCounts
      <3> HIDE DEF c
      <3>3. QED
        BY <2>1, <2>3, <2>4, <2>5, <3>1, <3>2, NotedFollows
    <2>6. CASE c \notin Live
      <3>1. counts' = counts /\ disturbed' = disturbed
        BY <1>5, <2>6 DEF WriteCounts
      <3>2. \A d : Tally(d)' = Tally(d)
        BY <2>4, SameVotesTally
      <3> HIDE DEF c
      <3>3. QED
        BY <2>3, <2>4, <2>6, <3>1, <3>2 DEF CountsFollow
    <2>7. QED
      BY <2>5, <2>6
  <1>6. CASE Abandon(w)
    <2> DEFINE c == about[w]
    <2>1. c \in Comment
      BY <1>6 DEF Abandon, RequestsKnow
    <2>2. \A d : d # c /\ Pending(d) => Pending(d)'
      BY <1>6, EndStays, OthersStayPending DEF Abandon
    <2>3. Live' = Live /\ counts' = counts /\ votes' = votes
      BY <1>6 DEF Abandon, comments, ballots, Live
    <2>4. Note(c, counts'[c])
      BY <1>6, <2>3 DEF Abandon
    <2> HIDE DEF c
    <2>5. CASE c \in Live
      BY <2>1, <2>2, <2>3, <2>4, <2>5, NotedFollows
    <2>6. CASE c \notin Live
      <3>1. \A d : Tally(d)' = Tally(d)
        BY <2>3, SameVotesTally
      <3>2. QED
        BY <2>2, <2>3, <2>4, <2>6, <3>1 DEF CountsFollow, Note
    <2>7. QED
      BY <2>5, <2>6
  <1>7. QED
    BY <1>1, <1>2, <1>3, <1>4, <1>5, <1>6, VoteFollows DEF Continue

LEMMA StepFollows ==
  ASSUME IInv, CountsFollow, [Next]_vars
  PROVE  CountsFollow'
  <1> USE DEF IInv
  <1>1. ASSUME NEW w \in Web, NEW c \in Comment, Visit(w, c)
        PROVE  CountsFollow'
    <2>1. PICK next \in Steps : Load(w, next, c)
      BY <1>1 DEF Visit, LoadParent, LoadForm, LoadComment, Steps
    <2>2. step[w] = "idle" /\ \A x \in Web \ {w} : step'[x] = step[x] /\ about'[x] = about[x]
      BY <2>1 DEF Load, TypeOK
    <2>3. \A d : Pending(d) => Pending(d)'
      BY <2>2, StaysPending
    <2>4. QED
      BY <1>1, <2>3, QuietFollows
      DEF Visit, LoadParent, LoadForm, LoadComment, comments, ballots, Live
  <1>2. ASSUME NEW c \in Comment, Submit(c)
        PROVE  CountsFollow'
    BY <1>2, InsertFollows DEF Submit, ballots, web, Pending
  <1>3. ASSUME NEW c \in Comment, NEW s \in Status, Moderate(c, s)
        PROVE  CountsFollow'
    <2>1. Live' = Live
      BY <1>3 DEF Moderate, Live, TypeOK, Status
    <2>2. QED
      BY <1>3, <2>1, QuietFollows DEF Moderate, ballots, web, Pending
  <1>4. CASE UNCHANGED vars
    BY <1>4, QuietFollows DEF vars, comments, ballots, web, Live, Pending
  <1>5. QED
    BY <1>1, <1>2, <1>3, <1>4, DeletionFollows, ContinueFollows DEF Next, Staff

-----------------------------------------------------------------------------
(* The theorems.                                                            *)

LEMMA InitInv == Init => IInv
  <1> SUFFICES ASSUME Init PROVE IInv
    OBVIOUS
  <1>1. Known = {}
    BY DEF Init, Known
  <1>2. RequestsKnow /\ RowsAreKnown /\ OneVotePerUser
    BY <1>1 DEF Init, RequestsKnow, RowsAreKnown, OneVotePerUser
  <1>3. NothingDangles
    BY DEF Init, NothingDangles, Live, Status
  <1>4. NoMoreVotesThanUsers
    BY NoCountsPossible, PossibleCounts DEF Init
  <1>5. QED
    BY <1>2, <1>3, <1>4, InitTypeOK DEF IInv

LEMMA StepInv == IInv /\ [Next]_vars => IInv'
  BY StepTypeOK, StepKnows, StepRowsAreKnown, StepOneVote, StepDangles, StepPossible
  DEF IInv

THEOREM Invariance == Spec => []IInv
  BY InitInv, StepInv, PTL DEF Spec

\* The model's variables keep their types.
THEOREM CommentsTypeCorrect == Spec => []TypeOK
  <1>1. IInv => TypeOK
    BY DEF IInv
  <1>2. QED
    BY <1>1, Invariance, PTL

\* A user never has two votes on a comment.
THEOREM OneVote == Spec => []OneVotePerUser
  <1>1. IInv => OneVotePerUser
    BY DEF IInv
  <1>2. QED
    BY <1>1, Invariance, PTL

\* No reply and no vote outlives what it belongs to.
THEOREM CascadesAreComplete == Spec => []NothingDangles
  <1>1. IInv => NothingDangles
    BY DEF IInv
  <1>2. QED
    BY <1>1, Invariance, PTL

\* No cached count, however stale, counts more votes than there are users.
THEOREM CountsStayPossible == Spec => []NoMoreVotesThanUsers
  <1>1. IInv => NoMoreVotesThanUsers
    BY DEF IInv
  <1>2. QED
    BY <1>1, Invariance, PTL

\* The counts of a comment that nobody is voting on are right, or the disturbance
\* that made them wrong was noted.
THEOREM CountsSettle == Spec => []SettledCounts
  <1>1. Init => CountsFollow
    <2> SUFFICES ASSUME Init PROVE CountsFollow
      OBVIOUS
    <2>1. Live = {}
      BY DEF Init, Live, Status
    <2>2. QED
      BY <2>1 DEF Init, CountsFollow
  <1>2. IInv /\ CountsFollow /\ [Next]_vars => CountsFollow'
    BY StepFollows
  <1>3. CountsFollow => SettledCounts
    BY DEF CountsFollow, SettledCounts, Pending, Voting
  <1>4. QED
    BY <1>1, <1>2, <1>3, Invariance, PTL DEF Spec

\* A vote changes only by its user's request, or goes with its comment or user.
THEOREM VotesBelongToTheirUsers == Spec => VotesAreTheUsers
  <1> DEFINE Owned(v) ==
        \/ v \notin votes' /\ (v.comment \notin Live' \/ v.user \notin members')
        \/ \E w \in Web : /\ step[w] \in {"remove", "change", "create"}
                          /\ voter[w] = v.user
                          /\ about[w] = v.comment
             Moved == (votes \ votes') \cup (votes' \ votes)
  <1>1. ASSUME IInv, [Next]_vars, votes' # votes, NEW v \in Moved
        PROVE  Owned(v)
    <2>1. ASSUME NEW c \in Comment, Delete(c)
          PROVE  Owned(v)
      BY <1>1, <2>1 DEF Delete, Live, Status, Cascade
    <2>2. ASSUME NEW u \in User, DeleteUser(u)
          PROVE  Owned(v)
      BY <1>1, <2>2 DEF DeleteUser
    <2>3. ASSUME NEW w \in Web, RemoveVote(w)
          PROVE  Owned(v)
      <3>1. v \in votes /\ v.id = held[w].id
        BY <1>1, <2>3 DEF RemoveVote
      <3>2. v.user = voter[w] /\ v.comment = about[w]
        BY <1>1, <2>3, <3>1, HeldRowIsTheVoters DEF IInv, RemoveVote
      <3>3. QED
        BY <2>3, <3>2 DEF RemoveVote
    <2>4. ASSUME NEW w \in Web, Change(w)
          PROVE  Owned(v)
      <3>1. (v \in votes /\ v.id = held[w].id) \/ v = held[w]
        BY <1>1, <2>4 DEF Change, Cast, Refuse
      <3>2. v.user = voter[w] /\ v.comment = about[w]
        BY <1>1, <2>4, <3>1, HeldRowIsTheVoters DEF IInv, Change, RequestsKnow
      <3>3. QED
        BY <2>4, <3>2 DEF Change
    <2>5. ASSUME NEW w \in Web, Create(w)
          PROVE  Owned(v)
      <3>1. v = [held[w] EXCEPT !.id = issued + 1]
        BY <1>1, <2>5 DEF Create, Cast, Refuse
      <3>2. held[w] \in Vote /\ held[w].user = voter[w] /\ held[w].comment = about[w]
        BY <1>1, <2>5 DEF IInv, Create, RequestsKnow
      <3>3. v.user = voter[w] /\ v.comment = about[w]
        BY <3>1, <3>2 DEF Vote
      <3>4. QED
        BY <2>5, <3>3 DEF Create
    <2>6. QED
      BY <1>1, <2>1, <2>2, <2>3, <2>4, <2>5, VotesChange
  <1>2. IInv /\ [Next]_vars => [\A v \in Moved : Owned(v)]_votes
    BY <1>1
  <1>3. QED
    BY <1>2, Invariance, PTL DEF Spec, VotesAreTheUsers

-----------------------------------------------------------------------------
(***************************************************************************)
(* Proofs about KnowledgeGraph, for every site, every spelling, any number *)
(* of processes and of ticks that the caches keep.                         *)
(***************************************************************************)

-----------------------------------------------------------------------------
(* Posts, names and links.                                                  *)

LEMMA SiteFacts ==
  ASSUME NEW r \in Release
  PROVE  /\ PostsOf(r) \subseteq Post /\ IsFiniteSet(PostsOf(r))
         /\ \A p \in PostsOf(r) : Site[r][p] \in Lists
         /\ Site[r] \in Links
  <1>1. PostsOf(r) \subseteq Post
    BY DEF Post
  <1>2. IsFiniteSet(PostsOf(r))
    BY <1>1, SiteAssumption, FS_Subset
  <1>3. \A p \in PostsOf(r) : Site[r][p] \in Lists
    BY DEF Lists, Range, PostsOf
  <1>4. Site[r] \in [PostsOf(r) -> Lists]
    BY <1>3, SiteAssumption
  <1>5. QED
    BY <1>1, <1>2, <1>3, <1>4 DEF Links

LEMMA ListsFacts == <<>> \in Lists /\ Lists \subseteq Seq(Post)
  <1>1. \A r \in Release : \A p \in PostsOf(r) : Site[r][p] \in Seq(Post)
    BY SiteAssumption DEF PostsOf
  <1>2. \A r \in Release : Range(Site[r]) \subseteq Seq(Post)
    BY <1>1 DEF Range, PostsOf
  <1>3. <<>> \in Seq(Post)
    OBVIOUS
  <1>4. QED
    BY <1>2, <1>3 DEF Lists

LEMMA LinksFacts ==
  ASSUME NEW f
  PROVE  f \in Links <=> DOMAIN f \subseteq Post /\ f \in [DOMAIN f -> Lists]
  BY DEF Links

LEMMA NoLinks == <<>> \in Links /\ DOMAIN <<>> = {}
  <1>1. DOMAIN <<>> = {} /\ <<>> \in [{} -> Lists]
    OBVIOUS
  <1>2. QED
    BY <1>1, LinksFacts

LEMMA NameFacts ==
  /\ \A name \in Name : Normal(name) \in Post
  /\ \A p \in Post : Normal(p) = p /\ p \in Name
  BY SiteAssumption DEF Name, Normal

More(got, p, links) == [q \in DOMAIN got \cup {p} |-> IF q = p THEN links ELSE got[q]]

LEMMA MoreLinks ==
  ASSUME NEW got \in Links, NEW p \in Post, NEW links \in Lists
  PROVE  /\ More(got, p, links) \in Links
         /\ DOMAIN More(got, p, links) = DOMAIN got \cup {p}
         /\ More(got, p, links)[p] = links
         /\ \A q \in DOMAIN got \ {p} : More(got, p, links)[q] = got[q]
  <1> DEFINE more == More(got, p, links)
  <1>1. DOMAIN got \subseteq Post /\ got \in [DOMAIN got -> Lists]
    BY LinksFacts
  <1>2. DOMAIN more = DOMAIN got \cup {p} /\ more \in [DOMAIN more -> Lists]
        /\ more[p] = links /\ \A q \in DOMAIN got \ {p} : more[q] = got[q]
    BY <1>1 DEF More
  <1> HIDE DEF more
  <1>3. more \in Links
    BY <1>1, <1>2, LinksFacts
  <1>4. QED
    BY <1>2, <1>3 DEF more

-----------------------------------------------------------------------------
(* Jobs.                                                                    *)

Todo == Seq(Name \X Nat)

JobSteps == {"next", "read", "cached", "hash", "create", "update"}

LEMMA JobFacts ==
  ASSUME NEW j \in Job
  PROVE  /\ j # None /\ j.op \in {"full", "post", "shot"} /\ j.release \in Release
         /\ j.key = FullKey \/ \E ask \in Asked : j.key = PostKey(ask[1], ask[2])
         /\ j.id \in {"full"} \cup Name /\ j.todo \in Todo /\ j.got \in Links
         /\ j.step \in JobSteps
  BY NoneAssumption DEF Job, Todo, JobSteps

\* What is left of a job when some of it changes.
Same(new, j) ==
  new.op = j.op /\ new.force = j.force /\ new.release = j.release /\ new.key = j.key /\ new.id = j.id

LEMMA JobWith ==
  ASSUME NEW j \in Job
  PROVE  /\ \A stage \in JobSteps :
              /\ [j EXCEPT !.step = stage] \in Job
              /\ Same([j EXCEPT !.step = stage], j)
              /\ [j EXCEPT !.step = stage].step = stage
              /\ [j EXCEPT !.step = stage].todo = j.todo
              /\ [j EXCEPT !.step = stage].got = j.got
         /\ \A todo \in Todo :
              /\ [j EXCEPT !.todo = todo] \in Job
              /\ Same([j EXCEPT !.todo = todo], j)
              /\ [j EXCEPT !.todo = todo].step = j.step
              /\ [j EXCEPT !.todo = todo].todo = todo
              /\ [j EXCEPT !.todo = todo].got = j.got
         /\ \A got \in Links :
              /\ [j EXCEPT !.got = got] \in Job
              /\ Same([j EXCEPT !.got = got], j)
              /\ [j EXCEPT !.got = got].step = j.step
              /\ [j EXCEPT !.got = got].todo = j.todo
              /\ [j EXCEPT !.got = got].got = got
  BY DEF Job, Todo, JobSteps, Same

After(j, stage, got, todo) == [j EXCEPT !.step = stage, !.got = got, !.todo = todo]

LEMMA AfterFacts ==
  ASSUME NEW j \in Job, NEW stage \in JobSteps, NEW got \in Links, NEW todo \in Todo
  PROVE  /\ After(j, stage, got, todo) \in Job /\ Same(After(j, stage, got, todo), j)
         /\ After(j, stage, got, todo).step = stage
         /\ After(j, stage, got, todo).got = got
         /\ After(j, stage, got, todo).todo = todo
  <1> DEFINE a == [j EXCEPT !.step = stage]
             b == [a EXCEPT !.got = got]
             c == [b EXCEPT !.todo = todo]
  <1>1. a \in Job /\ Same(a, j) /\ a.step = stage /\ a.got = j.got /\ a.todo = j.todo
    BY JobWith
  <1>2. b \in Job /\ Same(b, a) /\ b.step = a.step /\ b.got = got /\ b.todo = a.todo
    BY <1>1, JobWith
  <1>3. c \in Job /\ Same(c, b) /\ c.step = b.step /\ c.got = b.got /\ c.todo = todo
    BY <1>2, JobWith
  <1>4. After(j, stage, got, todo) = c
    BY DEF Job, After
  <1>5. QED
    BY <1>1, <1>2, <1>3, <1>4 DEF Same

-----------------------------------------------------------------------------
(* What a job still has to parse.                                           *)

Names(todo) == {todo[i][1] : i \in DOMAIN todo}

LEMMA TodoFacts ==
  ASSUME NEW todo \in Todo, todo # <<>>
  PROVE  /\ Head(todo) \in Name \X Nat /\ Tail(todo) \in Todo
         /\ Names(todo) = {Head(todo)[1]} \cup Names(Tail(todo))
  <1>1. Head(todo) \in Name \X Nat /\ Tail(todo) \in Todo
    BY DEF Todo
  <1>2. Len(todo) \in Nat \ {0} /\ DOMAIN todo = 1..Len(todo) /\ Head(todo) = todo[1]
    BY DEF Todo
  <1>3. Len(Tail(todo)) = Len(todo) - 1 /\ DOMAIN Tail(todo) = 1..(Len(todo) - 1)
        /\ \A i \in 1..(Len(todo) - 1) : Tail(todo)[i] = todo[i + 1]
    BY <1>2 DEF Todo
  <1>4. Names(todo) \subseteq {Head(todo)[1]} \cup Names(Tail(todo))
    <2> SUFFICES ASSUME NEW i \in DOMAIN todo, i # 1
                 PROVE  todo[i][1] \in Names(Tail(todo))
      BY <1>2 DEF Names
    <2>1. i - 1 \in DOMAIN Tail(todo) /\ Tail(todo)[i - 1] = todo[i]
      BY <1>2, <1>3
    <2>2. QED
      BY <2>1 DEF Names
  <1>5. {Head(todo)[1]} \cup Names(Tail(todo)) \subseteq Names(todo)
    <2>1. Head(todo)[1] \in Names(todo)
      BY <1>2 DEF Names
    <2>2. ASSUME NEW i \in DOMAIN Tail(todo)
          PROVE  Tail(todo)[i][1] \in Names(todo)
      <3>1. i + 1 \in DOMAIN todo /\ Tail(todo)[i] = todo[i + 1]
        BY <1>2, <1>3
      <3>2. QED
        BY <3>1 DEF Names
    <2>3. QED
      BY <2>1, <2>2 DEF Names
  <1>6. QED
    BY <1>1, <1>4, <1>5

LEMMA PushedFacts ==
  ASSUME NEW todo \in Todo, NEW links \in Lists, NEW depth \in Nat,
         NEW targets, targets = [i \in DOMAIN links |-> <<links[i], depth>>]
  PROVE  /\ Pushed(todo, targets) \in Todo
         /\ Names(Pushed(todo, targets)) \subseteq Names(todo) \cup Post
  <1>1. links \in Seq(Post) /\ Post \subseteq Name
    BY ListsFacts DEF Name
  <1>2. Len(links) \in Nat /\ DOMAIN links = 1..Len(links)
        /\ \A i \in 1..Len(links) : links[i] \in Post
    BY <1>1
  <1>3. targets \in Seq(Post \X Nat)
    BY <1>2
  <1>4. Pushed(todo, targets) \in Todo
    <2>1. targets \in Todo
      BY <1>1, <1>2 DEF Todo
    <2>2. QED
      BY <2>1 DEF Todo, Pushed
  <1>5. ASSUME NEW i \in DOMAIN Pushed(todo, targets)
        PROVE  Pushed(todo, targets)[i][1] \in Names(todo) \cup Post
    <2>1. Len(todo) \in Nat /\ Len(targets) \in Nat /\ i \in 1..(Len(todo) + Len(targets))
      BY <1>3 DEF Pushed, Todo
    <2>2. CASE i <= Len(todo)
      <3>1. Pushed(todo, targets)[i] = todo[i] /\ i \in DOMAIN todo
        BY <2>1, <2>2, <1>3 DEF Pushed, Todo
      <3>2. QED
        BY <3>1 DEF Names
    <2>3. CASE i > Len(todo)
      <3>1. Pushed(todo, targets)[i] = targets[i - Len(todo)] /\ i - Len(todo) \in 1..Len(targets)
        BY <2>1, <2>3, <1>3 DEF Pushed, Todo
      <3>2. targets[i - Len(todo)] \in Post \X Nat
        BY <3>1, <1>3
      <3>3. QED
        BY <3>1, <3>2
    <2>4. QED
      BY <2>1, <2>2, <2>3
  <1>6. QED
    BY <1>4, <1>5 DEF Names

-----------------------------------------------------------------------------
(* The shape of a job.                                                      *)

Straight(j) == j.op # "post" \/ j.id \notin DOMAIN Alias

Collecting(j) == j.step \in {"next", "read", "cached"}

\* A file is read of the release it runs; a complete graph has a node for each
\* post of the release, collected or still to be; names of posts are their own.
Shaped(j) ==
  /\ (j.op = "post") <=> (j.key[1] = "post")
  /\ j.step \in {"read", "cached"} =>
       j.todo # <<>> /\ Head(j.todo)[1] \in PostsOf(j.release)
  /\ Collecting(j) /\ j.op # "post" =>
       PostsOf(j.release) = DOMAIN j.got \cup Names(j.todo)
  /\ Straight(j) => Names(j.todo) \subseteq Post

\* The queue without its head, and the posts it leads to.
Queue(todo, links) ==
  Pushed(Tail(todo), [i \in DOMAIN links |-> <<links[i], Head(todo)[2] + 1>>])

LEMMA TookFacts ==
  ASSUME NEW w \in Proc, job[w] \in Job, Shaped(job[w]), job[w].todo # <<>>,
         Collecting(job[w]), NEW links \in Lists,
         NEW p, p = Normal(Current(w)[1])
  PROVE  /\ p \in Post /\ Took(w, links) \in Job /\ Shaped(Took(w, links))
         /\ Same(Took(w, links), job[w]) /\ Took(w, links).step = "next"
         /\ DOMAIN Took(w, links).got = DOMAIN job[w].got \cup {p}
         /\ Took(w, links).got[p] = links
         /\ \A q \in DOMAIN job[w].got \ {p} : Took(w, links).got[q] = job[w].got[q]
         /\ job[w].op = "post" => Took(w, links).todo = Queue(job[w].todo, links)
  <1> DEFINE old == job[w]
             depth == Current(w)[2] + 1
             targets == [i \in DOMAIN links |-> <<links[i], depth>>]
             got == More(old.got, p, links)
             todo == IF old.op = "post" THEN Pushed(Tail(old.todo), targets) ELSE Tail(old.todo)
             k == After(old, "next", got, todo)
  <1>1. old.todo \in Todo /\ old.got \in Links
    BY JobFacts
  <1>2. Head(old.todo) \in Name \X Nat /\ Tail(old.todo) \in Todo
        /\ Names(old.todo) = {Head(old.todo)[1]} \cup Names(Tail(old.todo))
    BY <1>1, TodoFacts
  <1>3. Current(w)[1] \in Name /\ p \in Post /\ depth \in Nat
    BY <1>2, NameFacts DEF Current
  <1>4. got \in Links /\ DOMAIN got = DOMAIN old.got \cup {p} /\ got[p] = links
        /\ \A q \in DOMAIN old.got \ {p} : got[q] = old.got[q]
    <2> HIDE DEF old
    <2>1. \A f \in Links, q \in Post, l \in Lists :
             /\ More(f, q, l) \in Links /\ DOMAIN More(f, q, l) = DOMAIN f \cup {q}
             /\ More(f, q, l)[q] = l
             /\ \A o \in DOMAIN f \ {q} : More(f, q, l)[o] = f[o]
      BY MoreLinks
    <2>2. old.got \in Links /\ p \in Post /\ links \in Lists
      BY <1>1, <1>3
    <2> HIDE DEF got
    <2>3. got = More(old.got, p, links)
      BY DEF got
    <2>4. More(old.got, p, links) \in Links /\ DOMAIN More(old.got, p, links) = DOMAIN old.got \cup {p}
             /\ More(old.got, p, links)[p] = links
      BY <2>1, <2>2
    <2>5. ASSUME NEW o \in DOMAIN old.got \ {p}
          PROVE  More(old.got, p, links)[o] = old.got[o]
      BY DEF More
    <2>6. QED
      BY <2>3, <2>4, <2>5
  <1>5. Pushed(Tail(old.todo), targets) \in Todo
        /\ Names(Pushed(Tail(old.todo), targets)) \subseteq Names(Tail(old.todo)) \cup Post
    BY <1>2, <1>3, PushedFacts
  <1>6. todo \in Todo /\ Names(todo) \subseteq Names(old.todo) \cup Post
        /\ (old.op # "post" => todo = Tail(old.todo))
        /\ (old.op = "post" => todo = Queue(old.todo, links))
    BY <1>2, <1>5 DEF Queue, Current
  <1>7. Took(w, links) = k
    BY DEF Took, After, More
  <1> HIDE DEF old, got, todo, depth, targets
  <1>8. k \in Job /\ Same(k, old) /\ k.step = "next" /\ k.got = got /\ k.todo = todo
    BY <1>4, <1>6, AfterFacts DEF JobSteps, old
  <1> HIDE DEF k
  <1>9. Shaped(k)
    <2>1. (k.op = "post") <=> (k.key[1] = "post")
      BY <1>8 DEF Same, Shaped, old
    <2>2. k.step \notin {"read", "cached"}
      BY <1>8
    <2>3. ASSUME k.op # "post"
          PROVE  PostsOf(k.release) = DOMAIN k.got \cup Names(k.todo)
      <3>1. old.op # "post" /\ k.release = old.release
        BY <1>8, <2>3 DEF Same
      <3>2. PostsOf(old.release) = DOMAIN old.got \cup Names(old.todo)
            /\ Names(old.todo) \subseteq Post
        BY <3>1 DEF Shaped, Straight, old
      <3>3. p = Head(old.todo)[1]
        BY <3>2, <1>2, NameFacts DEF Current, old
      <3>4. QED
        BY <3>1, <3>2, <3>3, <1>2, <1>4, <1>6, <1>8
    <2>4. ASSUME Straight(k)
          PROVE  Names(k.todo) \subseteq Post
      <3>1. Straight(old)
        BY <2>4, <1>8 DEF Straight, Same
      <3>2. Names(old.todo) \subseteq Post
        BY <3>1 DEF Shaped, old
      <3>3. QED
        BY <3>2, <1>6, <1>8
    <2>5. QED
      BY <2>1, <2>2, <2>3, <2>4 DEF Shaped
  <1>10. QED
    BY <1>3, <1>4, <1>6, <1>7, <1>8, <1>9 DEF old

-----------------------------------------------------------------------------
(* Types.                                                                   *)

CacheOK ==
  /\ cache = [key \in DOMAIN cache |-> cache[key]]
  /\ \A key \in DOMAIN cache :
        /\ cache[key] = [value |-> Value(key), age |-> cache[key].age]
        /\ cache[key].age \in 0..(CacheTimeout - 1) /\ Holds(key, Value(key))

JobsOK ==
  /\ job \in [Proc -> {None} \cup Job]
  /\ \A w \in Proc : job[w] # None => Shaped(job[w])

ShotsOK == rows \in Seq(Links) /\ files \subseteq Links /\ torn \subseteq Links

DeploysOK ==
  /\ release \in Release /\ deploys \in 0..MaxDeploys /\ events \in 0..MaxEvents
  /\ since \in 0..Long /\ unsettled \in BOOLEAN

\* Who replaces a picture has found a row of its hash, and none is lost.
RowsFound == \A w \in Proc : job[w] # None /\ job[w].step = "update" => RowsOf(job[w].got) # {}

\* Inductive: GraphTypeOK, every job has its shape, and a row to replace is there.
TypeInv == CacheOK /\ JobsOK /\ ShotsOK /\ DeploysOK /\ RowsFound

LEMMA TypeParts == GraphTypeOK <=> (CacheOK /\ job \in [Proc -> {None} \cup Job] /\ ShotsOK /\ DeploysOK)
  BY DEF GraphTypeOK, CacheOK, ShotsOK, DeploysOK

LEMMA Numbers ==
  /\ CacheTimeout \in Nat \ {0} /\ MaxDeploys \in Nat /\ MaxEvents \in Nat
  /\ Release \subseteq Nat /\ Long \in Nat /\ Long = 2 * CacheTimeout - 1
  /\ CacheTimeout <= Long
  BY SiteAssumption, GraphAssumption DEF Long

LEMMA KeyKinds ==
  /\ \A p : LinksKey(p)[1] = "links" /\ LinksKey(p)[2] = p
            /\ MetaKey(p)[1] = "meta" /\ MetaKey(p)[2] = p
  /\ FullKey[1] = "full"
  /\ \A name, depth : PostKey(name, depth)[1] = "post" /\ PostKey(name, depth)[3] = depth
                      /\ PostKey(name, depth)[2] = Normal(name)
  BY DEF LinksKey, MetaKey, FullKey, PostKey

LEMMA Held ==
  /\ \A p, value : Holds(LinksKey(p), value) <=> (p \in Post /\ value \in Lists)
  /\ \A p, value : Holds(MetaKey(p), value) <=> (p \in Post /\ value \in Release)
  /\ \A key, value : key[1] \notin {"links", "meta"} =>
       (Holds(key, value) <=>
          value \in [id : {"full"} \cup Name, links : Links, nodes : SUBSET Post])
  BY KeyKinds DEF Holds

\* What Put does to the cache.
Entered(key, value) ==
  /\ DOMAIN cache' = DOMAIN cache \cup {key}
  /\ cache'[key].value = value /\ cache'[key].age = 0
  /\ \A k \in DOMAIN cache \ {key} : cache'[k] = cache[k]

LEMMA PutFacts ==
  ASSUME CacheOK, NEW key, NEW value, Holds(key, value), Put(key, value)
  PROVE  CacheOK' /\ Entered(key, value)
  <1>1. Entered(key, value) /\ cache'[key] = [value |-> value, age |-> 0]
        /\ cache' = [k \in DOMAIN cache' |-> cache'[k]]
    BY DEF Put, Entered
  <1>2. ASSUME NEW k \in DOMAIN cache'
        PROVE  /\ cache'[k] = [value |-> Value(k)', age |-> cache'[k].age]
               /\ cache'[k].age \in 0..(CacheTimeout - 1) /\ Holds(k, Value(k)')
    <2>1. CASE k = key
      BY <1>1, <2>1, Numbers DEF Entered, Value
    <2>2. CASE k # key
      BY <1>1, <2>2 DEF Entered, Value, CacheOK
    <2>3. QED
      BY <2>1, <2>2
  <1>3. QED
    BY <1>1, <1>2 DEF CacheOK, Value

\* What Become does to the jobs.
Moved(w, j) ==
  /\ j \in {None} \cup Job /\ (j # None => Shaped(j))
  /\ job'[w] = j /\ \A v \in Proc \ {w} : job'[v] = job[v]

LEMMA BecomeFacts ==
  ASSUME JobsOK, NEW w \in Proc, NEW j \in {None} \cup Job, j # None => Shaped(j),
         Become(w, j)
  PROVE  JobsOK' /\ Moved(w, j)
  BY DEF JobsOK, Moved, Become

LEMMA Worker ==
  ASSUME JobsOK, NEW w \in Proc, job[w] # None
  PROVE  /\ job[w] \in Job /\ Shaped(job[w])
         /\ job[w].todo # <<>> => Current(w) \in Name \X Nat /\ Current(w)[1] \in Names(job[w].todo)
         /\ FilesOf(w) = Site[job[w].release] /\ DOMAIN FilesOf(w) = PostsOf(job[w].release)
  <1>1. job[w] \in Job /\ Shaped(job[w])
    BY DEF JobsOK
  <1>2. job[w].todo # <<>> => Current(w) \in Name \X Nat /\ Current(w)[1] \in Names(job[w].todo)
    BY <1>1, JobFacts, TodoFacts DEF Current
  <1>3. QED
    BY <1>1, <1>2 DEF FilesOf, PostsOf

-----------------------------------------------------------------------------
(* What each step does.                                                     *)

LEMMA SkipFacts ==
  ASSUME TypeInv, NEW w \in Proc, Skip(w)
  PROVE  /\ JobsOK' /\ Moved(w, job'[w]) /\ job[w] # None /\ job'[w] # None
         /\ Same(job'[w], job[w]) /\ job[w].step = "next" /\ job'[w].step = "next"
         /\ job'[w].got = job[w].got /\ job[w].op = "post"
         /\ job[w].todo # <<>> /\ job'[w].todo = Tail(job[w].todo)
         /\ UNCHANGED <<cache, shotVars, deployVars, events>>
  <1> DEFINE old == job[w]
             j == [old EXCEPT !.todo = Tail(@)]
  <1>1. old # None /\ old.todo # <<>> /\ old.step = "next" /\ old.op = "post" /\ Become(w, j)
    BY DEF Skip, Building, Skipped
  <1>2. old \in Job /\ Shaped(old) /\ JobsOK
    BY <1>1, Worker DEF TypeInv
  <1>3. Tail(old.todo) \in Todo /\ Names(Tail(old.todo)) \subseteq Names(old.todo)
    BY <1>1, <1>2, JobFacts, TodoFacts
  <1> HIDE DEF old
  <1>4. j \in Job /\ Same(j, old) /\ j.step = "next" /\ j.todo = Tail(old.todo) /\ j.got = old.got
    BY <1>1, <1>2, <1>3, JobWith
  <1> HIDE DEF j
  <1>5. Shaped(j)
    BY <1>1, <1>2, <1>3, <1>4 DEF Shaped, Straight, Same
  <1>6. JobsOK' /\ Moved(w, j)
    BY <1>1, <1>2, <1>4, <1>5, BecomeFacts
  <1>7. job'[w] = j /\ j # None
    BY <1>6, <1>4, JobFacts DEF Moved
  <1>8. UNCHANGED <<cache, shotVars, deployVars, events>>
    BY DEF Skip
  <1>9. QED
    BY <1>1, <1>4, <1>6, <1>7, <1>8 DEF old

\* A job enters the links of the post at hand.
Takes(w, links) ==
  LET p == Normal(Current(w)[1])
  IN  /\ Moved(w, job'[w]) /\ job[w] # None /\ job'[w] # None
      /\ Same(job'[w], job[w]) /\ job'[w].step = "next"
      /\ p \in Post /\ DOMAIN job'[w].got = DOMAIN job[w].got \cup {p}
      /\ job'[w].got[p] = links
      /\ \A q \in DOMAIN job[w].got \ {p} : job'[w].got[q] = job[w].got[q]
      /\ job[w].op = "post" => job'[w].todo = Queue(job[w].todo, links)

LEMMA TakesFacts ==
  ASSUME TypeInv, NEW w \in Proc, Building(w), Collecting(job[w]), NEW links \in Lists,
         Become(w, Took(w, links))
  PROVE  JobsOK' /\ Takes(w, links)
  <1> DEFINE j == Took(w, links)
             p == Normal(Current(w)[1])
  <1>1. job[w] # None /\ job[w] \in Job /\ Shaped(job[w]) /\ job[w].todo # <<>> /\ JobsOK
    BY Worker DEF TypeInv, Building
  <1>2. /\ p \in Post /\ j \in Job /\ Shaped(j) /\ Same(j, job[w]) /\ j.step = "next"
        /\ DOMAIN j.got = DOMAIN job[w].got \cup {p} /\ j.got[p] = links
        /\ \A q \in DOMAIN job[w].got \ {p} : j.got[q] = job[w].got[q]
        /\ job[w].op = "post" => j.todo = Queue(job[w].todo, links)
    BY <1>1, TookFacts
  <1> HIDE DEF j
  <1>3. JobsOK' /\ Moved(w, j)
    BY <1>1, <1>2, BecomeFacts DEF j
  <1>4. job'[w] = j /\ j # None
    BY <1>3, <1>2, JobFacts DEF Moved
  <1>5. QED
    BY <1>1, <1>2, <1>3, <1>4 DEF Takes

LEMMA UseCachedFacts ==
  ASSUME TypeInv, NEW w \in Proc, UseCached(w), NEW name, name = Current(w)[1]
  PROVE  /\ JobsOK' /\ Takes(w, Value(LinksKey(name)))
         /\ name \in PostsOf(job[w].release) /\ Cached(LinksKey(name))
         /\ Cached(MetaKey(name)) /\ ~(job[w].release > Value(MetaKey(name)))
         /\ UNCHANGED <<cache, shotVars, deployVars, events>>
  <1>1. /\ Building(w) /\ job[w].step = "next" /\ Hit(w)
        /\ Become(w, Took(w, Value(LinksKey(name))))
        /\ UNCHANGED <<cache, shotVars, deployVars, events>>
    BY DEF UseCached
  <1>2. name \in DOMAIN FilesOf(w) /\ Cached(LinksKey(name)) /\ Cached(MetaKey(name))
        /\ ~(job[w].release > Value(MetaKey(name)))
    BY <1>1 DEF Hit, IsCacheStale
  <1>3. Value(LinksKey(name)) \in Lists
    BY <1>2, Held DEF TypeInv, CacheOK, Cached
  <1>4. Collecting(job[w])
    BY <1>1 DEF Collecting
  <1>5. JobsOK' /\ Takes(w, Value(LinksKey(name)))
    BY <1>1, <1>3, <1>4, TakesFacts
  <1>6. QED
    BY <1>1, <1>2, <1>5 DEF FilesOf, PostsOf

\* A job goes to another step and nothing else of it changes.
Goes(w, stage) ==
  /\ Moved(w, job'[w]) /\ job[w] # None /\ job'[w] # None
  /\ Same(job'[w], job[w]) /\ job'[w].step = stage
  /\ job'[w].todo = job[w].todo /\ job'[w].got = job[w].got

LEMMA GoesFacts ==
  ASSUME TypeInv, NEW w \in Proc, job[w] # None, NEW stage \in JobSteps,
         Become(w, [job[w] EXCEPT !.step = stage]),
         stage \in {"read", "cached"} =>
            job[w].todo # <<>> /\ Current(w)[1] \in PostsOf(job[w].release),
         Collecting(job[w]) \/ stage \notin {"next", "read", "cached"}
  PROVE  JobsOK' /\ Goes(w, stage)
  <1> DEFINE old == job[w]
             j == [old EXCEPT !.step = stage]
  <1>1. old \in Job /\ Shaped(old) /\ JobsOK
    BY Worker DEF TypeInv
  <1> HIDE DEF old
  <1>2. j \in Job /\ Same(j, old) /\ j.step = stage /\ j.todo = old.todo /\ j.got = old.got
    BY <1>1, JobWith
  <1> HIDE DEF j
  <1>3. Shaped(j)
    <2>1. ((j.op = "post") <=> (j.key[1] = "post")) /\ (Straight(j) => Names(j.todo) \subseteq Post)
      BY <1>1, <1>2 DEF Shaped, Straight, Same
    <2>2. j.step \in {"read", "cached"} =>
             j.todo # <<>> /\ Head(j.todo)[1] \in PostsOf(j.release)
      BY <1>2 DEF Same, Current, old
    <2>3. Collecting(j) /\ j.op # "post" =>
             PostsOf(j.release) = DOMAIN j.got \cup Names(j.todo)
      <3>1. Collecting(j) => Collecting(old)
        BY <1>2 DEF Collecting, old
      <3>2. QED
        BY <3>1, <1>1, <1>2 DEF Shaped, Same
    <2>4. QED
      BY <2>1, <2>2, <2>3 DEF Shaped
  <1>4. JobsOK' /\ Moved(w, j)
    BY <1>1, <1>2, <1>3, BecomeFacts DEF j, old
  <1>5. job'[w] = j /\ j # None
    BY <1>4, <1>2, JobFacts DEF Moved
  <1>6. QED
    BY <1>2, <1>4, <1>5 DEF Goes, old

LEMMA ReadPostFacts ==
  ASSUME TypeInv, NEW w \in Proc, ReadPost(w), NEW name, name = Current(w)[1]
  PROVE  /\ JobsOK' /\ UNCHANGED <<cache, shotVars, deployVars, events>>
         /\ job[w].step = "next"
         /\ IF name \in PostsOf(job[w].release) THEN Goes(w, "read") ELSE Takes(w, <<>>)
  <1>1. /\ Building(w) /\ job[w].step = "next"
        /\ UNCHANGED <<cache, shotVars, deployVars, events>>
        /\ IF name \in PostsOf(job[w].release) THEN Become(w, [job[w] EXCEPT !.step = "read"])
           ELSE Become(w, Took(w, <<>>))
    BY DEF ReadPost, FilesOf, PostsOf
  <1>2. Collecting(job[w]) /\ job[w] # None /\ job[w].todo # <<>>
    BY <1>1 DEF Collecting, Building
  <1>3. CASE name \in PostsOf(job[w].release)
    <2>1. JobsOK' /\ Goes(w, "read")
      BY <1>1, <1>2, <1>3, GoesFacts DEF JobSteps
    <2>2. QED
      BY <1>1, <1>3, <2>1
  <1>4. CASE name \notin PostsOf(job[w].release)
    <2>1. JobsOK' /\ Takes(w, <<>>)
      BY <1>1, <1>2, <1>4, TakesFacts, ListsFacts
    <2>2. QED
      BY <1>1, <1>4, <2>1
  <1>5. QED
    BY <1>3, <1>4

LEMMA CacheLinksFacts ==
  ASSUME TypeInv, NEW w \in Proc, CacheLinks(w), NEW name, name = Current(w)[1]
  PROVE  /\ JobsOK' /\ CacheOK' /\ UNCHANGED <<shotVars, deployVars, events>>
         /\ job[w].step = "read" /\ Goes(w, "cached")
         /\ name \in PostsOf(job[w].release) /\ name \in Post
         /\ Entered(LinksKey(name), Site[job[w].release][name])
  <1>1. /\ Building(w) /\ job[w].step = "read" /\ UNCHANGED <<shotVars, deployVars, events>>
        /\ Put(LinksKey(name), Site[job[w].release][name])
        /\ Become(w, [job[w] EXCEPT !.step = "cached"])
    BY DEF CacheLinks, FilesOf
  <1>2. job[w] # None /\ job[w] \in Job /\ Shaped(job[w]) /\ Collecting(job[w])
    BY <1>1, Worker DEF TypeInv, Building, Collecting
  <1>3. job[w].todo # <<>> /\ name \in PostsOf(job[w].release) /\ job[w].release \in Release
    BY <1>1, <1>2, JobFacts DEF Shaped, Current
  <1>4. name \in Post /\ Site[job[w].release][name] \in Lists
    BY <1>3, SiteFacts
  <1>5. JobsOK' /\ Goes(w, "cached")
    BY <1>1, <1>2, <1>3, GoesFacts DEF JobSteps
  <1>6. CacheOK' /\ Entered(LinksKey(name), Site[job[w].release][name])
    BY <1>1, <1>4, Held, PutFacts DEF TypeInv
  <1>7. QED
    BY <1>1, <1>3, <1>4, <1>5, <1>6

LEMMA CacheMetaFacts ==
  ASSUME TypeInv, NEW w \in Proc, CacheMeta(w), NEW name, name = Current(w)[1]
  PROVE  /\ JobsOK' /\ CacheOK' /\ UNCHANGED <<shotVars, deployVars, events>>
         /\ job[w].step = "cached" /\ name \in PostsOf(job[w].release) /\ name \in Post
         /\ Takes(w, Site[job[w].release][name])
         /\ Entered(MetaKey(name), job[w].release)
  <1>1. /\ Building(w) /\ job[w].step = "cached" /\ UNCHANGED <<shotVars, deployVars, events>>
        /\ Put(MetaKey(name), job[w].release)
        /\ Become(w, Took(w, Site[job[w].release][name]))
    BY DEF CacheMeta, FilesOf
  <1>2. job[w] # None /\ job[w] \in Job /\ Shaped(job[w]) /\ Collecting(job[w])
    BY <1>1, Worker DEF TypeInv, Building, Collecting
  <1>3. job[w].todo # <<>> /\ name \in PostsOf(job[w].release) /\ job[w].release \in Release
    BY <1>1, <1>2, JobFacts DEF Shaped, Current
  <1>4. name \in Post /\ Site[job[w].release][name] \in Lists
    BY <1>3, SiteFacts
  <1>5. JobsOK' /\ Takes(w, Site[job[w].release][name])
    BY <1>1, <1>2, <1>4, TakesFacts
  <1>6. CacheOK' /\ Entered(MetaKey(name), job[w].release)
    BY <1>1, <1>3, <1>4, Held, PutFacts DEF TypeInv
  <1>7. QED
    BY <1>1, <1>3, <1>4, <1>5, <1>6

-----------------------------------------------------------------------------
(* Jobs begin and end.                                                      *)

LEMMA ListOf ==
  ASSUME NEW S, IsFiniteSet(S)
  PROVE  /\ SetToSeq(S) \in Seq(S)
         /\ {SetToSeq(S)[i] : i \in DOMAIN SetToSeq(S)} = S
  <1> DEFINE n == Cardinality(S)
             f == SetToSeq(S)
  <1>1. n \in Nat /\ Bijection(1..n, S) # {}
    BY FS_CardinalityType DEF ExistsBijection
  <1>2. \E g \in [1..n -> S] : IsInjective(g)
    BY <1>1 DEF Bijection, Injection
  <1>3. f \in [1..n -> S] /\ IsInjective(f)
    BY <1>2 DEF SetToSeq
  <1>4. f \in Injection(1..n, S)
    BY <1>3 DEF Injection
  <1>5. Cardinality(1..n) = n
    BY <1>1, FS_Interval
  <1>6. f \in Surjection(1..n, S)
    BY <1>4, <1>5, FS_Injection
  <1>7. \A s \in S : \E i \in 1..n : f[i] = s
    BY <1>6 DEF Surjection
  <1> HIDE DEF f
  <1>8. f \in Seq(S) /\ DOMAIN f = 1..n
    BY <1>1, <1>3
  <1>9. {f[i] : i \in DOMAIN f} = S
    BY <1>3, <1>7, <1>8
  <1>10. QED
    BY <1>8, <1>9 DEF f

LEMMA EverythingFacts ==
  ASSUME release \in Release
  PROVE  Everything \in Todo /\ Names(Everything) = PostsOf(release)
  <1> DEFINE names == SetToSeq(PostsOf(release))
  <1>1. IsFiniteSet(PostsOf(release)) /\ PostsOf(release) \subseteq Name
    BY SiteFacts DEF Name
  <1>2. names \in Seq(PostsOf(release)) /\ {names[i] : i \in DOMAIN names} = PostsOf(release)
    BY <1>1, ListOf
  <1>3. Everything = [i \in DOMAIN names |-> <<names[i], 0>>]
    BY DEF Everything
  <1> HIDE DEF names
  <1>4. Len(names) \in Nat /\ DOMAIN names = 1..Len(names)
        /\ \A i \in 1..Len(names) : names[i] \in Name
    BY <1>1, <1>2
  <1>5. Everything \in Todo /\ DOMAIN Everything = DOMAIN names
        /\ \A i \in DOMAIN names : Everything[i][1] = names[i]
    BY <1>3, <1>4 DEF Todo
  <1>6. Names(Everything) = {names[i] : i \in DOMAIN names}
    BY <1>5 DEF Names
  <1>7. QED
    BY <1>2, <1>5, <1>6

LEMMA FullJobFacts ==
  ASSUME release \in Release, NEW op \in {"full", "shot"}, NEW force \in BOOLEAN
  PROVE  /\ FullJob(op, force) \in Job /\ Shaped(FullJob(op, force))
         /\ FullJob(op, force).op = op /\ FullJob(op, force).release = release
         /\ FullJob(op, force).step = "next" /\ FullJob(op, force).got = <<>>
         /\ FullJob(op, force).key = FullKey
  <1> DEFINE j == FullJob(op, force)
  <1>1. /\ j.op = op /\ j.release = release /\ j.step = "next" /\ j.got = <<>>
        /\ j.key = FullKey /\ j.todo = Everything
    BY DEF FullJob
  <1>2. Everything \in Todo /\ Names(Everything) = PostsOf(release)
    BY EverythingFacts
  <1>3. j \in Job
    BY <1>2, NoLinks DEF FullJob, Job, Todo
  <1>4. PostsOf(release) \subseteq Post /\ DOMAIN j.got = {}
    BY <1>1, SiteFacts, NoLinks
  <1> HIDE DEF j
  <1>5. Shaped(j)
    BY <1>1, <1>2, <1>4, KeyKinds DEF Shaped
  <1>6. QED
    BY <1>1, <1>3, <1>5 DEF j

\* A job that begins, before it has collected anything.
Begins(w, op) ==
  /\ Moved(w, job'[w]) /\ job[w] = None /\ job'[w] # None
  /\ job'[w].op = op /\ job'[w].release = release
  /\ job'[w].step = "next" /\ DOMAIN job'[w].got = {}

LEMMA BeginsFacts ==
  ASSUME TypeInv, NEW w \in Proc, job[w] = None, NEW op \in {"full", "shot"},
         NEW force \in BOOLEAN, Become(w, FullJob(op, force))
  PROVE  JobsOK' /\ Begins(w, op)
  <1> DEFINE j == FullJob(op, force)
  <1>1. /\ j \in Job /\ Shaped(j) /\ j.op = op /\ j.release = release /\ j.step = "next"
        /\ DOMAIN j.got = {}
    BY FullJobFacts, NoLinks DEF TypeInv, DeploysOK
  <1> HIDE DEF j
  <1>2. JobsOK' /\ Moved(w, j)
    BY <1>1, BecomeFacts DEF TypeInv, j
  <1>3. job'[w] = j /\ j # None
    BY <1>1, <1>2, JobFacts DEF Moved
  <1>4. QED
    BY <1>1, <1>2, <1>3 DEF Begins

LEMMA BuildFacts ==
  ASSUME TypeInv, NEW w \in Proc, NEW force \in BOOLEAN, BuildCompleteGraph(w, force)
  PROVE  JobsOK' /\ Begins(w, "full") /\ UNCHANGED <<cache, shotVars, deployVars, events>>
  BY BeginsFacts DEF BuildCompleteGraph

LEMMA CommandFacts ==
  ASSUME TypeInv, NEW w \in Proc, RebuildCommand(w)
  PROVE  /\ JobsOK' /\ CacheOK' /\ Begins(w, "full")
         /\ DOMAIN cache' \subseteq DOMAIN cache
         /\ \A key \in DOMAIN cache' : cache'[key] = cache[key]
         /\ UNCHANGED <<shotVars, deployVars, events>>
  <1>1. /\ job[w] = None /\ Become(w, FullJob("full", TRUE)) /\ cache' = Without({FullKey})
        /\ UNCHANGED <<shotVars, deployVars, events>>
    BY DEF RebuildCommand
  <1>2. /\ DOMAIN cache' \subseteq DOMAIN cache
        /\ \A key \in DOMAIN cache' : cache'[key] = cache[key]
        /\ cache' = [key \in DOMAIN cache' |-> cache'[key]]
    BY <1>1 DEF Without
  <1>3. CacheOK'
    <2>1. ASSUME NEW key \in DOMAIN cache'
          PROVE  /\ cache'[key] = [value |-> Value(key)', age |-> cache'[key].age]
                 /\ cache'[key].age \in 0..(CacheTimeout - 1) /\ Holds(key, Value(key)')
      <3>1. key \in DOMAIN cache /\ cache'[key] = cache[key] /\ Value(key)' = Value(key)
        BY <1>2 DEF Value
      <3>2. QED
        BY <3>1 DEF TypeInv, CacheOK
    <2>2. cache' = [key \in DOMAIN cache' |-> cache'[key]]
      BY <1>2
    <2>3. QED
      BY <2>1, <2>2 DEF CacheOK, Value
  <1>4. QED
    BY <1>1, <1>2, <1>3, BeginsFacts

LEMMA ConnectionsFacts ==
  ASSUME TypeInv, NEW w \in Proc, NEW ask \in Asked, GetPostConnections(w, ask[1], ask[2])
  PROVE  /\ JobsOK' /\ Begins(w, "post") /\ UNCHANGED <<cache, shotVars, deployVars, events>>
         /\ job'[w].todo = <<<<ask[1], 0>>>> /\ job'[w].key = PostKey(ask[1], ask[2])
  <1> DEFINE key == PostKey(ask[1], ask[2])
             todo == <<<<ask[1], 0>>>>
             j == [op |-> "post", force |-> FALSE, release |-> release, key |-> key,
                   id |-> ask[1], todo |-> todo, got |-> <<>>, step |-> "next"]
  <1>1. job[w] = None /\ Become(w, j) /\ UNCHANGED <<cache, shotVars, deployVars, events>>
    BY DEF GetPostConnections
  <1>2. ask[1] \in Name /\ release \in Release
    BY SiteAssumption DEF TypeInv, DeploysOK, Name
  <1>3. todo \in Todo /\ Names(todo) = {ask[1]}
    BY <1>2 DEF Todo, Names
  <1>4. j \in Job
    BY <1>2, <1>3, NoLinks DEF Job, Todo
  <1>5. /\ j.op = "post" /\ j.release = release /\ j.step = "next" /\ DOMAIN j.got = {}
        /\ j.id = ask[1] /\ j.key = key /\ j.todo = todo
    BY NoLinks
  <1> HIDE DEF j, todo
  <1>6. Shaped(j)
    BY <1>2, <1>3, <1>5, KeyKinds DEF Shaped, Straight, Name
  <1>7. JobsOK' /\ Moved(w, j)
    BY <1>1, <1>4, <1>6, BecomeFacts DEF TypeInv
  <1>8. job'[w] = j /\ j # None
    BY <1>4, <1>7, JobFacts DEF Moved
  <1>9. QED
    BY <1>1, <1>5, <1>7, <1>8 DEF Begins, todo

LEMMA FinishFacts ==
  ASSUME TypeInv, NEW w \in Proc, Finish(w)
  PROVE  /\ JobsOK' /\ CacheOK' /\ UNCHANGED <<shotVars, deployVars, events>>
         /\ job[w] # None /\ job[w].todo = <<>> /\ job[w].step = "next"
         /\ Entered(job[w].key, GraphOf(job[w].id, job[w].got))
         /\ \/ Goes(w, "hash")
            \/ Moved(w, None)
  <1>1. /\ job[w] # None /\ job[w].todo = <<>> /\ job[w].step = "next"
        /\ Put(job[w].key, GraphOf(job[w].id, job[w].got))
        /\ Become(w, IF job[w].op = "shot" THEN [job[w] EXCEPT !.step = "hash"] ELSE None)
        /\ UNCHANGED <<shotVars, deployVars, events>>
    BY DEF Finish
  <1>2. job[w] \in Job /\ job[w].id \in {"full"} \cup Name /\ job[w].got \in Links
    BY <1>1, Worker, JobFacts DEF TypeInv
  <1>3. /\ DOMAIN job[w].got \subseteq Post
        /\ \A p \in DOMAIN job[w].got : job[w].got[p] \in Seq(Post)
    BY <1>2, LinksFacts, ListsFacts
  <1>4. \A p \in DOMAIN job[w].got : Range(job[w].got[p]) \subseteq Post
    BY <1>3 DEF Range
  <1>5. GraphOf(job[w].id, job[w].got)
          \in [id : {"full"} \cup Name, links : Links, nodes : SUBSET Post]
    BY <1>2, <1>3, <1>4 DEF GraphOf
  <1>6. job[w].key[1] \notin {"links", "meta"}
    BY <1>2, JobFacts, KeyKinds
  <1>7. Holds(job[w].key, GraphOf(job[w].id, job[w].got))
    BY <1>5, <1>6, Held
  <1>8. CacheOK' /\ Entered(job[w].key, GraphOf(job[w].id, job[w].got))
    BY <1>1, <1>7, PutFacts DEF TypeInv
  <1>9. CASE job[w].op = "shot"
    <2>1. JobsOK' /\ Goes(w, "hash")
      BY <1>1, <1>9, GoesFacts DEF JobSteps
    <2>2. QED
      BY <1>1, <1>8, <2>1
  <1>10. CASE job[w].op # "shot"
    <2>1. JobsOK' /\ Moved(w, None)
      BY <1>1, <1>10, BecomeFacts DEF TypeInv
    <2>2. QED
      BY <1>1, <1>8, <2>1
  <1>11. QED
    BY <1>9, <1>10

-----------------------------------------------------------------------------
(* Pictures.                                                                *)

LEMMA RemoveAtFacts ==
  ASSUME NEW S, NEW s \in Seq(S), NEW i \in 1..Len(s)
  PROVE  /\ RemoveAt(s, i) \in Seq(S) /\ Len(RemoveAt(s, i)) = Len(s) - 1
         /\ \A k \in 1..(Len(s) - 1) : RemoveAt(s, i)[k] = s[IF k < i THEN k ELSE k + 1]
  <1> DEFINE n == Len(s)
             a == SubSeq(s, 1, i - 1)
             b == SubSeq(s, i + 1, n)
  <1>1. n \in Nat /\ i \in Nat /\ 1 <= i /\ i <= n
    OBVIOUS
  <1>2. a \in Seq(S) /\ Len(a) = i - 1 /\ \A k \in 1..(i - 1) : a[k] = s[k]
    BY <1>1
  <1>3. b \in Seq(S) /\ Len(b) = n - i /\ \A k \in 1..(n - i) : b[k] = s[i + k]
    BY <1>1
  <1>4. RemoveAt(s, i) = a \o b
    BY DEF RemoveAt
  <1> HIDE DEF a, b
  <1>5. a \o b \in Seq(S) /\ Len(a \o b) = Len(a) + Len(b)
        /\ \A k \in 1..(Len(a) + Len(b)) : (a \o b)[k] = IF k <= Len(a) THEN a[k] ELSE b[k - Len(a)]
    <2>1. a \in Seq(S) /\ b \in Seq(S)
      BY <1>2, <1>3
    <2>2. QED
      BY <2>1, ConcatProperties
  <1>6. Len(a) + Len(b) = n - 1
    BY <1>1, <1>2, <1>3
  <1>7. ASSUME NEW k \in 1..(n - 1)
        PROVE  (a \o b)[k] = s[IF k < i THEN k ELSE k + 1]
    <2>1. CASE k < i
      <3>1. k \in 1..(i - 1) /\ k <= Len(a)
        BY <1>1, <1>2, <2>1
      <3>2. QED
        BY <1>2, <1>5, <1>6, <2>1, <3>1
    <2>2. CASE ~(k < i)
      <3>1. ~(k <= Len(a)) /\ k - Len(a) = k - (i - 1) /\ k - (i - 1) \in 1..(n - i)
        BY <1>1, <1>2, <2>2
      <3>2. i + (k - (i - 1)) = k + 1
        BY <1>1
      <3>3. QED
        BY <1>3, <1>5, <1>6, <2>2, <3>1, <3>2
    <2>3. QED
      BY <2>1, <2>2
  <1>8. QED
    BY <1>4, <1>5, <1>6, <1>7

LEMMA TakeFacts ==
  ASSUME TypeInv, NEW w \in Proc, TakeScreenshot(w)
  PROVE  /\ JobsOK' /\ UNCHANGED <<cache, shotVars, deployVars>> /\ events' \in 0..MaxEvents
         /\ \/ Begins(w, "shot")
            \/ /\ Moved(w, job'[w]) /\ job[w] = None /\ job'[w] # None
               /\ job'[w].release = release /\ job'[w].step = "hash"
  <1> DEFINE full == FullJob("shot", FALSE)
             links == Value(FullKey).links
             j == After(full, "hash", links, <<>>)
  <1>1. /\ job[w] = None /\ UNCHANGED <<cache, shotVars, deployVars>>
        /\ events < MaxEvents /\ events' = events + 1
        /\ Become(w, IF Cached(FullKey)
                     THEN [full EXCEPT !.todo = <<>>, !.got = Value(FullKey).links, !.step = "hash"]
                     ELSE full)
    BY DEF TakeScreenshot, Event
  <1>2. events' \in 0..MaxEvents
    BY <1>1, Numbers DEF TypeInv, DeploysOK
  <1>3. CASE Cached(FullKey)
    <2>1. Holds(FullKey, Value(FullKey))
      BY <1>3 DEF TypeInv, CacheOK, Cached
    <2>2. Value(FullKey) \in [id : {"full"} \cup Name, links : Links, nodes : SUBSET Post]
      BY <2>1, Held, KeyKinds
    <2>3. links \in Links
      BY <2>2
    <2>4. full \in Job /\ Shaped(full) /\ full.op = "shot" /\ full.release = release
          /\ full.key = FullKey
      BY FullJobFacts DEF TypeInv, DeploysOK
    <2>5. [full EXCEPT !.todo = <<>>, !.got = Value(FullKey).links, !.step = "hash"] = j
      BY DEF FullJob, After
    <2>6. <<>> \in Todo /\ Names(<<>>) = {}
      BY DEF Todo, Names
    <2> HIDE DEF full, links
    <2>7. /\ j \in Job /\ Same(j, full) /\ j.step = "hash" /\ j.todo = <<>>
      BY <2>3, <2>4, <2>6, AfterFacts DEF JobSteps
    <2> HIDE DEF j
    <2>8. Shaped(j)
      BY <2>4, <2>6, <2>7, KeyKinds DEF Shaped, Same, Collecting
    <2>9. JobsOK' /\ Moved(w, j)
      BY <1>1, <1>3, <2>5, <2>7, <2>8, BecomeFacts DEF TypeInv, full, links
    <2>10. job'[w] = j /\ j # None
      BY <2>7, <2>9, JobFacts DEF Moved
    <2>11. j.release = release /\ j.step = "hash"
      BY <2>4, <2>7 DEF Same
    <2>12. QED
      BY <1>1, <1>2, <2>9, <2>10, <2>11
  <1>4. CASE ~Cached(FullKey)
    <2>1. JobsOK' /\ Begins(w, "shot")
      BY <1>1, <1>4, BeginsFacts
    <2>2. QED
      BY <1>1, <1>2, <2>1
  <1>5. QED
    BY <1>3, <1>4

LEMMA LookUpFacts ==
  ASSUME TypeInv, NEW w \in Proc, LookUpPicture(w), NEW hash, hash = job[w].got
  PROVE  /\ JobsOK' /\ job[w] # None /\ job[w].step = "hash" /\ hash \in Links
         /\ UNCHANGED <<cache, rows, deployVars, events>>
         /\ torn' = IF Contended(w, hash) THEN torn \cup {hash} ELSE torn
         /\ \/ Goes(w, "create") /\ RowsOf(hash) = {} /\ files' = files
            \/ Goes(w, "update") /\ RowsOf(hash) # {} /\ files' = files \ {hash}
            \/ Moved(w, None) /\ files' = files
  <1>1. /\ job[w] # None /\ job[w].step = "hash" /\ UNCHANGED <<cache, rows, deployVars, events>>
        /\ torn' = IF Contended(w, hash) THEN torn \cup {hash} ELSE torn
    BY DEF LookUpPicture
  <1>2. hash \in Links
    BY <1>1, Worker, JobFacts DEF TypeInv
  <1>3. CASE /\ RowsOf(hash) = {} /\ UNCHANGED files
             /\ Become(w, [job[w] EXCEPT !.step = "create"])
    <2>1. JobsOK' /\ Goes(w, "create")
      BY <1>1, <1>3, GoesFacts DEF JobSteps
    <2>2. QED
      BY <1>1, <1>2, <1>3, <2>1
  <1>4. CASE /\ Cardinality(RowsOf(hash)) = 1 /\ files' = DeletedWith(hash)
             /\ Become(w, [job[w] EXCEPT !.step = "update"])
    <2>1. JobsOK' /\ Goes(w, "update")
      BY <1>1, <1>4, GoesFacts DEF JobSteps
    <2>2. RowsOf(hash) # {}
      BY <1>4, FS_EmptySet
    <2>3. QED
      BY <1>1, <1>2, <1>4, <2>1, <2>2 DEF DeletedWith
  <1>5. CASE Become(w, None) /\ UNCHANGED files
    <2>1. JobsOK' /\ Moved(w, None)
      BY <1>5, BecomeFacts DEF TypeInv
    <2>2. QED
      BY <1>1, <1>2, <1>5, <2>1
  <1>6. QED
    BY <1>3, <1>4, <1>5 DEF LookUpPicture

\* The rows after a picture is stored: those before it, each in one place, but
\* for the one replaced, and then its own.
Stored(hash, lost) ==
  LET n == Len(rows')
  IN  /\ n \in Nat \ {0} /\ rows'[n] = hash
      /\ \E from \in [1..(n - 1) -> DOMAIN rows \ lost] :
            /\ \A k \in 1..(n - 1) : rows'[k] = rows[from[k]]
            /\ \A k, l \in 1..(n - 1) : from[k] = from[l] => k = l
            /\ \A i \in DOMAIN rows \ lost : \E k \in 1..(n - 1) : from[k] = i

LEMMA SaveFacts ==
  ASSUME TypeInv, NEW w \in Proc, SaveImage(w), NEW hash, hash = job[w].got
  PROVE  /\ JobsOK' /\ Moved(w, None) /\ job[w] # None /\ hash \in Links
         /\ rows' \in Seq(Links) /\ files' = files \cup {hash}
         /\ UNCHANGED <<cache, torn, deployVars, events>>
         /\ \/ job[w].step = "create" /\ Stored(hash, {})
            \/ job[w].step = "update" /\ \E i \in RowsOf(hash) : Stored(hash, {i})
  <1>1. /\ job[w] # None /\ job[w].step \in {"create", "update"} /\ rows' = RowSaved(w)
        /\ files' = files \cup {hash} /\ Become(w, None)
        /\ UNCHANGED <<cache, torn, deployVars, events>>
    BY DEF SaveImage
  <1>2. hash \in Links /\ rows \in Seq(Links) /\ Len(rows) \in Nat /\ DOMAIN rows = 1..Len(rows)
    BY <1>1, Worker, JobFacts DEF TypeInv, ShotsOK
  <1>3. JobsOK' /\ Moved(w, None)
    BY <1>1, BecomeFacts DEF TypeInv
  <1>4. CASE job[w].step = "create"
    <2>1. rows' = Append(rows, hash)
      BY <1>1, <1>4 DEF RowSaved
    <2>2. /\ rows' \in Seq(Links) /\ Len(rows') = Len(rows) + 1 /\ rows'[Len(rows) + 1] = hash
          /\ \A k \in 1..Len(rows) : rows'[k] = rows[k]
      BY <1>2, <2>1
    <2>3. Stored(hash, {})
      <3> DEFINE n == Len(rows')
                 from == [k \in 1..(n - 1) |-> k]
      <3>1. n \in Nat \ {0} /\ n - 1 = Len(rows) /\ rows'[n] = hash
        BY <1>2, <2>2
      <3>2. from \in [1..(n - 1) -> DOMAIN rows \ {}]
        BY <1>2, <3>1
      <3>3. /\ \A k \in 1..(n - 1) : rows'[k] = rows[from[k]]
            /\ \A k, l \in 1..(n - 1) : from[k] = from[l] => k = l
            /\ \A i \in DOMAIN rows \ {} : \E k \in 1..(n - 1) : from[k] = i
        BY <1>2, <2>2, <3>1
      <3> HIDE DEF from
      <3>4. QED
        BY <3>1, <3>2, <3>3 DEF Stored
    <2>4. QED
      BY <1>1, <1>2, <1>3, <1>4, <2>2, <2>3
  <1>5. CASE job[w].step = "update"
    <2>1. PICK i \in RowsOf(hash) : rows' = Append(RemoveAt(rows, i), hash)
      <3>1. RowsOf(hash) # {}
        BY <1>1, <1>5 DEF TypeInv, RowsFound
      <3>2. (CHOOSE i \in RowsOf(hash) : TRUE) \in RowsOf(hash)
        BY <3>1
      <3>3. QED
        BY <1>1, <1>5, <3>2 DEF RowSaved
    <2>2. i \in 1..Len(rows)
      BY <1>2 DEF RowsOf
    <2>3. /\ RemoveAt(rows, i) \in Seq(Links) /\ Len(RemoveAt(rows, i)) = Len(rows) - 1
          /\ \A k \in 1..(Len(rows) - 1) :
                RemoveAt(rows, i)[k] = rows[IF k < i THEN k ELSE k + 1]
      BY <1>2, <2>2, RemoveAtFacts
    <2>4. /\ rows' \in Seq(Links) /\ Len(rows') = Len(rows) /\ rows'[Len(rows)] = hash
          /\ \A k \in 1..(Len(rows) - 1) : rows'[k] = rows[IF k < i THEN k ELSE k + 1]
      <3> DEFINE rest == RemoveAt(rows, i)
      <3>1. rest \in Seq(Links) /\ Len(rest) = Len(rows) - 1 /\ Len(rows) - 1 \in Nat
            /\ Len(rows) - 1 + 1 = Len(rows)
        BY <1>2, <2>2, <2>3
      <3>2. \A k \in 1..(Len(rows) - 1) : rest[k] = rows[IF k < i THEN k ELSE k + 1]
        BY <2>3
      <3> HIDE DEF rest
      <3>3. /\ Append(rest, hash) \in Seq(Links) /\ Len(Append(rest, hash)) = Len(rows)
            /\ Append(rest, hash)[Len(rows)] = hash
            /\ \A k \in 1..(Len(rows) - 1) : Append(rest, hash)[k] = rest[k]
        <4>1. rest \in Seq(Links) /\ hash \in Links
          BY <1>2, <3>1
        <4>2. /\ Append(rest, hash) \in Seq(Links) /\ Len(Append(rest, hash)) = Len(rest) + 1
              /\ Append(rest, hash)[Len(rest) + 1] = hash
              /\ \A k \in 1..Len(rest) : Append(rest, hash)[k] = rest[k]
          BY <4>1, AppendProperties
        <4>3. Len(rest) + 1 = Len(rows)
          BY <1>2, <3>1
        <4>4. QED
          BY <3>1, <4>2, <4>3
      <3>4. rows' = Append(rest, hash)
        BY <2>1 DEF rest
      <3>5. QED
        BY <3>2, <3>3, <3>4
    <2>5. Stored(hash, {i})
      <3> DEFINE n == Len(rows')
                 from == [k \in 1..(n - 1) |-> IF k < i THEN k ELSE k + 1]
      <3>1. n \in Nat \ {0} /\ n = Len(rows) /\ rows'[n] = hash
        BY <1>2, <2>2, <2>4
      <3>2. from \in [1..(n - 1) -> DOMAIN rows \ {i}]
        BY <1>2, <2>2, <3>1
      <3>3. \A k \in 1..(n - 1) : rows'[k] = rows[from[k]]
        BY <2>4, <3>1
      <3>4. \A k, l \in 1..(n - 1) : from[k] = from[l] => k = l
        BY <2>2, <3>1
      <3>5. ASSUME NEW r \in DOMAIN rows \ {i}
            PROVE  \E k \in 1..(n - 1) : from[k] = r
        <4>1. CASE r < i
          <5>1. r \in 1..(n - 1) /\ from[r] = r
            BY <1>2, <2>2, <3>1, <4>1
          <5>2. QED
            BY <5>1
        <4>2. CASE r > i
          <5>1. r - 1 \in 1..(n - 1) /\ from[r - 1] = r
            BY <1>2, <2>2, <3>1, <4>2
          <5>2. QED
            BY <5>1
        <4>3. QED
          BY <1>2, <2>2, <4>1, <4>2
      <3> HIDE DEF from
      <3>6. QED
        BY <3>1, <3>2, <3>3, <3>4, <3>5 DEF Stored
    <2>6. QED
      BY <1>1, <1>2, <1>3, <1>5, <2>4, <2>5
  <1>6. QED
    BY <1>1, <1>4, <1>5

-----------------------------------------------------------------------------
(* Deploys, time and deaths.                                                *)

LEMMA DeployFacts ==
  ASSUME TypeInv, NEW r \in Release, Deploy(r)
  PROVE  /\ DeploysOK' /\ UNCHANGED <<cache, job, shotVars>>
         /\ release' = r /\ since' = 0 /\ r # release
         /\ ~unsettled' => r > release /\ (\A w \in Proc : job[w] = None)
                           /\ ~(unsettled /\ since < Long)
  <1>1. /\ UNCHANGED <<cache, job, shotVars>> /\ release' = r /\ since' = 0 /\ r # release
        /\ deploys < MaxDeploys /\ deploys' = deploys + 1
        /\ events + 2 <= MaxEvents /\ events' = events + 2
        /\ unsettled' = (\/ r < release \/ \E w \in Proc : job[w] # None
                         \/ unsettled /\ since < Long)
    BY DEF Deploy
  <1>2. DeploysOK'
    <2>1. deploys' \in 0..MaxDeploys /\ events' \in 0..MaxEvents /\ since' \in 0..Long
      BY <1>1, Numbers DEF TypeInv, DeploysOK
    <2>2. unsettled' \in BOOLEAN
      BY <1>1
    <2>3. QED
      BY <1>1, <2>1, <2>2 DEF DeploysOK
  <1>3. r < release \/ r > release
    BY <1>1, Numbers DEF TypeInv, DeploysOK
  <1>4. ~unsettled' => r > release /\ (\A w \in Proc : job[w] = None)
                       /\ ~(unsettled /\ since < Long)
    BY <1>1, <1>3
  <1>5. QED
    BY <1>1, <1>2, <1>4

LEMMA TickFacts ==
  ASSUME TypeInv, Tick
  PROVE  /\ CacheOK' /\ DeploysOK' /\ (\A w \in Proc : job[w] = None)
         /\ UNCHANGED <<release, job, shotVars, unsettled>>
         /\ since' = IF since < Long THEN since + 1 ELSE since
         /\ DOMAIN cache' \subseteq DOMAIN cache
         /\ \A key \in DOMAIN cache' :
               cache'[key].value = cache[key].value /\ cache'[key].age = cache[key].age + 1
  <1> DEFINE keys == {k \in DOMAIN cache : cache[k].age + 1 < CacheTimeout}
  <1>1. /\ \A w \in Proc : job[w] = None
        /\ cache' = [k \in keys |-> [cache[k] EXCEPT !.age = @ + 1]]
        /\ since' = IF since < Long THEN since + 1 ELSE since
        /\ UNCHANGED <<release, job, shotVars, unsettled, deploys, events>>
    BY DEF Tick
  <1>2. ASSUME NEW k \in keys
        PROVE  /\ k \in DOMAIN cache /\ cache[k].age + 1 \in 0..(CacheTimeout - 1)
               /\ cache'[k] = [value |-> cache[k].value, age |-> cache[k].age + 1]
               /\ Holds(k, cache[k].value)
    <2>1. /\ k \in DOMAIN cache /\ cache[k].age + 1 < CacheTimeout
          /\ cache[k].age \in 0..(CacheTimeout - 1) /\ Holds(k, cache[k].value)
          /\ cache[k] = [value |-> cache[k].value, age |-> cache[k].age]
      BY DEF TypeInv, CacheOK, Value
    <2>2. cache'[k] = [cache[k] EXCEPT !.age = @ + 1]
      BY <1>1
    <2>3. cache'[k] = [value |-> cache[k].value, age |-> cache[k].age + 1]
      BY <2>1, <2>2
    <2>4. QED
      BY <2>1, <2>3, Numbers
  <1>3. DOMAIN cache' = keys /\ cache' = [k \in DOMAIN cache' |-> cache'[k]]
    BY <1>1
  <1> HIDE DEF keys
  <1>4. CacheOK'
    BY <1>2, <1>3 DEF CacheOK, Value
  <1>5. since' \in 0..Long
    BY <1>1, Numbers DEF TypeInv, DeploysOK
  <1>6. DeploysOK'
    BY <1>1, <1>5 DEF TypeInv, DeploysOK
  <1>7. QED
    BY <1>1, <1>2, <1>3, <1>4, <1>6

LEMMA DieFacts ==
  ASSUME TypeInv, NEW w \in Proc, Die(w)
  PROVE  /\ JobsOK' /\ Moved(w, None) /\ job[w] # None /\ job[w].got \in Links
         /\ UNCHANGED <<cache, rows, files, deployVars>> /\ events' \in 0..MaxEvents
         /\ torn' = IF job[w].step = "update" THEN torn \cup {job[w].got} ELSE torn
  <1>1. /\ job[w] # None /\ events < MaxEvents /\ events' = events + 1 /\ Become(w, None)
        /\ UNCHANGED <<cache, rows, files, deployVars>>
        /\ torn' = IF job[w].step = "update" THEN torn \cup {job[w].got} ELSE torn
    BY DEF Die, Event
  <1>2. JobsOK' /\ Moved(w, None)
    BY <1>1, BecomeFacts DEF TypeInv
  <1>3. job[w].got \in Links
    BY <1>1, Worker, JobFacts DEF TypeInv
  <1>4. events' \in 0..MaxEvents
    BY <1>1, Numbers DEF TypeInv, DeploysOK
  <1>5. QED
    BY <1>1, <1>2, <1>3, <1>4

-----------------------------------------------------------------------------
(* Steps of a process that store no picture.                                *)

Storing(j) == j # None /\ j.step \in {"create", "update"}

Aside(w) ==
  /\ Moved(w, job'[w]) /\ ~Storing(job[w]) /\ ~Storing(job'[w]) /\ UNCHANGED shotVars

Builds(w) ==
  \/ Skip(w) \/ UseCached(w) \/ ReadPost(w) \/ CacheLinks(w) \/ CacheMeta(w) \/ Finish(w)

Starts(w) ==
  \/ KnowledgeGraphApi(w) \/ RebuildTask(w) \/ RebuildCommand(w) \/ TakeScreenshot(w)

LEMMA BuildSteps ==
  ASSUME TypeInv, NEW w \in Proc, Builds(w)
  PROVE  JobsOK' /\ CacheOK' /\ UNCHANGED <<deployVars, events>> /\ Aside(w)
  <1>1. (cache' = cache) => CacheOK'
    BY DEF TypeInv, CacheOK, Value
  <1>2. CASE Skip(w)
    BY <1>1, <1>2, SkipFacts DEF Aside, Storing
  <1>3. CASE UseCached(w)
    <2>1. job[w].step = "next"
      BY <1>3 DEF UseCached
    <2>2. QED
      BY <1>1, <1>3, <2>1, UseCachedFacts DEF Aside, Storing, Takes
  <1>4. CASE ReadPost(w)
    <2>1. Moved(w, job'[w]) /\ job'[w].step \in {"read", "next"}
      BY <1>4, ReadPostFacts DEF Takes, Goes
    <2>2. QED
      BY <1>1, <1>4, <2>1, ReadPostFacts DEF Aside, Storing
  <1>5. CASE CacheLinks(w)
    BY <1>5, CacheLinksFacts DEF Aside, Storing, Goes
  <1>6. CASE CacheMeta(w)
    BY <1>6, CacheMetaFacts DEF Aside, Storing, Takes
  <1>7. CASE Finish(w)
    <2>1. Moved(w, job'[w]) /\ ~Storing(job'[w])
      BY <1>7, FinishFacts DEF Storing, Goes, Moved
    <2>2. QED
      BY <1>7, <2>1, FinishFacts DEF Aside, Storing
  <1>8. QED
    BY <1>2, <1>3, <1>4, <1>5, <1>6, <1>7 DEF Builds

LEMMA StartSteps ==
  ASSUME TypeInv, NEW w \in Proc, Starts(w)
  PROVE  /\ JobsOK' /\ CacheOK' /\ UNCHANGED deployVars /\ events' \in 0..MaxEvents /\ Aside(w)
         /\ job[w] = None /\ job'[w] # None /\ job'[w].release = release
         /\ (job'[w].step = "next" /\ DOMAIN job'[w].got = {}) \/ job'[w].step = "hash"
         /\ DOMAIN cache' \subseteq DOMAIN cache
         /\ \A key \in DOMAIN cache' : cache'[key] = cache[key]
  <1>1. (cache' = cache) => CacheOK'
    BY DEF TypeInv, CacheOK, Value
  <1>2. events \in 0..MaxEvents
    BY DEF TypeInv, DeploysOK
  <1>3. CASE \E force \in BOOLEAN : BuildCompleteGraph(w, force)
    BY <1>1, <1>2, <1>3, BuildFacts DEF Aside, Storing, Begins
  <1>4. CASE \E ask \in Asked : GetPostConnections(w, ask[1], ask[2])
    BY <1>1, <1>2, <1>4, ConnectionsFacts DEF Aside, Storing, Begins
  <1>5. CASE RebuildCommand(w)
    BY <1>2, <1>5, CommandFacts DEF Aside, Storing, Begins
  <1>6. CASE TakeScreenshot(w)
    BY <1>1, <1>6, TakeFacts DEF Aside, Storing, Begins
  <1>7. QED
    BY <1>3, <1>4, <1>5, <1>6 DEF Starts, KnowledgeGraphApi, RebuildTask

LEMMA AsideRows ==
  ASSUME TypeInv, NEW w \in Proc, Aside(w)
  PROVE  RowsFound' /\ ShotsOK'
  <1>1. UNCHANGED shotVars
    BY DEF Aside
  <1>2. ShotsOK'
    BY <1>1 DEF TypeInv, ShotsOK, shotVars
  <1>3. ASSUME NEW v \in Proc, job'[v] # None, job'[v].step = "update"
        PROVE  RowsOf(job[v].got)' # {}
    <2>1. v # w
      BY <1>3 DEF Aside, Storing
    <2>2. job'[v] = job[v]
      BY <2>1 DEF Aside, Moved
    <2>3. RowsOf(job[v].got) # {}
      BY <1>3, <2>2 DEF TypeInv, RowsFound
    <2>4. QED
      BY <1>1, <2>2, <2>3 DEF RowsOf, shotVars
  <1>4. QED
    BY <1>2, <1>3 DEF RowsFound

-----------------------------------------------------------------------------
(* Type correctness.                                                        *)

LEMMA LookUpType ==
  ASSUME TypeInv, NEW w \in Proc, LookUpPicture(w)
  PROVE  TypeInv'
  <1> DEFINE hash == job[w].got
  <1>1. /\ JobsOK' /\ job[w] # None /\ job[w].step = "hash" /\ hash \in Links
        /\ UNCHANGED <<cache, rows, deployVars, events>>
        /\ torn' = IF Contended(w, hash) THEN torn \cup {hash} ELSE torn
        /\ \/ Goes(w, "create") /\ RowsOf(hash) = {} /\ files' = files
           \/ Goes(w, "update") /\ RowsOf(hash) # {} /\ files' = files \ {hash}
           \/ Moved(w, None) /\ files' = files
    BY LookUpFacts
  <1> HIDE DEF hash
  <1>2. ShotsOK'
    <2>1. files' \subseteq Links /\ torn' \subseteq Links
      BY <1>1 DEF TypeInv, ShotsOK
    <2>2. QED
      BY <1>1, <2>1 DEF TypeInv, ShotsOK
  <1>3. CacheOK' /\ DeploysOK'
    BY <1>1 DEF TypeInv, CacheOK, DeploysOK, deployVars, Value
  <1>4. RowsFound'
    <2> SUFFICES ASSUME NEW v \in Proc, job'[v] # None, job'[v].step = "update"
                 PROVE  RowsOf(job[v].got)' # {}
      BY DEF RowsFound
    <2>1. RowsOf(job[v].got)' = {i \in DOMAIN rows : rows[i] = job'[v].got}
      BY <1>1 DEF RowsOf
    <2>2. CASE v = w
      <3>1. job'[v].got = hash /\ RowsOf(hash) # {}
        BY <1>1, <2>2 DEF Goes, Moved, hash
      <3>2. QED
        BY <2>1, <3>1 DEF RowsOf
    <2>3. CASE v # w
      <3>1. job'[v] = job[v]
        BY <1>1, <2>3 DEF Goes, Moved
      <3>2. QED
        BY <2>1, <3>1 DEF TypeInv, RowsFound, RowsOf
    <2>4. QED
      BY <2>2, <2>3
  <1>5. QED
    BY <1>1, <1>2, <1>3, <1>4 DEF TypeInv

LEMMA SaveType ==
  ASSUME TypeInv, NEW w \in Proc, SaveImage(w)
  PROVE  TypeInv'
  <1> DEFINE hash == job[w].got
  <1>1. /\ JobsOK' /\ Moved(w, None) /\ job[w] # None /\ hash \in Links
        /\ rows' \in Seq(Links) /\ files' = files \cup {hash}
        /\ UNCHANGED <<cache, torn, deployVars, events>>
    BY SaveFacts
  <1>2. PICK lost \in {{}} \cup {{i} : i \in RowsOf(hash)} : Stored(hash, lost)
    BY SaveFacts
  <1>3. lost \subseteq RowsOf(hash)
    BY <1>2
  <1>4. ShotsOK'
    BY <1>1 DEF TypeInv, ShotsOK
  <1>5. CacheOK' /\ DeploysOK'
    BY <1>1 DEF TypeInv, CacheOK, DeploysOK, deployVars, Value
  <1> HIDE DEF hash
  <1>6. RowsFound'
    <2> SUFFICES ASSUME NEW v \in Proc, job'[v] # None, job'[v].step = "update"
                 PROVE  RowsOf(job[v].got)' # {}
      BY DEF RowsFound
    <2> DEFINE n == Len(rows')
    <2>1. v # w /\ job'[v] = job[v]
      BY <1>1 DEF Moved
    <2>2. n \in Nat \ {0} /\ n \in DOMAIN rows' /\ DOMAIN rows' = 1..n /\ rows'[n] = hash
      BY <1>1, <1>2 DEF Stored
    <2>3. RowsOf(job[v].got)' = {i \in DOMAIN rows' : rows'[i] = job'[v].got}
      BY DEF RowsOf
    <2>4. CASE job[v].got = hash
      BY <2>1, <2>2, <2>3, <2>4
    <2>5. CASE job[v].got # hash
      <3>1. PICK i \in RowsOf(job[v].got) : TRUE
        BY <2>1 DEF TypeInv, RowsFound
      <3>2. i \in DOMAIN rows \ lost /\ rows[i] = job[v].got
        BY <1>3, <2>5, <3>1 DEF RowsOf
      <3>3. PICK k \in 1..(n - 1) : rows'[k] = rows[i]
        BY <1>2, <3>2 DEF Stored
      <3>4. k \in DOMAIN rows'
        BY <2>2
      <3>5. QED
        BY <2>1, <2>3, <3>2, <3>3, <3>4
    <2>6. QED
      BY <2>4, <2>5
  <1>7. QED
    BY <1>1, <1>4, <1>5, <1>6 DEF TypeInv

LEMMA DieType ==
  ASSUME TypeInv, NEW w \in Proc, Die(w)
  PROVE  TypeInv'
  <1>1. /\ JobsOK' /\ Moved(w, None) /\ job[w] # None /\ job[w].got \in Links
        /\ UNCHANGED <<cache, rows, files, deployVars>> /\ events' \in 0..MaxEvents
        /\ torn' = IF job[w].step = "update" THEN torn \cup {job[w].got} ELSE torn
    BY DieFacts
  <1>2. ShotsOK'
    BY <1>1 DEF TypeInv, ShotsOK
  <1>3. CacheOK' /\ DeploysOK'
    BY <1>1 DEF TypeInv, CacheOK, DeploysOK, deployVars, Value
  <1>4. RowsFound'
    <2>1. \A v \in Proc : job'[v] # None => job'[v] = job[v]
      BY <1>1 DEF Moved
    <2>2. QED
      BY <1>1, <2>1 DEF TypeInv, RowsFound, RowsOf
  <1>5. QED
    BY <1>1, <1>2, <1>3, <1>4 DEF TypeInv

LEMMA NextType == TypeInv /\ [GraphNext]_graphVars => TypeInv'
  <1> SUFFICES ASSUME TypeInv, [GraphNext]_graphVars
               PROVE  TypeInv'
    OBVIOUS
  <1>1. ASSUME NEW w \in Proc, Builds(w)
        PROVE  TypeInv'
    <2>1. JobsOK' /\ CacheOK' /\ UNCHANGED <<deployVars, events>> /\ RowsFound' /\ ShotsOK'
      BY <1>1, BuildSteps, AsideRows
    <2>2. QED
      BY <2>1 DEF TypeInv, DeploysOK, deployVars
  <1>2. ASSUME NEW w \in Proc, Starts(w)
        PROVE  TypeInv'
    <2>1. JobsOK' /\ CacheOK' /\ UNCHANGED deployVars /\ events' \in 0..MaxEvents
          /\ RowsFound' /\ ShotsOK'
      BY <1>2, StartSteps, AsideRows
    <2>2. QED
      BY <2>1 DEF TypeInv, DeploysOK, deployVars
  <1>3. ASSUME NEW w \in Proc, LookUpPicture(w) \/ SaveImage(w) \/ Die(w)
        PROVE  TypeInv'
    BY <1>3, LookUpType, SaveType, DieType
  <1>4. ASSUME NEW r \in Release, Deploy(r)
        PROVE  TypeInv'
    <2>1. DeploysOK' /\ UNCHANGED <<cache, job, shotVars>>
      BY <1>4, DeployFacts
    <2>2. QED
      BY <2>1 DEF TypeInv, CacheOK, JobsOK, ShotsOK, RowsFound, RowsOf, Value, shotVars
  <1>5. CASE Tick
    <2>1. CacheOK' /\ DeploysOK' /\ UNCHANGED <<job, shotVars>>
      BY <1>5, TickFacts
    <2>2. QED
      BY <2>1 DEF TypeInv, JobsOK, ShotsOK, RowsFound, RowsOf, shotVars
  <1>6. CASE UNCHANGED graphVars
    BY <1>6 DEF TypeInv, CacheOK, JobsOK, ShotsOK, DeploysOK, RowsFound, RowsOf, Value,
                graphVars, shotVars, deployVars
  <1>7. QED
    BY <1>1, <1>2, <1>3, <1>4, <1>5, <1>6 DEF GraphNext, ScreenshotTask, Builds, Starts

LEMMA InitType == GraphInit => TypeInv
  <1> SUFFICES ASSUME GraphInit
               PROVE  TypeInv
    OBVIOUS
  <1>1. CacheOK
    <2>1. cache = <<>> /\ DOMAIN cache = {}
      BY NoLinks DEF GraphInit
    <2>2. cache = [key \in DOMAIN cache |-> cache[key]]
      BY <2>1
    <2>3. QED
      BY <2>1, <2>2 DEF CacheOK
  <1>2. JobsOK /\ RowsFound
    BY DEF GraphInit, JobsOK, RowsFound
  <1>3. ShotsOK
    BY DEF GraphInit, ShotsOK
  <1>4. DeploysOK
    <2>1. Long \in 0..Long /\ 0 \in 0..MaxDeploys /\ 0 \in 0..MaxEvents
      BY Numbers
    <2>2. QED
      BY <2>1 DEF GraphInit, DeploysOK
  <1>5. QED
    BY <1>1, <1>2, <1>3, <1>4 DEF TypeInv

LEMMA TypeInvHolds == GraphSpec => []TypeInv
  <1>1. TypeInv => TypeInv
    OBVIOUS
  <1>2. QED
    BY InitType, NextType, PTL DEF GraphSpec

\* Every variable has its type, and nothing is cached longer than the timeout.
THEOREM GraphTypeCorrect == GraphSpec => []GraphTypeOK
  <1>1. TypeInv => GraphTypeOK
    BY TypeParts DEF TypeInv, JobsOK
  <1>2. QED
    BY TypeInvHolds, <1>1, PTL

-----------------------------------------------------------------------------
(* The picture of the latest row.                                           *)

Updating(hash) == \E w \in Proc : job[w] # None /\ job[w].step = "update" /\ job[w].got = hash

OneRowEach == \A i, j \in DOMAIN rows : rows[i] = rows[j] => i = j \/ rows[i] \in torn

EachHasPicture ==
  \A i \in DOMAIN rows : rows[i] \in files \/ rows[i] \in torn \/ Updating(rows[i])

OneStores ==
  \A v, w \in Proc :
     v # w /\ Storing(job[v]) /\ Storing(job[w]) /\ job[v].got = job[w].got => job[v].got \in torn

NoRowToCreate ==
  \A w \in Proc :
     Storing(job[w]) /\ job[w].step = "create" /\ job[w].got \notin torn => RowsOf(job[w].got) = {}

\* Inductive: of a hash that is not torn there is one row and one process that
\* stores its picture, which creates the row only when there is none.
ShotInv == OneRowEach /\ EachHasPicture /\ OneStores /\ NoRowToCreate

LEMMA AsideShots ==
  ASSUME TypeInv, ShotInv, NEW w \in Proc, Aside(w)
  PROVE  ShotInv'
  <1>1. UNCHANGED <<rows, files, torn>> /\ \A v \in Proc : Storing(job'[v]) => job'[v] = job[v]
    BY DEF Aside, Moved, shotVars
  <1>2. \A v \in Proc : Storing(job[v]) => job'[v] = job[v]
    BY DEF Aside, Moved
  <1>3. OneRowEach'
    BY <1>1 DEF ShotInv, OneRowEach
  <1>4. EachHasPicture'
    BY <1>1, <1>2 DEF ShotInv, EachHasPicture, Updating, Storing
  <1>5. OneStores'
    <2>1. \A v \in Proc : Storing(job[v])' <=> Storing(job'[v])
      BY DEF Storing
    <2>2. QED
      BY <1>1, <2>1 DEF ShotInv, OneStores
  <1>6. NoRowToCreate'
    BY <1>1 DEF ShotInv, NoRowToCreate, RowsOf, Storing
  <1>7. QED
    BY <1>3, <1>4, <1>5, <1>6 DEF ShotInv

LEMMA LookUpShots ==
  ASSUME TypeInv, ShotInv, NEW w \in Proc, LookUpPicture(w)
  PROVE  ShotInv'
  <1> DEFINE hash == job[w].got
  <1>1. /\ JobsOK' /\ job[w] # None /\ job[w].step = "hash" /\ hash \in Links
        /\ UNCHANGED rows
        /\ torn' = IF Contended(w, hash) THEN torn \cup {hash} ELSE torn
        /\ \/ Goes(w, "create") /\ RowsOf(hash) = {} /\ files' = files
           \/ Goes(w, "update") /\ RowsOf(hash) # {} /\ files' = files \ {hash}
           \/ Moved(w, None) /\ files' = files
    BY LookUpFacts
  <1>2. \A v \in Proc \ {w} : job'[v] = job[v]
    BY <1>1 DEF Goes, Moved
  <1>3. Storing(job'[w]) => job'[w].got = hash
    BY <1>1 DEF Goes, Moved, Storing
  <1>4. torn \subseteq torn'
    BY <1>1
  <1>5. OneRowEach'
    BY <1>1, <1>4 DEF ShotInv, OneRowEach
  <1>6. EachHasPicture'
    <2> SUFFICES ASSUME NEW i \in DOMAIN rows
                 PROVE  rows[i] \in files' \/ rows[i] \in torn' \/ Updating(rows[i])'
      BY <1>1 DEF EachHasPicture, Updating
    <2>1. CASE rows[i] \in files /\ rows[i] \notin files'
      <3>1. Goes(w, "update") /\ rows[i] = hash
        BY <1>1, <2>1
      <3>2. job'[w] # None /\ job'[w].step = "update" /\ job'[w].got = hash
        BY <3>1 DEF Goes, hash
      <3>3. QED
        BY <1>1, <3>1, <3>2 DEF Updating
    <2>2. CASE rows[i] \in torn
      BY <1>4, <2>2
    <2>3. CASE Updating(rows[i])
      <3>1. PICK v \in Proc : job[v] # None /\ job[v].step = "update" /\ job[v].got = rows[i]
        BY <2>3 DEF Updating
      <3>2. v # w
        BY <1>1, <3>1
      <3>3. QED
        BY <1>1, <1>2, <3>1, <3>2 DEF Updating
    <2>4. QED
      BY <2>1, <2>2, <2>3 DEF ShotInv, EachHasPicture
  <1>7. \A u \in Proc \ {w} : Storing(job[u]) /\ job[u].got = hash => hash \in torn'
    BY <1>1 DEF Contended, Storing
  <1>8. OneStores'
    <2> SUFFICES ASSUME NEW v \in Proc, NEW u \in Proc, v # u, Storing(job'[v]),
                        Storing(job'[u]), job'[v].got = job'[u].got
                 PROVE  job'[v].got \in torn'
      BY DEF OneStores, Storing
    <2>1. CASE v # w /\ u # w
      BY <1>2, <1>4, <2>1 DEF ShotInv, OneStores
    <2>2. CASE v = w
      BY <1>2, <1>3, <1>7, <2>2
    <2>3. CASE u = w
      BY <1>2, <1>3, <1>7, <2>3
    <2>4. QED
      BY <2>1, <2>2, <2>3
  <1>9. NoRowToCreate'
    <2> SUFFICES ASSUME NEW v \in Proc, Storing(job'[v]), job'[v].step = "create",
                        job'[v].got \notin torn'
                 PROVE  {i \in DOMAIN rows : rows[i] = job'[v].got} = {}
      BY <1>1 DEF NoRowToCreate, Storing, RowsOf
    <2>1. CASE v = w
      <3>1. Goes(w, "create") /\ RowsOf(hash) = {}
        BY <1>1, <2>1 DEF Goes, Moved, Storing
      <3>2. QED
        BY <1>3, <2>1, <3>1 DEF RowsOf
    <2>2. CASE v # w
      <3>1. job'[v] = job[v] /\ job[v].got \notin torn
        BY <1>2, <1>4, <2>2
      <3>2. QED
        BY <3>1 DEF ShotInv, NoRowToCreate, RowsOf
    <2>3. QED
      BY <2>1, <2>2
  <1>10. QED
    BY <1>5, <1>6, <1>8, <1>9 DEF ShotInv

LEMMA SaveShots ==
  ASSUME TypeInv, ShotInv, NEW w \in Proc, SaveImage(w)
  PROVE  ShotInv'
  <1> DEFINE hash == job[w].got
             n == Len(rows')
  <1>1. /\ Moved(w, None) /\ job[w] # None /\ hash \in Links
        /\ rows' \in Seq(Links) /\ files' = files \cup {hash} /\ torn' = torn
    BY SaveFacts
  <1>2. PICK lost \in SUBSET RowsOf(hash) :
           /\ Stored(hash, lost)
           /\ \/ /\ job[w].step = "create" /\ lost = {}
              \/ /\ job[w].step = "update" /\ \E i \in RowsOf(hash) : lost = {i}
    <2>1. CASE job[w].step = "create" /\ Stored(hash, {})
      BY <2>1
    <2>2. CASE job[w].step = "update" /\ \E i \in RowsOf(hash) : Stored(hash, {i})
      <3>1. PICK i \in RowsOf(hash) : Stored(hash, {i})
        BY <2>2
      <3>2. {i} \in SUBSET RowsOf(hash)
        BY <3>1
      <3>3. QED
        BY <2>2, <3>1, <3>2
    <2>3. QED
      BY <2>1, <2>2, SaveFacts
  <1>3. Storing(job[w])
    BY <1>1, <1>2 DEF Storing
  <1>4. PICK from \in [1..(n - 1) -> DOMAIN rows \ lost] :
           /\ \A k \in 1..(n - 1) : rows'[k] = rows[from[k]]
           /\ \A k, l \in 1..(n - 1) : from[k] = from[l] => k = l
    BY <1>2 DEF Stored
  <1>5. n \in Nat \ {0} /\ rows'[n] = hash /\ DOMAIN rows' = 1..n
        /\ \A k \in 1..n : k = n \/ k \in 1..(n - 1)
    BY <1>1, <1>2 DEF Stored
  <1>6. ~Storing(job'[w]) /\ \A v \in Proc \ {w} : job'[v] = job[v]
    BY <1>1 DEF Moved, Storing
  \* Other rows of the hash are torn.
  <1>7. ASSUME NEW i \in DOMAIN rows \ lost, rows[i] = hash
        PROVE  hash \in torn
    <2>1. CASE job[w].step = "create"
      BY <1>3, <1>7, <2>1 DEF ShotInv, NoRowToCreate, RowsOf
    <2>2. CASE \E j \in RowsOf(hash) : lost = {j}
      <3>1. PICK j \in RowsOf(hash) : lost = {j}
        BY <2>2
      <3>2. j \in DOMAIN rows /\ rows[j] = rows[i] /\ i # j
        BY <1>7, <3>1 DEF RowsOf
      <3>3. QED
        BY <1>7, <3>2 DEF ShotInv, OneRowEach
    <2>3. QED
      BY <1>2, <2>1, <2>2
  <1> HIDE DEF hash, n
  <1>8. OneRowEach'
    <2> SUFFICES ASSUME NEW k \in 1..n, NEW l \in 1..n, rows'[k] = rows'[l], k # l
                 PROVE  rows'[k] \in torn
      BY <1>1, <1>5 DEF OneRowEach
    <2>1. CASE k \in 1..(n - 1) /\ l \in 1..(n - 1)
      <3>1. from[k] \in DOMAIN rows /\ from[l] \in DOMAIN rows /\ from[k] # from[l]
            /\ rows[from[k]] = rows[from[l]] /\ rows'[k] = rows[from[k]]
        BY <1>4, <2>1
      <3>2. QED
        BY <3>1 DEF ShotInv, OneRowEach
    <2>2. CASE k = n /\ l \in 1..(n - 1)
      <3>1. from[l] \in DOMAIN rows \ lost /\ rows[from[l]] = hash /\ rows'[k] = hash
        BY <1>4, <1>5, <2>2
      <3>2. QED
        BY <1>7, <3>1
    <2>3. CASE l = n /\ k \in 1..(n - 1)
      <3>1. from[k] \in DOMAIN rows \ lost /\ rows[from[k]] = hash /\ rows'[k] = hash
        BY <1>4, <1>5, <2>3
      <3>2. QED
        BY <1>7, <3>1
    <2>4. QED
      BY <1>5, <2>1, <2>2, <2>3
  <1>9. EachHasPicture'
    <2> SUFFICES ASSUME NEW k \in 1..n
                 PROVE  rows'[k] \in files' \/ rows'[k] \in torn' \/ Updating(rows[k])'
      BY <1>5 DEF EachHasPicture, Updating
    <2>1. CASE rows'[k] = hash
      BY <1>1, <2>1
    <2>2. CASE rows'[k] # hash
      <3>1. k \in 1..(n - 1)
        BY <1>5, <2>2
      <3>2. from[k] \in DOMAIN rows /\ rows'[k] = rows[from[k]]
        BY <1>4, <3>1
      <3>3. rows'[k] \in files \/ rows'[k] \in torn \/ Updating(rows[from[k]])
        BY <3>2 DEF ShotInv, EachHasPicture
      <3>4. CASE Updating(rows[from[k]])
        <4>1. PICK v \in Proc : job[v] # None /\ job[v].step = "update" /\ job[v].got = rows'[k]
          BY <3>2, <3>4 DEF Updating
        <4>2. v # w
          BY <2>2, <4>1 DEF hash
        <4>3. QED
          BY <1>6, <4>1, <4>2 DEF Updating
      <3>5. QED
        BY <1>1, <3>3, <3>4
    <2>3. QED
      BY <2>1, <2>2
  <1>10. OneStores'
    <2> SUFFICES ASSUME NEW v \in Proc, NEW u \in Proc, v # u, Storing(job'[v]),
                        Storing(job'[u]), job'[v].got = job'[u].got
                 PROVE  job'[v].got \in torn
      BY <1>1 DEF OneStores, Storing
    <2>1. v # w /\ u # w
      BY <1>6
    <2>2. QED
      BY <1>6, <2>1 DEF ShotInv, OneStores
  <1>11. NoRowToCreate'
    <2> SUFFICES ASSUME NEW v \in Proc, Storing(job'[v]), job'[v].step = "create",
                        job'[v].got \notin torn, NEW k \in 1..n, rows'[k] = job'[v].got
                 PROVE  FALSE
      BY <1>1, <1>5 DEF NoRowToCreate, Storing, RowsOf
    <2>1. v # w /\ job'[v] = job[v]
      BY <1>6
    <2>2. job[v].got # hash
      BY <1>3, <2>1 DEF ShotInv, OneStores, hash
    <2>3. k \in 1..(n - 1)
      BY <1>5, <2>1, <2>2
    <2>4. from[k] \in DOMAIN rows /\ rows[from[k]] = job[v].got
      BY <1>4, <2>1, <2>3
    <2>5. RowsOf(job[v].got) = {}
      BY <2>1 DEF ShotInv, NoRowToCreate
    <2>6. QED
      BY <2>4, <2>5 DEF RowsOf
  <1>12. QED
    BY <1>8, <1>9, <1>10, <1>11 DEF ShotInv

LEMMA DieShots ==
  ASSUME TypeInv, ShotInv, NEW w \in Proc, Die(w)
  PROVE  ShotInv'
  <1>1. /\ Moved(w, None) /\ job[w] # None /\ UNCHANGED <<rows, files>>
        /\ torn' = IF job[w].step = "update" THEN torn \cup {job[w].got} ELSE torn
    BY DieFacts
  <1>2. /\ torn \subseteq torn' /\ ~Storing(job'[w]) /\ job'[w] = None
        /\ \A v \in Proc \ {w} : job'[v] = job[v]
    BY <1>1 DEF Moved, Storing
  <1>3. OneRowEach'
    BY <1>1, <1>2 DEF ShotInv, OneRowEach
  <1>4. EachHasPicture'
    <2> SUFFICES ASSUME NEW i \in DOMAIN rows, Updating(rows[i])
                 PROVE  rows[i] \in torn' \/ Updating(rows[i])'
      BY <1>1, <1>2 DEF ShotInv, EachHasPicture
    <2>1. PICK v \in Proc : job[v] # None /\ job[v].step = "update" /\ job[v].got = rows[i]
      BY DEF Updating
    <2>2. CASE v = w
      BY <1>1, <2>1, <2>2
    <2>3. CASE v # w
      BY <1>1, <1>2, <2>1, <2>3 DEF Updating
    <2>4. QED
      BY <2>2, <2>3
  <1>5. OneStores'
    <2> SUFFICES ASSUME NEW v \in Proc, NEW u \in Proc, v # u, Storing(job'[v]),
                        Storing(job'[u]), job'[v].got = job'[u].got
                 PROVE  job'[v].got \in torn'
      BY DEF OneStores, Storing
    <2>1. v # w /\ u # w
      BY <1>2
    <2>2. QED
      BY <1>2, <2>1 DEF ShotInv, OneStores
  <1>6. NoRowToCreate'
    BY <1>1, <1>2 DEF ShotInv, NoRowToCreate, RowsOf, Storing
  <1>7. QED
    BY <1>3, <1>4, <1>5, <1>6 DEF ShotInv

LEMMA NextShots == TypeInv /\ ShotInv /\ [GraphNext]_graphVars => ShotInv'
  <1> SUFFICES ASSUME TypeInv, ShotInv, [GraphNext]_graphVars
               PROVE  ShotInv'
    OBVIOUS
  <1>1. ASSUME NEW w \in Proc, Builds(w) \/ Starts(w)
        PROVE  ShotInv'
    BY <1>1, BuildSteps, StartSteps, AsideShots
  <1>2. ASSUME NEW w \in Proc, LookUpPicture(w) \/ SaveImage(w) \/ Die(w)
        PROVE  ShotInv'
    BY <1>2, LookUpShots, SaveShots, DieShots
  <1>3. ASSUME UNCHANGED <<job, shotVars>>
        PROVE  ShotInv'
    BY <1>3 DEF ShotInv, OneRowEach, EachHasPicture, OneStores, NoRowToCreate, Updating,
                Storing, RowsOf, shotVars
  <1>4. ASSUME NEW r \in Release, Deploy(r)
        PROVE  ShotInv'
    BY <1>3, <1>4, DeployFacts
  <1>5. CASE Tick
    BY <1>3, <1>5, TickFacts
  <1>6. CASE UNCHANGED graphVars
    BY <1>3, <1>6 DEF graphVars
  <1>7. QED
    BY <1>1, <1>2, <1>4, <1>5, <1>6 DEF GraphNext, ScreenshotTask, Builds, Starts

\* The row shown has its picture, unless one is being replaced, was cut short or
\* was replaced twice at once; only two at once make two rows of one hash.
THEOREM PictureIsServed == GraphSpec => []LatestPictureIsServed
  <1>1. GraphInit => ShotInv
    <2> SUFFICES ASSUME GraphInit
                 PROVE  ShotInv
      OBVIOUS
    <2>1. DOMAIN rows = {} /\ \A w \in Proc : ~Storing(job[w])
      BY NoLinks DEF GraphInit, Storing
    <2>2. QED
      BY <2>1 DEF ShotInv, OneRowEach, EachHasPicture, OneStores, NoRowToCreate
  <1>2. TypeInv /\ ShotInv => LatestPictureIsServed
    <2> SUFFICES ASSUME TypeInv, ShotInv
                 PROVE  LatestPictureIsServed
      OBVIOUS
    <2>1. rows # <<>> => Last(rows) = rows[Len(rows)] /\ Len(rows) \in DOMAIN rows
      BY DEF TypeInv, ShotsOK, Last
    <2>2. rows # <<>> /\ Last(rows) \notin files => Last(rows) \in torn \/ Updating(Last(rows))
      BY <2>1 DEF ShotInv, EachHasPicture
    <2>3. QED
      BY <2>2 DEF LatestPictureIsServed, ScreenshotView, ShotInv, OneRowEach, Updating
  <1>3. QED
    BY <1>1, <1>2, NextShots, TypeInvHolds, PTL DEF GraphSpec

-----------------------------------------------------------------------------
(* What the caches hold after a deploy.                                     *)

\* What a post leads to by the release that runs.
Right(p) == IF p \in PostsOf(release) THEN Site[release][p] ELSE <<>>

\* No process of another release disturbs the caches, or what it left is gone.
Trusted == ~unsettled \/ since >= CacheTimeout

Following(j) == j.release = release \/ (since = 0 /\ unsettled)

Told(j) ==
  Trusted /\ Collecting(j) /\ Straight(j) => \A p \in DOMAIN j.got : j.got[p] = Right(p)

Sound(j) == j # None => Following(j) /\ Told(j)

JobsSound == \A w \in Proc : Sound(job[w])

LinksRight(p) == Cached(LinksKey(p)) => Value(LinksKey(p)) = Site[release][p]

MetaRight(p) ==
  Cached(MetaKey(p)) =>
     Value(MetaKey(p)) <= release /\ (Value(MetaKey(p)) = release => LinksRight(p))

NewestMetas == ~unsettled => \A p \in Post : MetaRight(p)

NewestLinks ==
  ~unsettled => \A w \in Proc : job[w] # None /\ job[w].step = "cached" => LinksRight(Current(w)[1])

\* What was entered after the deploy is of the release, once its tick is over.
EntriesFollow ==
  \A key \in DOMAIN cache : cache[key].age < since =>
     /\ key[1] = "links" => Value(key) = Site[release][key[2]]
     /\ key[1] = "meta" => Value(key) = release

GraphRight(key) ==
  /\ key[1] = "full" => Value(key).links = Graph(release)
  /\ key[1] = "post" /\ Value(key).id \notin DOMAIN Alias =>
       \A p \in DOMAIN Value(key).links : Value(key).links[p] = Right(p)

GraphsFollow ==
  \A key \in DOMAIN cache :
     cache[key].age + (IF unsettled THEN CacheTimeout ELSE 1) <= since => GraphRight(key)

\* Inductive: without a disturbance a time of the release stands for links of
\* the release at once, and with one after a period; a graph made then is right.
FreshInv == JobsSound /\ NewestLinks /\ NewestMetas /\ EntriesFollow /\ GraphsFollow

LEMMA TrustedFollow ==
  ASSUME TypeInv, Trusted, NEW j, Following(j)
  PROVE  j.release = release
  BY Numbers DEF TypeInv, DeploysOK, Trusted, Following

LEMMA SoundStep ==
  ASSUME JobsSound, NEW w \in Proc, \A v \in Proc \ {w} : job'[v] = job[v], Sound(job'[w]),
         UNCHANGED deployVars
  PROVE  JobsSound'
  <1>1. \A v \in Proc : Sound(job'[v])
    BY DEF JobsSound
  <1>2. ASSUME NEW v \in Proc
        PROVE  Sound(job[v])'
    BY <1>1 DEF Sound, Following, Told, Trusted, Right, deployVars
  <1>3. QED
    BY <1>2 DEF JobsSound

\* Caches that only lost entries, by hand or by age, keep what they say.
LEMMA CacheShrinks ==
  ASSUME TypeInv, NewestMetas, EntriesFollow, GraphsFollow, UNCHANGED deployVars,
         DOMAIN cache' \subseteq DOMAIN cache,
         \A key \in DOMAIN cache' : cache'[key] = cache[key]
  PROVE  /\ NewestMetas' /\ EntriesFollow' /\ GraphsFollow'
         /\ \A p : LinksRight(p) => LinksRight(p)'
  <1>1. UNCHANGED <<release, since, unsettled>>
    BY DEF deployVars
  <1>2. \A p : LinksRight(p) => LinksRight(p)'
    BY <1>1 DEF LinksRight, Cached, Value
  <1>3. NewestMetas'
    <2> SUFFICES ASSUME ~unsettled, NEW p \in Post, Cached(MetaKey(p))'
                 PROVE  /\ Value(MetaKey(p))' <= release
                        /\ Value(MetaKey(p))' = release => LinksRight(p)'
      BY <1>1 DEF NewestMetas, MetaRight
    <2>1. Cached(MetaKey(p)) /\ Value(MetaKey(p))' = Value(MetaKey(p))
      BY DEF Cached, Value
    <2>2. QED
      BY <1>2, <2>1 DEF NewestMetas, MetaRight
  <1>4. EntriesFollow'
    BY <1>1 DEF EntriesFollow, Value
  <1>5. GraphsFollow'
    BY <1>1 DEF GraphsFollow, GraphRight, Graph, Right, Value
  <1>6. QED
    BY <1>2, <1>3, <1>4, <1>5

LEMMA SoundTakes ==
  ASSUME TypeInv, JobsSound, NEW w \in Proc, NEW links, Takes(w, links), Collecting(job[w]),
         job[w].todo # <<>>, NEW name, name = Current(w)[1],
         Trusted => links = Right(name)
  PROVE  Sound(job'[w])
  <1> DEFINE old == job[w]
             new == job'[w]
  <1>1. /\ old # None /\ old \in Job /\ Shaped(old) /\ name \in Names(old.todo)
    BY Worker DEF TypeInv, Takes
  <1>2. Following(old) /\ Told(old)
    BY <1>1 DEF JobsSound, Sound
  <1>3. /\ Same(new, old) /\ DOMAIN new.got = DOMAIN old.got \cup {Normal(name)}
        /\ new.got[Normal(name)] = links
        /\ \A q \in DOMAIN old.got \ {Normal(name)} : new.got[q] = old.got[q]
    BY DEF Takes
  <1>4. Following(new)
    BY <1>2, <1>3 DEF Following, Same
  <1>5. ASSUME Trusted, Straight(new)
        PROVE  \A p \in DOMAIN new.got : new.got[p] = Right(p)
    <2>1. Straight(old)
      BY <1>3, <1>5 DEF Straight, Same
    <2>2. Normal(name) = name
      BY <1>1, <2>1, NameFacts DEF Shaped
    <2>3. \A p \in DOMAIN old.got : old.got[p] = Right(p)
      BY <1>2, <1>5, <2>1 DEF Told
    <2>4. QED
      BY <1>3, <1>5, <2>2, <2>3
  <1>6. QED
    BY <1>4, <1>5 DEF Sound, Told

\* A job that keeps its links, or collects no more, stays sound.
LEMMA SoundSame ==
  ASSUME JobsSound, NEW w \in Proc, job[w] # None, job'[w] # None, Same(job'[w], job[w]),
         \/ ~Collecting(job'[w])
         \/ Collecting(job[w]) /\ job'[w].got = job[w].got
  PROVE  Sound(job'[w])
  BY DEF JobsSound, Sound, Following, Told, Straight, Same

\* A cached time that lets cached links pass for fresh does so rightly.
LEMMA HitRight ==
  ASSUME TypeInv, FreshInv, NEW w \in Proc, job[w] # None, Trusted, NEW name \in Post,
         name \in PostsOf(job[w].release), Cached(LinksKey(name)), Cached(MetaKey(name)),
         ~(job[w].release > Value(MetaKey(name)))
  PROVE  Value(LinksKey(name)) = Right(name)
  <1>1. job[w].release = release
    BY TrustedFollow DEF FreshInv, JobsSound, Sound
  <1>2. Value(LinksKey(name)) = Site[release][name]
    <2>1. CASE ~unsettled
      <3>1. Value(MetaKey(name)) <= release
            /\ (Value(MetaKey(name)) = release => LinksRight(name))
        BY <2>1 DEF FreshInv, NewestMetas, MetaRight
      <3>2. Value(MetaKey(name)) \in Nat /\ release \in Nat
        <4>1. Value(MetaKey(name)) \in Release /\ release \in Release
          BY Held DEF TypeInv, CacheOK, DeploysOK, Cached
        <4>2. QED
          BY <4>1, Numbers
      <3>3. Value(MetaKey(name)) = release
        BY <1>1, <3>1, <3>2
      <3>4. QED
        BY <3>1, <3>3 DEF LinksRight
    <2>2. CASE since >= CacheTimeout
      <3>1. cache[LinksKey(name)].age < since
        <4>1. cache[LinksKey(name)].age \in 0..(CacheTimeout - 1) /\ since \in Nat
          BY Numbers DEF TypeInv, CacheOK, DeploysOK, Cached
        <4>2. QED
          BY <2>2, <4>1, Numbers
      <3>2. QED
        BY <3>1, KeyKinds DEF FreshInv, EntriesFollow, Cached
    <2>3. QED
      BY <2>1, <2>2 DEF Trusted
  <1>3. QED
    BY <1>1, <1>2 DEF Right

-----------------------------------------------------------------------------
(* Each step keeps the caches' promise.                                     *)

LEMMA SameCache ==
  ASSUME TypeInv, FreshInv, NEW w \in Proc, UNCHANGED <<cache, deployVars>>,
         \A v \in Proc \ {w} : job'[v] = job[v], Sound(job'[w]),
         job'[w] = None \/ job'[w].step # "cached"
  PROVE  FreshInv'
  <1>1. JobsSound'
    BY SoundStep DEF FreshInv
  <1>2. NewestMetas' /\ EntriesFollow' /\ GraphsFollow' /\ \A p : LinksRight(p) => LinksRight(p)'
    BY CacheShrinks DEF FreshInv
  <1>3. NewestLinks'
    <2> SUFFICES ASSUME ~unsettled, NEW v \in Proc, job'[v] # None, job'[v].step = "cached"
                 PROVE  LinksRight(Current(v)[1])'
      BY DEF NewestLinks, deployVars
    <2>1. v # w /\ job'[v] = job[v]
      OBVIOUS
    <2>2. PICK p : p = Current(v)[1]
      OBVIOUS
    <2>3. LinksRight(p)
      BY <2>1, <2>2 DEF FreshInv, NewestLinks
    <2>4. Current(v)[1]' = p
      BY <2>1, <2>2 DEF Current
    <2>5. QED
      BY <1>2, <2>3, <2>4 DEF LinksRight, Cached, Value, LinksKey
  <1>4. QED
    BY <1>1, <1>2, <1>3 DEF FreshInv

LEMMA SkipFresh ==
  ASSUME TypeInv, FreshInv, NEW w \in Proc, Skip(w)
  PROVE  FreshInv'
  <1>1. /\ Moved(w, job'[w]) /\ job[w] # None /\ job'[w] # None
        /\ Same(job'[w], job[w]) /\ job[w].step = "next" /\ job'[w].step = "next"
        /\ job'[w].got = job[w].got /\ UNCHANGED <<cache, deployVars>>
    BY SkipFacts
  <1>2. Sound(job'[w])
    BY <1>1, SoundSame DEF FreshInv, Collecting
  <1>3. QED
    BY <1>1, <1>2, SameCache DEF Moved

LEMMA UseCachedFresh ==
  ASSUME TypeInv, FreshInv, NEW w \in Proc, UseCached(w)
  PROVE  FreshInv'
  <1> DEFINE name == Current(w)[1]
  <1>1. /\ Takes(w, Value(LinksKey(name)))
        /\ name \in PostsOf(job[w].release) /\ Cached(LinksKey(name))
        /\ Cached(MetaKey(name)) /\ ~(job[w].release > Value(MetaKey(name)))
        /\ UNCHANGED <<cache, deployVars>>
    BY UseCachedFacts
  <1>2. job[w].step = "next" /\ job[w].todo # <<>>
    BY DEF UseCached, Building
  <1>3. job[w] # None /\ job'[w] # None /\ job'[w].step = "next" /\ Moved(w, job'[w])
    BY <1>1 DEF Takes
  <1>4. job[w].release \in Release
    BY <1>3, Worker, JobFacts DEF TypeInv
  <1>5. name \in Post
    BY <1>1, <1>4, SiteFacts
  <1>6. Trusted => Value(LinksKey(name)) = Right(name)
    BY <1>1, <1>3, <1>5, HitRight
  <1>7. Sound(job'[w])
    BY <1>1, <1>2, <1>6, SoundTakes DEF FreshInv, Collecting
  <1>8. QED
    BY <1>1, <1>3, <1>7, SameCache DEF Moved

LEMMA ReadPostFresh ==
  ASSUME TypeInv, FreshInv, NEW w \in Proc, ReadPost(w)
  PROVE  FreshInv'
  <1> DEFINE name == Current(w)[1]
  <1>1. /\ UNCHANGED <<cache, deployVars>> /\ job[w].step = "next"
        /\ IF name \in PostsOf(job[w].release) THEN Goes(w, "read") ELSE Takes(w, <<>>)
    BY ReadPostFacts
  <1>2. job[w] # None /\ job[w].todo # <<>> /\ job[w] \in Job
    BY Worker DEF ReadPost, Building, TypeInv
  <1>3. CASE name \in PostsOf(job[w].release)
    <2>1. /\ Moved(w, job'[w]) /\ job'[w] # None /\ Same(job'[w], job[w])
          /\ job'[w].step = "read" /\ job'[w].got = job[w].got
      BY <1>1, <1>3 DEF Goes
    <2>2. Sound(job'[w])
      BY <1>1, <1>2, <2>1, SoundSame DEF FreshInv, Collecting
    <2>3. QED
      BY <1>1, <2>1, <2>2, SameCache DEF Moved
  <1>4. CASE name \notin PostsOf(job[w].release)
    <2>1. Takes(w, <<>>)
      BY <1>1, <1>4
    <2>2. Moved(w, job'[w]) /\ job'[w] # None /\ job'[w].step = "next"
      BY <2>1 DEF Takes
    <2>3. Trusted => <<>> = Right(name)
      BY <1>2, <1>4, TrustedFollow DEF FreshInv, JobsSound, Sound, Right
    <2>4. Sound(job'[w])
      BY <1>1, <1>2, <2>1, <2>3, SoundTakes DEF FreshInv, Collecting
    <2>5. QED
      BY <1>1, <2>2, <2>4, SameCache DEF Moved
  <1>5. QED
    BY <1>3, <1>4

\* A key entered leaves what the others say.
LEMMA EntriesKept ==
  ASSUME TypeInv, FreshInv, UNCHANGED deployVars, NEW key, NEW value, Entered(key, value),
         since > 0 => /\ key[1] = "links" => value = Site[release][key[2]]
                      /\ key[1] = "meta" => value = release,
         key[1] \in {"links", "meta"}
  PROVE  EntriesFollow' /\ GraphsFollow'
  <1>1. UNCHANGED <<release, since, unsettled>>
    BY DEF deployVars
  <1>2. ASSUME NEW k \in DOMAIN cache', k # key
        PROVE  k \in DOMAIN cache /\ cache'[k] = cache[k]
    BY <1>2 DEF Entered
  <1>3. cache'[key].value = value /\ cache'[key].age = 0
    BY DEF Entered
  <1>4. EntriesFollow'
    <2> SUFFICES ASSUME NEW k \in DOMAIN cache', cache'[k].age < since
                 PROVE  /\ k[1] = "links" => cache'[k].value = Site[release][k[2]]
                        /\ k[1] = "meta" => cache'[k].value = release
      BY <1>1 DEF EntriesFollow, Value
    <2>1. CASE k = key
      BY <1>3, <2>1
    <2>2. CASE k # key
      BY <1>2, <2>2 DEF FreshInv, EntriesFollow, Value
    <2>3. QED
      BY <2>1, <2>2
  <1>5. GraphsFollow'
    <2> SUFFICES ASSUME NEW k \in DOMAIN cache',
                        cache'[k].age + (IF unsettled THEN CacheTimeout ELSE 1) <= since
                 PROVE  GraphRight(k)'
      BY <1>1 DEF GraphsFollow
    <2>1. CASE k = key
      BY <2>1 DEF GraphRight
    <2>2. CASE k # key
      <3>1. k \in DOMAIN cache /\ cache'[k] = cache[k]
        BY <1>2, <2>2
      <3>2. GraphRight(k)
        BY <3>1 DEF FreshInv, GraphsFollow
      <3>3. QED
        BY <1>1, <3>1, <3>2 DEF GraphRight, Graph, Right, Value
    <2>3. QED
      BY <2>1, <2>2
  <1>6. QED
    BY <1>4, <1>5

LEMMA CacheLinksFresh ==
  ASSUME TypeInv, FreshInv, NEW w \in Proc, CacheLinks(w)
  PROVE  FreshInv'
  <1> DEFINE name == Current(w)[1]
             value == Site[job[w].release][name]
             key == LinksKey(name)
  <1>1. /\ UNCHANGED deployVars /\ job[w].step = "read" /\ Goes(w, "cached")
        /\ name \in PostsOf(job[w].release) /\ name \in Post /\ Entered(key, value)
    BY CacheLinksFacts
  <1>2. UNCHANGED <<release, since, unsettled>>
    BY <1>1 DEF deployVars
  <1>3. /\ Moved(w, job'[w]) /\ job[w] # None /\ job'[w] # None /\ Same(job'[w], job[w])
        /\ job'[w].step = "cached" /\ job'[w].got = job[w].got /\ job'[w].todo = job[w].todo
    BY <1>1 DEF Goes
  <1>4. Sound(job'[w])
    BY <1>1, <1>3, SoundSame DEF FreshInv, Collecting
  <1>5. JobsSound'
    BY <1>1, <1>3, <1>4, SoundStep DEF FreshInv, Moved
  <1>6. Following(job[w])
    BY <1>3 DEF FreshInv, JobsSound, Sound
  <1>7. since > 0 \/ ~unsettled => job[w].release = release
    BY <1>6, Numbers DEF Following, TypeInv, DeploysOK
  <1>8. EntriesFollow' /\ GraphsFollow'
    BY <1>1, <1>7, EntriesKept, KeyKinds
  <1>9. ASSUME ~unsettled, NEW p, LinksRight(p) \/ p = name
        PROVE  LinksRight(p)'
    <2>1. CASE p = name
      BY <1>1, <1>2, <1>7, <1>9, <2>1 DEF LinksRight, Cached, Value, Entered
    <2>2. CASE p # name
      <3>1. LinksKey(p) # key
        BY <2>2, KeyKinds
      <3>2. QED
        BY <1>1, <1>2, <1>9, <2>2, <3>1 DEF LinksRight, Cached, Value, Entered
    <2>3. QED
      BY <2>1, <2>2
  <1>10. NewestMetas'
    <2> SUFFICES ASSUME ~unsettled, NEW p \in Post, Cached(MetaKey(p))'
                 PROVE  /\ Value(MetaKey(p))' <= release
                        /\ Value(MetaKey(p))' = release => LinksRight(p)'
      BY <1>2 DEF NewestMetas, MetaRight
    <2>1. MetaKey(p) # key
      BY KeyKinds
    <2>2. Cached(MetaKey(p)) /\ Value(MetaKey(p))' = Value(MetaKey(p))
      BY <1>1, <2>1 DEF Entered, Cached, Value
    <2>3. QED
      BY <1>9, <2>2 DEF FreshInv, NewestMetas, MetaRight
  <1>11. NewestLinks'
    <2> SUFFICES ASSUME ~unsettled, NEW v \in Proc, job'[v] # None, job'[v].step = "cached"
                 PROVE  LinksRight(Current(v)[1])'
      BY <1>2 DEF NewestLinks
    <2>1. PICK p : p = Current(v)[1]
      OBVIOUS
    <2>2. Current(v)[1]' = p
      BY <1>3, <2>1 DEF Current, Moved
    <2>3. LinksRight(p) \/ p = name
      BY <1>3, <2>1 DEF Moved, FreshInv, NewestLinks
    <2>4. LinksRight(p)'
      BY <1>9, <2>3
    <2>5. QED
      BY <2>2, <2>4 DEF LinksRight, Cached, Value, LinksKey
  <1>12. QED
    BY <1>5, <1>8, <1>10, <1>11 DEF FreshInv

LEMMA CacheMetaFresh ==
  ASSUME TypeInv, FreshInv, NEW w \in Proc, CacheMeta(w)
  PROVE  FreshInv'
  <1> DEFINE name == Current(w)[1]
             value == job[w].release
             key == MetaKey(name)
  <1>1. /\ UNCHANGED deployVars /\ job[w].step = "cached" /\ Takes(w, Site[value][name])
        /\ name \in PostsOf(value) /\ name \in Post /\ Entered(key, value)
    BY CacheMetaFacts
  <1>2. UNCHANGED <<release, since, unsettled>> /\ job[w].todo # <<>>
    BY <1>1 DEF deployVars, CacheMeta, Building
  <1>3. /\ Moved(w, job'[w]) /\ job[w] # None /\ job'[w] # None /\ job'[w].step = "next"
    BY <1>1 DEF Takes
  <1>4. Following(job[w])
    BY <1>3 DEF FreshInv, JobsSound, Sound
  <1>5. since > 0 \/ ~unsettled => value = release
    BY <1>4, Numbers DEF Following, TypeInv, DeploysOK
  <1>6. Trusted => Site[value][name] = Right(name)
    BY <1>1, <1>4, TrustedFollow DEF Right
  <1>7. Sound(job'[w])
    BY <1>1, <1>2, <1>6, SoundTakes DEF FreshInv, Collecting
  <1>8. JobsSound'
    BY <1>1, <1>3, <1>7, SoundStep DEF FreshInv, Moved
  <1>9. EntriesFollow' /\ GraphsFollow'
    BY <1>1, <1>5, EntriesKept, KeyKinds
  <1>10. \A p : LinksRight(p) => LinksRight(p)'
    <2> SUFFICES ASSUME NEW p, LinksRight(p)
                 PROVE  LinksRight(p)'
      OBVIOUS
    <2>1. LinksKey(p) # key
      BY KeyKinds
    <2>2. QED
      BY <1>1, <1>2, <2>1 DEF LinksRight, Cached, Value, Entered
  <1>11. NewestMetas'
    <2> SUFFICES ASSUME ~unsettled, NEW p \in Post, Cached(MetaKey(p))'
                 PROVE  /\ Value(MetaKey(p))' <= release
                        /\ Value(MetaKey(p))' = release => LinksRight(p)'
      BY <1>2 DEF NewestMetas, MetaRight
    <2>1. CASE p = name
      <3>1. Value(MetaKey(p))' = release
        BY <1>1, <1>5, <2>1 DEF Entered, Value
      <3>2. LinksRight(p)
        BY <1>1, <1>3, <2>1 DEF FreshInv, NewestLinks
      <3>3. release \in Nat
        BY Numbers DEF TypeInv, DeploysOK
      <3>4. QED
        BY <1>10, <3>1, <3>2, <3>3
    <2>2. CASE p # name
      <3>1. MetaKey(p) # key
        BY <2>2, KeyKinds
      <3>2. Cached(MetaKey(p)) /\ Value(MetaKey(p))' = Value(MetaKey(p))
        BY <1>1, <3>1 DEF Entered, Cached, Value
      <3>3. QED
        BY <1>10, <3>2 DEF FreshInv, NewestMetas, MetaRight
    <2>3. QED
      BY <2>1, <2>2
  <1>12. NewestLinks'
    <2> SUFFICES ASSUME ~unsettled, NEW v \in Proc, job'[v] # None, job'[v].step = "cached"
                 PROVE  LinksRight(Current(v)[1])'
      BY <1>2 DEF NewestLinks
    <2>1. v # w /\ job'[v] = job[v]
      BY <1>3 DEF Moved
    <2>2. PICK p : p = Current(v)[1]
      OBVIOUS
    <2>3. Current(v)[1]' = p /\ LinksRight(p)
      BY <2>1, <2>2 DEF Current, FreshInv, NewestLinks
    <2>4. LinksRight(p)'
      BY <1>10, <2>3
    <2>5. QED
      BY <2>3, <2>4 DEF LinksRight, Cached, Value, LinksKey
  <1>13. QED
    BY <1>8, <1>9, <1>11, <1>12 DEF FreshInv

\* A complete job has the posts of its release.
LEMMA FinishFresh ==
  ASSUME TypeInv, FreshInv, NEW w \in Proc, Finish(w)
  PROVE  FreshInv'
  <1> DEFINE j == job[w]
             value == GraphOf(j.id, j.got)
  <1>1. /\ UNCHANGED deployVars /\ j # None /\ j.todo = <<>> /\ j.step = "next"
        /\ Entered(j.key, value) /\ (Goes(w, "hash") \/ Moved(w, None))
    BY FinishFacts
  <1>2. UNCHANGED <<release, since, unsettled>>
    BY <1>1 DEF deployVars
  <1>3. /\ j \in Job /\ Shaped(j) /\ j.got \in Links /\ Following(j) /\ Told(j)
        /\ j.key = FullKey \/ \E ask \in Asked : j.key = PostKey(ask[1], ask[2])
    BY <1>1, Worker, JobFacts DEF TypeInv, FreshInv, JobsSound, Sound
  <1>4. /\ \A v \in Proc \ {w} : job'[v] = job[v]
        /\ job'[w] = None \/ (job'[w] # None /\ Same(job'[w], j) /\ job'[w].step = "hash")
    BY <1>1 DEF Goes, Moved
  <1>5. Sound(job'[w])
    BY <1>1, <1>4, SoundSame DEF FreshInv, Collecting, Sound
  <1>6. JobsSound'
    BY <1>1, <1>4, <1>5, SoundStep DEF FreshInv
  <1>7. j.key[1] \notin {"links", "meta"}
    BY <1>3, KeyKinds
  <1>8. ASSUME NEW k \in DOMAIN cache', k # j.key
        PROVE  k \in DOMAIN cache /\ cache'[k] = cache[k]
    BY <1>1, <1>8 DEF Entered
  <1>9. \A p : LinksKey(p) # j.key /\ MetaKey(p) # j.key
    BY <1>7, KeyKinds
  <1>10. \A p : LinksRight(p) => LinksRight(p)'
    <2> SUFFICES ASSUME NEW p, LinksRight(p), Cached(LinksKey(p))'
                 PROVE  Value(LinksKey(p))' = Site[release][p]
      BY <1>2 DEF LinksRight
    <2>1. Cached(LinksKey(p)) /\ Value(LinksKey(p))' = Value(LinksKey(p))
      BY <1>1, <1>9 DEF Entered, Cached, Value
    <2>2. QED
      BY <2>1 DEF LinksRight
  <1>11. NewestMetas'
    <2> SUFFICES ASSUME ~unsettled, NEW p \in Post, Cached(MetaKey(p))'
                 PROVE  /\ Value(MetaKey(p))' <= release
                        /\ Value(MetaKey(p))' = release => LinksRight(p)'
      BY <1>2 DEF NewestMetas, MetaRight
    <2>1. Cached(MetaKey(p)) /\ Value(MetaKey(p))' = Value(MetaKey(p))
      BY <1>1, <1>9 DEF Entered, Cached, Value
    <2>2. QED
      BY <1>10, <2>1 DEF FreshInv, NewestMetas, MetaRight
  <1>12. NewestLinks'
    <2> SUFFICES ASSUME ~unsettled, NEW v \in Proc, job'[v] # None, job'[v].step = "cached"
                 PROVE  LinksRight(Current(v)[1])'
      BY <1>2 DEF NewestLinks
    <2>1. v # w /\ job'[v] = job[v]
      BY <1>4
    <2>2. PICK p : p = Current(v)[1]
      OBVIOUS
    <2>3. Current(v)[1]' = p /\ LinksRight(p)
      BY <2>1, <2>2 DEF Current, FreshInv, NewestLinks
    <2>4. LinksRight(p)'
      BY <1>10, <2>3
    <2>5. QED
      BY <2>3, <2>4 DEF LinksRight, Cached, Value, LinksKey
  <1>13. EntriesFollow'
    <2> SUFFICES ASSUME NEW k \in DOMAIN cache', cache'[k].age < since, k # j.key
                 PROVE  /\ k[1] = "links" => cache'[k].value = Site[release][k[2]]
                        /\ k[1] = "meta" => cache'[k].value = release
      BY <1>2, <1>7 DEF EntriesFollow, Value
    <2>1. QED
      BY <1>8 DEF FreshInv, EntriesFollow, Value
  <1>14. value.links = j.got /\ value.id = j.id
    BY DEF GraphOf
  <1>15. ASSUME Trusted
         PROVE  /\ j.key[1] = "full" => value.links = Graph(release)
                /\ j.key[1] = "post" /\ j.id \notin DOMAIN Alias =>
                     \A p \in DOMAIN value.links : value.links[p] = Right(p)
    <2> HIDE DEF value
    <2>1. Collecting(j) /\ j.release = release
      BY <1>1, <1>3, <1>15, TrustedFollow DEF Collecting
    <2>2. Straight(j) => \A p \in DOMAIN j.got : j.got[p] = Right(p)
      BY <1>3, <1>15, <2>1 DEF Told
    <2>3. ASSUME j.key[1] = "full"
          PROVE  j.got = Site[release]
      <3>1. j.op # "post"
        BY <1>3, <2>3 DEF Shaped
      <3>2. Names(j.todo) = {}
        <4>1. DOMAIN <<>> = {}
          BY NoLinks
        <4>2. QED
          BY <1>1, <4>1 DEF Names
      <3>3. DOMAIN j.got = PostsOf(release)
        BY <1>3, <2>1, <3>1, <3>2 DEF Shaped
      <3>4. \A p \in DOMAIN j.got : j.got[p] = Site[release][p]
        BY <2>2, <3>1, <3>3 DEF Straight, Right
      <3>5. j.got \in [DOMAIN j.got -> Lists] /\ Site[release] \in [PostsOf(release) -> Seq(Post)]
        <4>1. release \in Release
          BY DEF TypeInv, DeploysOK
        <4>2. QED
          BY <1>3, <4>1, LinksFacts, SiteAssumption
      <3>6. QED
        BY <3>3, <3>4, <3>5
    <2>4. ASSUME j.id \notin DOMAIN Alias
          PROVE  \A p \in DOMAIN j.got : j.got[p] = Right(p)
      BY <2>2, <2>4 DEF Straight
    <2>5. QED
      BY <1>14, <2>3, <2>4 DEF Graph
  <1>16. GraphsFollow'
    <2> SUFFICES ASSUME NEW k \in DOMAIN cache',
                        cache'[k].age + (IF unsettled THEN CacheTimeout ELSE 1) <= since
                 PROVE  GraphRight(k)'
      BY <1>2 DEF GraphsFollow
    <2>1. CASE k = j.key
      <3>1. cache'[k].age = 0 /\ cache'[k].value = value
        BY <1>1, <2>1 DEF Entered
      <3>2. Trusted
        BY <3>1, Numbers DEF Trusted, TypeInv, DeploysOK
      <3>3. QED
        BY <1>2, <1>14, <1>15, <2>1, <3>1, <3>2 DEF GraphRight, Graph, Right, Value
    <2>2. CASE k # j.key
      <3>1. k \in DOMAIN cache /\ cache'[k] = cache[k]
        BY <1>8, <2>2
      <3>2. GraphRight(k)
        BY <3>1 DEF FreshInv, GraphsFollow
      <3>3. QED
        BY <1>2, <3>1, <3>2 DEF GraphRight, Graph, Right, Value
    <2>3. QED
      BY <2>1, <2>2
  <1>17. QED
    BY <1>6, <1>11, <1>12, <1>13, <1>16 DEF FreshInv

LEMMA StartsFresh ==
  ASSUME TypeInv, FreshInv, NEW w \in Proc, Starts(w)
  PROVE  FreshInv'
  <1>1. /\ UNCHANGED deployVars /\ Moved(w, job'[w]) /\ job'[w] # None
        /\ job'[w].release = release
        /\ (job'[w].step = "next" /\ DOMAIN job'[w].got = {}) \/ job'[w].step = "hash"
        /\ DOMAIN cache' \subseteq DOMAIN cache
        /\ \A key \in DOMAIN cache' : cache'[key] = cache[key]
    BY StartSteps DEF Aside
  <1>2. Sound(job'[w])
    BY <1>1 DEF Sound, Following, Told, Collecting
  <1>3. JobsSound'
    BY <1>1, <1>2, SoundStep DEF FreshInv, Moved
  <1>4. NewestMetas' /\ EntriesFollow' /\ GraphsFollow' /\ \A p : LinksRight(p) => LinksRight(p)'
    BY <1>1, CacheShrinks DEF FreshInv
  <1>5. NewestLinks'
    <2> SUFFICES ASSUME ~unsettled, NEW v \in Proc, job'[v] # None, job'[v].step = "cached"
                 PROVE  LinksRight(Current(v)[1])'
      BY <1>1 DEF NewestLinks, deployVars
    <2>1. v # w /\ job'[v] = job[v]
      BY <1>1 DEF Moved
    <2>2. PICK p : p = Current(v)[1]
      OBVIOUS
    <2>3. Current(v)[1]' = p /\ LinksRight(p)
      BY <2>1, <2>2 DEF Current, FreshInv, NewestLinks
    <2>4. LinksRight(p)'
      BY <1>4, <2>3
    <2>5. QED
      BY <2>3, <2>4 DEF LinksRight, Cached, Value, LinksKey
  <1>6. QED
    BY <1>3, <1>4, <1>5 DEF FreshInv

LEMMA ShotsFresh ==
  ASSUME TypeInv, FreshInv, NEW w \in Proc, LookUpPicture(w) \/ SaveImage(w) \/ Die(w)
  PROVE  FreshInv'
  <1>1. /\ UNCHANGED <<cache, deployVars>> /\ job[w] # None
        /\ \A v \in Proc \ {w} : job'[v] = job[v]
        /\ \/ job'[w] = None
           \/ job'[w] # None /\ Same(job'[w], job[w]) /\ job'[w].step \in {"create", "update"}
    <2>1. CASE LookUpPicture(w)
      BY <2>1, LookUpFacts DEF Goes, Moved
    <2>2. CASE SaveImage(w)
      BY <2>2, SaveFacts DEF Moved
    <2>3. CASE Die(w)
      BY <2>3, DieFacts DEF Moved
    <2>4. QED
      BY <2>1, <2>2, <2>3
  <1>2. Sound(job'[w])
    BY <1>1, SoundSame DEF FreshInv, Collecting, Sound
  <1>3. QED
    BY <1>1, <1>2, SameCache

LEMMA DeployFresh ==
  ASSUME TypeInv, FreshInv, NEW r \in Release, Deploy(r)
  PROVE  FreshInv'
  <1>1. /\ UNCHANGED <<cache, job>> /\ release' = r /\ since' = 0 /\ unsettled' \in BOOLEAN
        /\ ~unsettled' => r > release /\ (\A w \in Proc : job[w] = None)
                          /\ ~(unsettled /\ since < Long)
    BY DeployFacts DEF DeploysOK
  <1>2. CacheTimeout \in Nat \ {0} /\ release \in Nat /\ r \in Nat /\ since \in 0..Long
    BY Numbers DEF TypeInv, DeploysOK
  <1>3. \A key \in DOMAIN cache : cache[key].age \in 0..(CacheTimeout - 1)
    BY DEF TypeInv, CacheOK
  <1>4. JobsSound'
    <2>1. CASE unsettled'
      BY <1>1, <1>2, <2>1 DEF JobsSound, Sound, Following, Told, Trusted
    <2>2. CASE ~unsettled'
      BY <1>1, <2>2 DEF JobsSound, Sound
    <2>3. QED
      BY <2>1, <2>2
  <1>5. NewestLinks'
    BY <1>1 DEF NewestLinks
  <1>6. EntriesFollow' /\ GraphsFollow'
    <2>1. \A key \in DOMAIN cache' : ~(cache'[key].age < since')
      BY <1>1, <1>3
    <2>2. \A key \in DOMAIN cache' :
             ~(cache'[key].age + (IF unsettled' THEN CacheTimeout ELSE 1) <= since')
      BY <1>1, <1>2, <1>3
    <2>3. QED
      BY <2>1, <2>2 DEF EntriesFollow, GraphsFollow
  <1>7. ASSUME ~unsettled', NEW p \in Post, Cached(MetaKey(p))
        PROVE  Value(MetaKey(p)) < r
    <2>1. Value(MetaKey(p)) \in Nat
      <3>1. Value(MetaKey(p)) \in Release
        BY <1>7, Held DEF TypeInv, CacheOK, Cached
      <3>2. QED
        BY <3>1, Numbers
    <2>2. CASE ~unsettled
      <3>1. Value(MetaKey(p)) <= release
        BY <1>7, <2>2 DEF FreshInv, NewestMetas, MetaRight
      <3>2. QED
        BY <1>1, <1>2, <1>7, <2>1, <3>1
    <2>3. CASE ~(since < Long)
      <3>1. cache[MetaKey(p)].age < since
        BY <1>2, <1>3, <1>7, <2>3, Numbers DEF Cached
      <3>2. Value(MetaKey(p)) = release
        BY <1>7, <3>1, KeyKinds DEF FreshInv, EntriesFollow, Cached
      <3>3. QED
        BY <1>1, <1>2, <1>7, <3>2
    <2>4. QED
      BY <1>1, <1>7, <2>2, <2>3
  <1>8. NewestMetas'
    <2> SUFFICES ASSUME ~unsettled', NEW p \in Post, Cached(MetaKey(p))'
                 PROVE  /\ Value(MetaKey(p))' <= r
                        /\ Value(MetaKey(p))' # r
      BY <1>1 DEF NewestMetas, MetaRight
    <2>1. Cached(MetaKey(p)) /\ Value(MetaKey(p))' = Value(MetaKey(p))
      BY <1>1 DEF Cached, Value
    <2>2. Value(MetaKey(p)) < r
      BY <1>7, <2>1
    <2>3. Value(MetaKey(p)) \in Nat
      <3>1. Value(MetaKey(p)) \in Release
        BY <2>1, Held DEF TypeInv, CacheOK, Cached
      <3>2. QED
        BY <3>1, Numbers
    <2>4. \A v \in Nat : v < r => v <= r /\ v # r
      BY <1>2
    <2>5. Value(MetaKey(p)) <= r /\ Value(MetaKey(p)) # r
      BY <2>2, <2>3, <2>4
    <2>6. QED
      BY <2>1, <2>5
  <1>9. QED
    BY <1>4, <1>5, <1>6, <1>8 DEF FreshInv

LEMMA TickFresh ==
  ASSUME TypeInv, FreshInv, Tick
  PROVE  FreshInv'
  <1>1. /\ \A w \in Proc : job[w] = None
        /\ UNCHANGED <<release, job, unsettled>>
        /\ since' = IF since < Long THEN since + 1 ELSE since
        /\ DOMAIN cache' \subseteq DOMAIN cache
        /\ \A key \in DOMAIN cache' :
              cache'[key].value = cache[key].value /\ cache'[key].age = cache[key].age + 1
    BY TickFacts
  <1>2. since \in Nat /\ since <= Long /\ CacheTimeout \in Nat \ {0} /\ Long = 2 * CacheTimeout - 1
    BY Numbers DEF TypeInv, DeploysOK
  <1>3. \A key \in DOMAIN cache : cache[key].age \in 0..(CacheTimeout - 1)
    BY DEF TypeInv, CacheOK
  <1>4. JobsSound' /\ NewestLinks'
    BY <1>1 DEF JobsSound, Sound, NewestLinks
  <1>5. \A p : LinksRight(p) => LinksRight(p)'
    BY <1>1 DEF LinksRight, Cached, Value
  <1>6. NewestMetas'
    <2> SUFFICES ASSUME ~unsettled, NEW p \in Post, Cached(MetaKey(p))'
                 PROVE  /\ Value(MetaKey(p))' <= release
                        /\ Value(MetaKey(p))' = release => LinksRight(p)'
      BY <1>1 DEF NewestMetas, MetaRight
    <2>1. Cached(MetaKey(p)) /\ Value(MetaKey(p))' = Value(MetaKey(p))
      BY <1>1 DEF Cached, Value
    <2>2. QED
      BY <1>5, <2>1 DEF FreshInv, NewestMetas, MetaRight
  <1>7. EntriesFollow'
    <2> SUFFICES ASSUME NEW key \in DOMAIN cache', cache'[key].age < since'
                 PROVE  /\ key[1] = "links" => cache'[key].value = Site[release][key[2]]
                        /\ key[1] = "meta" => cache'[key].value = release
      BY <1>1 DEF EntriesFollow, Value
    <2>1. key \in DOMAIN cache /\ cache'[key].age = cache[key].age + 1
      BY <1>1
    <2>2. cache[key].age < since
      BY <1>1, <1>2, <1>3, <2>1
    <2>3. QED
      BY <1>1, <2>1, <2>2 DEF FreshInv, EntriesFollow, Value
  <1>8. GraphsFollow'
    <2> SUFFICES ASSUME NEW key \in DOMAIN cache',
                        cache'[key].age + (IF unsettled THEN CacheTimeout ELSE 1) <= since'
                 PROVE  GraphRight(key)'
      BY <1>1 DEF GraphsFollow
    <2>1. key \in DOMAIN cache /\ cache'[key].age = cache[key].age + 1
          /\ cache'[key].value = cache[key].value
      BY <1>1
    <2>2. cache[key].age + (IF unsettled THEN CacheTimeout ELSE 1) <= since
      <3>1. cache[key].age \in 0..(CacheTimeout - 1)
        BY <1>3, <2>1
      <3>2. \A a \in 0..(CacheTimeout - 1), t \in {1, CacheTimeout} :
               a + 1 + t <= since' => a + t <= since
        BY <1>1, <1>2
      <3>3. QED
        BY <2>1, <3>1, <3>2
    <2>3. GraphRight(key)
      BY <2>1, <2>2 DEF FreshInv, GraphsFollow
    <2>4. QED
      BY <1>1, <2>1, <2>3 DEF GraphRight, Graph, Right, Value
  <1>9. QED
    BY <1>4, <1>6, <1>7, <1>8 DEF FreshInv

LEMMA NextFresh == TypeInv /\ FreshInv /\ [GraphNext]_graphVars => FreshInv'
  <1> SUFFICES ASSUME TypeInv, FreshInv, [GraphNext]_graphVars
               PROVE  FreshInv'
    OBVIOUS
  <1>1. ASSUME NEW w \in Proc, Builds(w) \/ Starts(w)
        PROVE  FreshInv'
    BY <1>1, SkipFresh, UseCachedFresh, ReadPostFresh, CacheLinksFresh, CacheMetaFresh,
       FinishFresh, StartsFresh DEF Builds
  <1>2. ASSUME NEW w \in Proc, LookUpPicture(w) \/ SaveImage(w) \/ Die(w)
        PROVE  FreshInv'
    BY <1>2, ShotsFresh
  <1>3. ASSUME NEW r \in Release, Deploy(r)
        PROVE  FreshInv'
    BY <1>3, DeployFresh
  <1>4. CASE Tick
    BY <1>4, TickFresh
  <1>5. CASE UNCHANGED graphVars
    BY <1>5 DEF FreshInv, JobsSound, Sound, Following, Told, Trusted, NewestLinks, NewestMetas,
                MetaRight, LinksRight, EntriesFollow, GraphsFollow, GraphRight, Graph, Right,
                Current, Cached, Value, graphVars, deployVars
  <1>6. QED
    BY <1>1, <1>2, <1>3, <1>4, <1>5 DEF GraphNext, ScreenshotTask, Builds, Starts

\* A deploy shows in every answer after one period of the caches, and after two
\* when it went back or met a process of the other release.
THEOREM DeploysAreSeen == GraphSpec => []DeploysShowUp
  <1>1. GraphInit => FreshInv
    <2> SUFFICES ASSUME GraphInit
                 PROVE  FreshInv
      OBVIOUS
    <2>1. DOMAIN cache = {} /\ \A w \in Proc : job[w] = None
      BY NoLinks DEF GraphInit
    <2>2. QED
      BY <2>1 DEF FreshInv, JobsSound, Sound, NewestLinks, NewestMetas, MetaRight, EntriesFollow,
                  GraphsFollow, Cached
  <1>2. TypeInv /\ FreshInv => DeploysShowUp
    <2> SUFFICES ASSUME TypeInv, FreshInv, Settled, NEW key \in DOMAIN cache
                 PROVE  /\ key[1] = "links" => Value(key) = Site[release][key[2]]
                        /\ GraphRight(key)
      BY DEF DeploysShowUp, GraphRight, Right
    <2>1. cache[key].age \in 0..(CacheTimeout - 1) /\ since \in Nat /\ CacheTimeout \in Nat \ {0}
          /\ Long = 2 * CacheTimeout - 1
      BY Numbers DEF TypeInv, CacheOK, DeploysOK
    <2>2. since >= (IF unsettled THEN Long ELSE CacheTimeout)
      BY DEF Settled
    <2>3. cache[key].age < since
          /\ cache[key].age + (IF unsettled THEN CacheTimeout ELSE 1) <= since
      BY <2>1, <2>2
    <2>4. QED
      BY <2>3 DEF FreshInv, EntriesFollow, GraphsFollow
  <1>3. QED
    BY <1>1, <1>2, NextFresh, TypeInvHolds, PTL DEF GraphSpec

-----------------------------------------------------------------------------
(* Neighbourhoods.                                                          *)

LEMMA LeastOf ==
  ASSUME NEW T, T \subseteq Nat, T # {}
  PROVE  \E n \in T : \A m \in T : n <= m
  <1>1. PICK n \in T : \A m \in T : ~(<<m, n>> \in OpToRel(<, Nat))
    BY WFMin, NatLessThanWellFounded
  <1>2. ASSUME NEW m \in T PROVE ~(m < n)
    BY <1>1, Zenon DEF OpToRel
  <1>3. QED
    BY <1>2

\* One link further than the posts of a set.
Further(links, posts) == posts \cup UNION {Range(links[p]) : p \in posts \cap DOMAIN links}

LEMMA WithinIs ==
  ASSUME NEW links, NEW start, NEW n \in Nat, NEW g, DOMAIN g = 0..n, g = [d \in 0..n |-> g[d]],
         g[0] = {start}, \A d \in 1..n : g[d] = Further(links, g[d - 1])
  PROVE  Within(links, start, n) = g[n]
  <1> DEFINE Solves(f) ==
               f = [d \in 0..n |-> IF d = 0 THEN {start}
                      ELSE f[d - 1] \cup UNION {Range(links[p]) : p \in f[d - 1] \cap DOMAIN links}]
             W == CHOOSE f : Solves(f)
  <1>1. Solves(g)
    <2>1. \A d \in 0..n : g[d] = IF d = 0 THEN {start}
             ELSE g[d - 1] \cup UNION {Range(links[p]) : p \in g[d - 1] \cap DOMAIN links}
      <3>1. \A d \in 0..n : d = 0 \/ d \in 1..n
        OBVIOUS
      <3>2. QED
        BY <3>1 DEF Further
    <2>2. QED
      BY <2>1
  <1>2. Solves(W)
    BY <1>1
  <1>3. Within(links, start, n) = W[n]
    BY DEF Within
  <1>4. \A d \in 0..n : W[d] = IF d = 0 THEN {start} ELSE Further(links, W[d - 1])
    <2> HIDE DEF W
    <2>1. \A d \in 0..n : W[d] = IF d = 0 THEN {start}
             ELSE W[d - 1] \cup UNION {Range(links[p]) : p \in W[d - 1] \cap DOMAIN links}
      BY <1>2
    <2>2. QED
      BY <2>1 DEF Further
  <1> HIDE DEF W
  <1>5. \A d \in 0..n : W[d] = g[d]
    <2> DEFINE wrong == {d \in 0..n : W[d] # g[d]}
    <2>1. SUFFICES ASSUME wrong # {} PROVE FALSE
      OBVIOUS
    <2>2. PICK d \in wrong : \A e \in wrong : d <= e
      <3>1. wrong \subseteq Nat
        OBVIOUS
      <3>2. QED
        BY <2>1, <3>1, LeastOf
    <2>3. d \in 0..n /\ W[d] # g[d]
      OBVIOUS
    <2>4. d # 0
      BY <1>4, <2>3
    <2>5. d \in 1..n /\ d - 1 \in 0..n /\ ~(d <= d - 1)
      BY <2>3, <2>4
    <2>6. W[d - 1] = g[d - 1]
      BY <2>2, <2>5
    <2>7. QED
      BY <1>4, <2>3, <2>4, <2>5, <2>6
  <1>6. QED
    BY <1>3, <1>5

LEMMA QueueFacts ==
  ASSUME NEW todo \in Todo, todo # <<>>, NEW links \in Lists
  PROVE  /\ Len(todo) \in Nat \ {0} /\ Len(links) \in Nat
         /\ DOMAIN todo = 1..Len(todo) /\ DOMAIN links = 1..Len(links)
         /\ \A i \in DOMAIN links : links[i] \in Post
         /\ \A i \in DOMAIN todo : todo[i] \in Name \X Nat
         /\ Head(todo) = todo[1] /\ DOMAIN Tail(todo) = 1..(Len(todo) - 1)
         /\ \A i \in 1..(Len(todo) - 1) : Tail(todo)[i] = todo[i + 1]
         /\ DOMAIN Queue(todo, links) = 1..(Len(todo) - 1 + Len(links))
         /\ \A i \in 1..(Len(todo) - 1) : Queue(todo, links)[i] = todo[i + 1]
         /\ \A i \in Len(todo)..(Len(todo) - 1 + Len(links)) :
               Queue(todo, links)[i] = <<links[i - (Len(todo) - 1)], Head(todo)[2] + 1>>
  <1> DEFINE n == Len(todo)
             m == Len(links)
             rest == Tail(todo)
             targets == [i \in DOMAIN links |-> <<links[i], Head(todo)[2] + 1>>]
  <1>1. n \in Nat \ {0} /\ DOMAIN todo = 1..n /\ (\A i \in 1..n : todo[i] \in Name \X Nat)
        /\ Head(todo) = todo[1]
    BY DEF Todo
  <1>2. links \in Seq(Post)
    BY ListsFacts
  <1>3. m \in Nat /\ DOMAIN links = 1..m /\ \A i \in 1..m : links[i] \in Post
    BY <1>2
  <1>4. Len(rest) = n - 1 /\ rest \in Todo /\ DOMAIN rest = 1..(n - 1)
        /\ \A i \in 1..(n - 1) : rest[i] = todo[i + 1]
    BY <1>1 DEF Todo
  <1>5. Head(todo)[2] + 1 \in Nat
    BY <1>1
  <1>6. targets \in Seq(Post \X Nat) /\ Len(targets) = m
        /\ \A i \in 1..m : targets[i] = <<links[i], Head(todo)[2] + 1>>
    BY <1>3, <1>5
  <1>7. targets \in Todo
    <2>1. Post \X Nat \subseteq Name \X Nat
      BY DEF Name
    <2>2. QED
      BY <1>6, <2>1 DEF Todo
  <1>8. Queue(todo, links) = rest \o targets
    BY DEF Queue, Pushed
  <1> HIDE DEF rest, targets
  <1>9. /\ rest \o targets \in Seq(Name \X Nat) /\ Len(rest \o targets) = Len(rest) + Len(targets)
        /\ \A i \in 1..(Len(rest) + Len(targets)) :
              (rest \o targets)[i] = IF i <= Len(rest) THEN rest[i] ELSE targets[i - Len(rest)]
    BY <1>4, <1>7, ConcatProperties DEF Todo
  <1>10. Len(rest) + Len(targets) = n - 1 + m
    BY <1>1, <1>3, <1>4, <1>6
  <1>11. DOMAIN (rest \o targets) = 1..(n - 1 + m)
    BY <1>9, <1>10
  <1>12. ASSUME NEW i \in 1..(n - 1)
         PROVE  (rest \o targets)[i] = todo[i + 1]
    <2>1. i \in 1..(n - 1 + m) /\ i <= Len(rest)
      BY <1>1, <1>3, <1>4
    <2>2. QED
      BY <1>4, <1>9, <1>10, <2>1
  <1>13. ASSUME NEW i \in n..(n - 1 + m)
         PROVE  (rest \o targets)[i] = <<links[i - (n - 1)], Head(todo)[2] + 1>>
    <2>1. i \in 1..(n - 1 + m) /\ ~(i <= Len(rest)) /\ i - Len(rest) = i - (n - 1)
          /\ i - (n - 1) \in 1..m
      BY <1>1, <1>3, <1>4
    <2>2. QED
      BY <1>6, <1>9, <1>10, <2>1
  <1>14. QED
    BY <1>1, <1>3, <1>4, <1>8, <1>11, <1>12, <1>13 DEF rest

\* The post is to be expanded, has been no farther away, or is too far.
Reached(j, dist, t, e) ==
  \/ t \in DOMAIN j.got /\ dist[t] <= e
  \/ \E i \in DOMAIN j.todo : Normal(j.todo[i][1]) = t /\ j.todo[i][2] = e
  \/ e >= j.key[3]

\* The post is the one asked for, or a post one step nearer leads to it.
Led(j, dist, t, e) ==
  \/ e = 0 /\ t = j.key[2]
  \/ \E q \in DOMAIN j.got : dist[q] + 1 = e /\ t \in Range(j.got[q])

\* A queue takes posts in the order of their distance: what is to be expanded is
\* no nearer than what has been, and at most one step farther than its first.
Walks(j, dist) ==
  /\ dist \in [DOMAIN j.got -> Nat]
  /\ \A q \in DOMAIN j.got : dist[q] < j.key[3] /\ Led(j, dist, q, dist[q])
  /\ Reached(j, dist, j.key[2], 0)
  /\ \A q \in DOMAIN j.got : \A t \in Range(j.got[q]) : Reached(j, dist, t, dist[q] + 1)
  /\ \A i \in DOMAIN j.todo : Led(j, dist, Normal(j.todo[i][1]), j.todo[i][2])
  /\ \A i \in DOMAIN j.todo, q \in DOMAIN j.got : dist[q] <= j.todo[i][2]
  /\ \A i, k \in DOMAIN j.todo : j.todo[k][2] <= j.todo[i][2] + 1
  /\ \A i, k \in DOMAIN j.todo : i <= k => j.todo[i][2] <= j.todo[k][2]

Passed(j) == Normal(Head(j.todo)[1]) \in DOMAIN j.got \/ Head(j.todo)[2] >= j.key[3]

LEMMA PostJob ==
  ASSUME NEW j \in Job, Shaped(j), j.op = "post"
  PROVE  j.key[3] \in Nat /\ j.key[2] \in Post /\ j.key[1] = "post"
         /\ \E ask \in Asked : j.key = PostKey(ask[1], ask[2])
  <1>1. j.key[1] = "post" /\ (j.key = FullKey \/ \E ask \in Asked : j.key = PostKey(ask[1], ask[2]))
    BY JobFacts DEF Shaped
  <1>2. PICK ask \in Asked : j.key = PostKey(ask[1], ask[2])
    BY <1>1, KeyKinds
  <1>3. ask[1] \in Name /\ ask[2] \in Nat
    BY SiteAssumption DEF Name
  <1>4. QED
    BY <1>1, <1>2, <1>3, KeyKinds, NameFacts

LEMMA SkipWalks ==
  ASSUME NEW j \in Job, Shaped(j), j.op = "post", j.todo # <<>>, NEW dist, Walks(j, dist), Passed(j),
         NEW k, Same(k, j), k.todo = Tail(j.todo), k.got = j.got
  PROVE  Walks(k, dist)
  <1> DEFINE n == Len(j.todo)
             m == j.todo[1][2]
             p == Normal(j.todo[1][1])
  <1>1. /\ j.todo \in Todo /\ n \in Nat \ {0} /\ DOMAIN j.todo = 1..n /\ DOMAIN k.todo = 1..(n - 1)
        /\ Head(j.todo) = j.todo[1] /\ m \in Nat
        /\ \A i \in 1..(n - 1) : k.todo[i] = j.todo[i + 1] /\ i + 1 \in DOMAIN j.todo
        /\ \A i \in DOMAIN j.todo : j.todo[i][2] \in Nat
    <2>1. j.todo \in Todo
      BY JobFacts
    <2>2. QED
      BY <2>1, ListsFacts, QueueFacts
  <1>2. k.key = j.key
    BY DEF Same
  <1>3. \A t, e : Led(k, dist, t, e) <=> Led(j, dist, t, e)
    BY <1>2 DEF Led
  <1>4. dist \in [DOMAIN j.got -> Nat] /\ \A q \in DOMAIN j.got : dist[q] <= m
    BY <1>1 DEF Walks
  <1>5. ASSUME NEW t, NEW e \in Nat, Reached(j, dist, t, e)
        PROVE  Reached(k, dist, t, e)
    <2>1. CASE t \in DOMAIN j.got /\ dist[t] <= e
      BY <2>1 DEF Reached
    <2>2. CASE e >= j.key[3]
      BY <1>2, <2>2 DEF Reached
    <2>3. CASE \E i \in DOMAIN j.todo : Normal(j.todo[i][1]) = t /\ j.todo[i][2] = e
      <3>1. PICK i \in DOMAIN j.todo : Normal(j.todo[i][1]) = t /\ j.todo[i][2] = e
        BY <2>3
      <3>2. CASE i = 1
        <4>1. t = p /\ e = m
          BY <3>1, <3>2
        <4>2. p \in DOMAIN j.got \/ m >= j.key[3]
          BY <1>1 DEF Passed
        <4>3. QED
          BY <1>2, <1>4, <4>1, <4>2 DEF Reached
      <3>3. CASE i # 1
        <4>1. i - 1 \in DOMAIN k.todo /\ k.todo[i - 1] = j.todo[i]
          BY <1>1, <3>3
        <4>2. QED
          BY <3>1, <4>1 DEF Reached
      <3>4. QED
        BY <3>2, <3>3
    <2>4. QED
      BY <1>5, <2>1, <2>2, <2>3 DEF Reached
  <1>6. dist \in [DOMAIN k.got -> Nat]
        /\ \A q \in DOMAIN k.got : dist[q] < k.key[3] /\ Led(k, dist, q, dist[q])
    BY <1>2, <1>3 DEF Walks
  <1>7. Reached(k, dist, k.key[2], 0)
        /\ \A q \in DOMAIN k.got : \A t \in Range(k.got[q]) : Reached(k, dist, t, dist[q] + 1)
    BY <1>2, <1>4, <1>5 DEF Walks
  <1>8. \A i \in DOMAIN k.todo : Led(k, dist, Normal(k.todo[i][1]), k.todo[i][2])
    BY <1>1, <1>3 DEF Walks
  <1>9. \A i \in DOMAIN k.todo, q \in DOMAIN k.got : dist[q] <= k.todo[i][2]
    BY <1>1 DEF Walks
  <1>10. /\ \A i, l \in DOMAIN k.todo : k.todo[l][2] <= k.todo[i][2] + 1
         /\ \A i, l \in DOMAIN k.todo : i <= l => k.todo[i][2] <= k.todo[l][2]
    <2>1. ASSUME NEW i \in DOMAIN k.todo, NEW l \in DOMAIN k.todo
          PROVE  /\ k.todo[l][2] <= k.todo[i][2] + 1
                 /\ i <= l => k.todo[i][2] <= k.todo[l][2]
      <3>1. /\ i + 1 \in DOMAIN j.todo /\ l + 1 \in DOMAIN j.todo
            /\ k.todo[i] = j.todo[i + 1] /\ k.todo[l] = j.todo[l + 1]
            /\ (i <= l => i + 1 <= l + 1)
        BY <1>1
      <3>2. QED
        BY <3>1 DEF Walks
    <2>2. QED
      BY <2>1
  <1>11. QED
    BY <1>6, <1>7, <1>8, <1>9, <1>10 DEF Walks

LEMMA TakeWalks ==
  ASSUME NEW j \in Job, Shaped(j), j.op = "post", j.todo # <<>>, NEW dist, Walks(j, dist), ~Passed(j),
         NEW links \in Lists, NEW p, p = Normal(Head(j.todo)[1]),
         NEW k, Same(k, j), DOMAIN k.got = DOMAIN j.got \cup {p}, k.got[p] = links,
         \A q \in DOMAIN j.got \ {p} : k.got[q] = j.got[q], k.todo = Queue(j.todo, links)
  PROVE  \E far : Walks(k, far)
  <1> DEFINE n == Len(j.todo)
             m == j.todo[1][2]
             all == n - 1 + Len(links)
             far == [q \in DOMAIN k.got |-> IF q = p THEN m ELSE dist[q]]
  <1>1. /\ n \in Nat \ {0} /\ Len(links) \in Nat /\ DOMAIN j.todo = 1..n /\ m \in Nat
        /\ Head(j.todo) = j.todo[1] /\ DOMAIN k.todo = 1..all
        /\ \A i \in DOMAIN j.todo : j.todo[i][2] \in Nat
    <2>1. j.todo \in Todo
      BY JobFacts
    <2>2. QED
      BY <2>1, QueueFacts
  <1>2. \A i \in 1..(n - 1) : k.todo[i] = j.todo[i + 1] /\ i + 1 \in DOMAIN j.todo
    <2>1. j.todo \in Todo
      BY JobFacts
    <2>2. \A i \in 1..(Len(j.todo) - 1) : Queue(j.todo, links)[i] = j.todo[i + 1]
      BY <2>1, QueueFacts
    <2>3. \A i \in 1..(n - 1) : i + 1 \in 1..n
      BY <1>1
    <2>4. QED
      BY <1>1, <2>2, <2>3
  <1>3. ASSUME NEW i \in n..all
        PROVE  /\ k.todo[i] = <<links[i - (n - 1)], m + 1>> /\ k.todo[i][2] = m + 1
               /\ Normal(k.todo[i][1]) \in Range(links)
    <2>1. j.todo \in Todo
      BY JobFacts
    <2>2. k.todo[i] = <<links[i - (n - 1)], m + 1>>
      <3>1. \A l \in Len(j.todo)..(Len(j.todo) - 1 + Len(links)) :
               Queue(j.todo, links)[l] = <<links[l - (Len(j.todo) - 1)], Head(j.todo)[2] + 1>>
        BY <2>1, QueueFacts
      <3>2. Head(j.todo)[2] = m
        BY <1>1
      <3>3. QED
        BY <3>1, <3>2
    <2>3. i - (n - 1) \in DOMAIN links /\ \A l \in DOMAIN links : links[l] \in Post
      <3>1. DOMAIN links = 1..Len(links) /\ \A l \in DOMAIN links : links[l] \in Post
        BY <2>1, QueueFacts
      <3>2. i - (n - 1) \in 1..Len(links)
        BY <1>1
      <3>3. QED
        BY <3>1, <3>2
    <2>4. k.todo[i][1] = links[i - (n - 1)] /\ k.todo[i][2] = m + 1
      BY <2>2
    <2>5. Normal(k.todo[i][1]) = links[i - (n - 1)]
      BY <2>3, <2>4, NameFacts
    <2>6. links[i - (n - 1)] \in Range(links)
      BY <2>3 DEF Range
    <2>7. QED
      BY <2>2, <2>4, <2>5, <2>6
  <1>4. \A i \in 1..all : i \in 1..(n - 1) \/ i \in n..all
    BY <1>1
  <1>5. k.key = j.key /\ p \notin DOMAIN j.got /\ m < j.key[3]
    <2>1. p \notin DOMAIN j.got /\ ~(m >= j.key[3]) /\ j.key[3] \in Nat
      BY <1>1, PostJob DEF Passed
    <2>2. QED
      BY <1>1, <2>1 DEF Same
  <1>6. /\ dist \in [DOMAIN j.got -> Nat] /\ \A q \in DOMAIN j.got : dist[q] <= m
        /\ \A i \in DOMAIN j.todo : m <= j.todo[i][2] /\ j.todo[i][2] <= m + 1
    BY <1>1 DEF Walks
  <1>7. /\ far \in [DOMAIN k.got -> Nat] /\ far[p] = m
        /\ \A q \in DOMAIN j.got : far[q] = dist[q] /\ k.got[q] = j.got[q] /\ q \in DOMAIN k.got
    BY <1>1, <1>5, <1>6
  <1> HIDE DEF far, all, n, m
  <1>8. ASSUME NEW t, NEW e \in Nat, Led(j, dist, t, e)
        PROVE  Led(k, far, t, e)
    <2>1. CASE e = 0 /\ t = j.key[2]
      BY <1>5, <2>1 DEF Led
    <2>2. CASE \E q \in DOMAIN j.got : dist[q] + 1 = e /\ t \in Range(j.got[q])
      BY <1>7, <2>2 DEF Led
    <2>3. QED
      BY <1>8, <2>1, <2>2 DEF Led
  <1>9. Led(k, far, p, m)
    <2>1. 1 \in DOMAIN j.todo /\ Normal(j.todo[1][1]) = p
      BY <1>1
    <2>2. Led(j, dist, p, m)
      BY <2>1 DEF Walks, m
    <2>3. QED
      BY <1>1, <1>8, <2>2
  <1>10. ASSUME NEW t, NEW e \in Nat, Reached(j, dist, t, e)
         PROVE  Reached(k, far, t, e)
    <2>1. CASE t \in DOMAIN j.got /\ dist[t] <= e
      BY <1>7, <2>1 DEF Reached
    <2>2. CASE e >= j.key[3]
      BY <1>5, <2>2 DEF Reached
    <2>3. CASE \E i \in DOMAIN j.todo : Normal(j.todo[i][1]) = t /\ j.todo[i][2] = e
      <3>1. PICK i \in DOMAIN j.todo : Normal(j.todo[i][1]) = t /\ j.todo[i][2] = e
        BY <2>3
      <3>2. CASE i = 1
        <4>1. t = p /\ e = m
          BY <1>1, <3>1, <3>2 DEF m
        <4>2. QED
          BY <1>1, <1>7, <4>1 DEF Reached
      <3>3. CASE i # 1
        <4>1. i - 1 \in 1..(n - 1) /\ i - 1 \in DOMAIN k.todo
          BY <1>1, <3>3 DEF all
        <4>2. k.todo[i - 1] = j.todo[i]
          BY <1>1, <1>2, <4>1
        <4>3. QED
          BY <3>1, <4>1, <4>2 DEF Reached
      <3>4. QED
        BY <3>2, <3>3
    <2>4. QED
      BY <1>10, <2>1, <2>2, <2>3 DEF Reached
  <1>11. ASSUME NEW t \in Range(links)
         PROVE  Reached(k, far, t, m + 1)
    <2>1. PICK l \in DOMAIN links : t = links[l]
      BY DEF Range
    <2>2. j.todo \in Todo
      BY JobFacts
    <2>3. DOMAIN links = 1..Len(links) /\ t \in Post
      BY <2>1, <2>2, QueueFacts
    <2>4. n - 1 + l \in n..all /\ n - 1 + l \in DOMAIN k.todo /\ n - 1 + l - (n - 1) = l
      BY <1>1, <2>3 DEF all
    <2>5. k.todo[n - 1 + l] = <<t, m + 1>>
      <3> DEFINE i == n - 1 + l
      <3>1. i \in n..all /\ i - (n - 1) = l
        BY <1>1, <2>3, <2>4
      <3> HIDE DEF i
      <3>2. k.todo[i] = <<links[i - (n - 1)], m + 1>>
        BY <1>3, <3>1
      <3>3. QED
        BY <2>1, <3>1, <3>2 DEF i
    <2>6. Normal(t) = t
      BY <2>3, NameFacts
    <2>7. QED
      BY <2>4, <2>5, <2>6 DEF Reached
  <1>12. \A q \in DOMAIN k.got : far[q] < k.key[3] /\ Led(k, far, q, far[q])
    <2>1. ASSUME NEW q \in DOMAIN j.got
          PROVE  far[q] < k.key[3] /\ Led(k, far, q, far[q])
      <3>1. dist[q] < j.key[3] /\ Led(j, dist, q, dist[q]) /\ dist[q] \in Nat
        BY <1>6 DEF Walks
      <3>2. QED
        BY <1>5, <1>7, <1>8, <3>1
    <2>2. QED
      BY <1>5, <1>7, <1>9, <2>1
  <1>13. Reached(k, far, k.key[2], 0)
    BY <1>5, <1>10 DEF Walks
  <1>14. \A q \in DOMAIN k.got : \A t \in Range(k.got[q]) : Reached(k, far, t, far[q] + 1)
    <2>1. ASSUME NEW q \in DOMAIN j.got, NEW t \in Range(j.got[q])
          PROVE  Reached(k, far, t, far[q] + 1)
      <3>1. Reached(j, dist, t, dist[q] + 1) /\ dist[q] + 1 \in Nat
        <4>1. Reached(j, dist, t, dist[q] + 1)
          BY DEF Walks
        <4>2. dist[q] \in Nat
          BY <1>6
        <4>3. QED
          BY <4>1, <4>2
      <3>2. QED
        BY <1>7, <1>10, <3>1
    <2>2. QED
      BY <1>7, <1>11, <2>1
  <1>15. \A i \in DOMAIN k.todo : Led(k, far, Normal(k.todo[i][1]), k.todo[i][2])
    <2>1. ASSUME NEW i \in 1..(n - 1)
          PROVE  Led(k, far, Normal(k.todo[i][1]), k.todo[i][2])
      <3>1. k.todo[i] = j.todo[i + 1] /\ i + 1 \in DOMAIN j.todo
        BY <1>2
      <3>2. Led(j, dist, Normal(j.todo[i + 1][1]), j.todo[i + 1][2]) /\ j.todo[i + 1][2] \in Nat
        BY <1>1, <3>1 DEF Walks
      <3>3. QED
        BY <1>8, <3>1, <3>2
    <2>2. ASSUME NEW i \in n..all
          PROVE  Led(k, far, Normal(k.todo[i][1]), k.todo[i][2])
      <3>1. k.todo[i][2] = m + 1 /\ Normal(k.todo[i][1]) \in Range(links)
        BY <1>3
      <3>2. far[p] + 1 = m + 1 /\ p \in DOMAIN k.got
        BY <1>7
      <3>3. QED
        BY <3>1, <3>2 DEF Led
    <2>3. QED
      BY <1>1, <1>4, <2>1, <2>2
  <1>16. \A i \in DOMAIN k.todo : m <= k.todo[i][2] /\ k.todo[i][2] <= m + 1
    <2>1. \A i \in 1..(n - 1) : m <= k.todo[i][2] /\ k.todo[i][2] <= m + 1
      BY <1>2, <1>6
    <2>2. \A i \in n..all : m <= k.todo[i][2] /\ k.todo[i][2] <= m + 1
      BY <1>1, <1>3
    <2>3. QED
      BY <1>1, <1>4, <2>1, <2>2
  <1>17. \A i \in DOMAIN k.todo : k.todo[i][2] \in Nat
    <2>1. \A i \in 1..(n - 1) : k.todo[i][2] \in Nat
      BY <1>1, <1>2
    <2>2. \A i \in n..all : k.todo[i][2] \in Nat
      BY <1>1, <1>3
    <2>3. QED
      BY <1>1, <1>4, <2>1, <2>2
  <1>18. \A i \in DOMAIN k.todo, q \in DOMAIN k.got : far[q] <= k.todo[i][2]
    <2>1. \A q \in DOMAIN k.got : far[q] <= m /\ far[q] \in Nat
      BY <1>1, <1>6, <1>7
    <2>2. QED
      BY <1>1, <1>16, <1>17, <2>1
  <1>19. \A i, l \in DOMAIN k.todo : k.todo[l][2] <= k.todo[i][2] + 1
    BY <1>1, <1>16, <1>17
  <1>20. ASSUME NEW i \in DOMAIN k.todo, NEW l \in DOMAIN k.todo, i <= l
         PROVE  k.todo[i][2] <= k.todo[l][2]
    <2>1. CASE l \in n..all
      BY <1>1, <1>3, <1>16, <1>17, <2>1
    <2>2. CASE l \in 1..(n - 1)
      <3>1. i \in 1..(n - 1)
        BY <1>1, <1>20, <2>2
      <3>2. /\ k.todo[i] = j.todo[i + 1] /\ k.todo[l] = j.todo[l + 1]
            /\ i + 1 \in DOMAIN j.todo /\ l + 1 \in DOMAIN j.todo
        BY <1>2, <2>2, <3>1
      <3>3. i + 1 <= l + 1
        BY <1>1, <1>20, <2>2, <3>1
      <3>4. QED
        BY <3>2, <3>3 DEF Walks
    <2>3. QED
      BY <1>1, <1>4, <2>1, <2>2
  <1>21. Walks(k, far)
    BY <1>7, <1>12, <1>13, <1>14, <1>15, <1>18, <1>19, <1>20 DEF Walks
  <1>22. QED
    BY <1>21

\* What a walk has expanded when nothing is left to expand.
LEMMA WalkedWhole ==
  ASSUME NEW j \in Job, Shaped(j), j.op = "post", j.todo = <<>>, j.key[3] > 0,
         NEW dist, Walks(j, dist)
  PROVE  /\ DOMAIN j.got = Within(j.got, j.key[2], j.key[3] - 1)
         /\ GraphOf(j.id, j.got).nodes = Within(j.got, j.key[2], j.key[3])
  <1> DEFINE D == j.key[3]
             s == j.key[2]
             L == j.got
             near == [d \in 0..(D - 1) |-> {q \in DOMAIN L : dist[q] <= d}]
             nodes == Further(L, DOMAIN L)
             far == [d \in 0..D |-> IF d < D THEN near[d] ELSE nodes]
  <1>1. D \in Nat /\ D > 0 /\ D - 1 \in Nat
    BY PostJob
  <1>2. dist \in [DOMAIN L -> Nat] /\ \A q \in DOMAIN L : dist[q] < D /\ Led(j, dist, q, dist[q])
    BY DEF Walks
  <1>3. \A t, e : Reached(j, dist, t, e) => (t \in DOMAIN L /\ dist[t] <= e) \/ e >= D
    <2>1. DOMAIN j.todo = {}
      BY NoLinks
    <2>2. QED
      BY <2>1 DEF Reached
  <1>4. s \in DOMAIN L /\ dist[s] = 0
    <2>1. Reached(j, dist, s, 0)
      BY DEF Walks
    <2>2. s \in DOMAIN L /\ dist[s] <= 0
      BY <1>1, <1>3, <2>1
    <2>3. QED
      BY <1>2, <2>2
  <1>5. near[0] = {s}
    <2>1. 0 \in 0..(D - 1)
      BY <1>1
    <2>2. ASSUME NEW q \in DOMAIN L, dist[q] = 0
          PROVE  q = s
      <3>1. Led(j, dist, q, 0)
        BY <1>2, <2>2
      <3>2. \A p \in DOMAIN L : dist[p] + 1 # 0
        BY <1>2
      <3>3. QED
        BY <3>1, <3>2 DEF Led
    <2>3. \A q \in DOMAIN L : dist[q] <= 0 => dist[q] = 0
      BY <1>2
    <2>4. QED
      BY <1>4, <2>1, <2>2, <2>3
  <1>6. ASSUME NEW d \in 1..(D - 1)
        PROVE  near[d] = Further(L, near[d - 1])
    <2>1. /\ d - 1 \in 0..(D - 1) /\ d \in 0..(D - 1) /\ d < D /\ d \in Nat
          /\ near[d] = {q \in DOMAIN L : dist[q] <= d}
          /\ near[d - 1] = {q \in DOMAIN L : dist[q] <= d - 1}
      BY <1>1
    <2> HIDE DEF near
    <2>2. ASSUME NEW q \in near[d]
          PROVE  q \in Further(L, near[d - 1])
      <3>1. q \in DOMAIN L /\ dist[q] <= d /\ dist[q] \in Nat
        BY <1>2, <2>1
      <3>2. CASE dist[q] <= d - 1
        BY <2>1, <3>1, <3>2 DEF Further
      <3>3. CASE dist[q] = d
        <4>1. Led(j, dist, q, d) /\ d # 0
          BY <1>2, <2>1, <3>1, <3>3
        <4>2. PICK p \in DOMAIN L : dist[p] + 1 = d /\ q \in Range(L[p])
          BY <4>1 DEF Led
        <4>3. dist[p] <= d - 1
          BY <1>2, <2>1, <4>2
        <4>4. p \in near[d - 1] \cap DOMAIN L
          BY <2>1, <4>3
        <4>5. QED
          BY <4>2, <4>4 DEF Further
      <3>4. QED
        BY <2>1, <3>1, <3>2, <3>3
    <2>3. ASSUME NEW q \in Further(L, near[d - 1])
          PROVE  q \in near[d]
      <3>1. CASE q \in near[d - 1]
        <4>1. q \in DOMAIN L /\ dist[q] <= d - 1 /\ dist[q] \in Nat
          BY <1>2, <2>1, <3>1
        <4>2. QED
          BY <2>1, <4>1
      <3>2. CASE \E p \in near[d - 1] \cap DOMAIN L : q \in Range(L[p])
        <4>1. PICK p \in near[d - 1] \cap DOMAIN L : q \in Range(L[p])
          BY <3>2
        <4>2. p \in DOMAIN L /\ dist[p] <= d - 1 /\ dist[p] \in Nat
          BY <1>2, <2>1
        <4>3. Reached(j, dist, q, dist[p] + 1)
          BY <4>1, <4>2 DEF Walks
        <4>4. ~(dist[p] + 1 >= D) /\ dist[p] + 1 <= d
          BY <1>1, <2>1, <4>2
        <4>5. q \in DOMAIN L /\ dist[q] <= dist[p] + 1
          BY <1>3, <4>3, <4>4
        <4>6. dist[q] <= d
          BY <1>2, <2>1, <4>2, <4>4, <4>5
        <4>7. QED
          BY <2>1, <4>5, <4>6
      <3>3. QED
        BY <3>1, <3>2 DEF Further
    <2>4. QED
      BY <2>2, <2>3
  <1>7. near[D - 1] = DOMAIN L
    <2>1. D - 1 \in 0..(D - 1) /\ \A q \in DOMAIN L : dist[q] <= D - 1
      BY <1>1, <1>2
    <2>2. QED
      BY <2>1
  <1>8. DOMAIN near = 0..(D - 1) /\ near = [d \in 0..(D - 1) |-> near[d]]
    OBVIOUS
  <1>9. DOMAIN far = 0..D /\ far = [d \in 0..D |-> far[d]] /\ far[D] = nodes
        /\ \A d \in 0..(D - 1) : far[d] = near[d]
    BY <1>1
  <1>10. GraphOf(j.id, L).nodes = nodes
    BY DEF GraphOf, Further
  <1> HIDE DEF near, far, nodes
  <1> DEFINE Grows(n, f) ==
               /\ DOMAIN f = 0..n /\ f = [d \in 0..n |-> f[d]] /\ f[0] = {s}
               /\ \A d \in 1..n : f[d] = Further(L, f[d - 1])
  <1> HIDE DEF L, s
  <1>11. \A n \in Nat : \A f : Grows(n, f) => Within(L, s, n) = f[n]
    BY WithinIs
  <1>12. Grows(D - 1, near)
    BY <1>5, <1>6, <1>8
  <1>13. Within(L, s, D - 1) = near[D - 1]
    <2> HIDE DEF Grows
    <2>1. QED
      BY <1>1, <1>11, <1>12
  <1>14. far[0] = {s} /\ \A d \in 1..D : far[d] = Further(L, far[d - 1])
    <2>1. 0 \in 0..(D - 1)
      BY <1>1
    <2>2. ASSUME NEW d \in 1..D
          PROVE  far[d] = Further(L, far[d - 1])
      <3>1. CASE d = D
        <4>1. D - 1 \in 0..(D - 1)
          BY <1>1
        <4>2. QED
          BY <1>7, <1>9, <3>1, <4>1 DEF nodes
      <3>2. CASE d # D
        <4>1. d \in 1..(D - 1) /\ d \in 0..(D - 1) /\ d - 1 \in 0..(D - 1)
          BY <1>1, <3>2
        <4>2. QED
          BY <1>6, <1>9, <4>1
      <3>3. QED
        BY <3>1, <3>2
    <2>3. QED
      BY <1>5, <1>9, <2>1, <2>2
  <1>15. Grows(D, far)
    BY <1>9, <1>14
  <1>16. Within(L, s, D) = far[D]
    <2> HIDE DEF Grows
    <2>1. QED
      BY <1>1, <1>11, <1>15
  <1>17. QED
    BY <1>7, <1>9, <1>10, <1>13, <1>16 DEF L, s

\* A walk is in order, and has still to expand the post whose file it has read.
Walking(j) ==
  j.op = "post" /\ Collecting(j) =>
     /\ \E dist : Walks(j, dist)
     /\ j.step \in {"read", "cached"} => ~Passed(j)

JobsWalk == \A w \in Proc : job[w] # None => Walking(job[w])

\* The inductive invariant: every walk is in order and every entry is whole.
WalkInv == JobsWalk /\ NeighbourhoodIsWhole

LEMMA WholeKept ==
  ASSUME NeighbourhoodIsWhole,
         \A key \in DOMAIN cache' :
            key[1] = "post" => key \in DOMAIN cache /\ cache'[key].value = cache[key].value
  PROVE  NeighbourhoodIsWhole'
  BY DEF NeighbourhoodIsWhole, Value

LEMMA WalkMoves ==
  ASSUME JobsWalk, NEW w \in Proc, Moved(w, job'[w]), job'[w] # None => Walking(job'[w])
  PROVE  JobsWalk'
  BY DEF JobsWalk, Moved

LEMMA TakenWalks ==
  ASSUME TypeInv, JobsWalk, NEW w \in Proc, NEW links \in Lists, Takes(w, links),
         job[w].todo # <<>>, Collecting(job[w]), job[w].op = "post" => ~Passed(job[w])
  PROVE  JobsWalk'
  <1>1. /\ Moved(w, job'[w]) /\ job[w] # None /\ job'[w] # None /\ job[w] \in Job
        /\ Shaped(job[w]) /\ Same(job'[w], job[w]) /\ job'[w].step = "next"
    BY Worker DEF Takes, TypeInv
  <1>2. CASE job[w].op # "post"
    <2>1. job'[w].op # "post"
      BY <1>1, <1>2 DEF Same
    <2>2. QED
      BY <1>1, <2>1, WalkMoves DEF Walking
  <1>3. CASE job[w].op = "post"
    <2>1. PICK dist : Walks(job[w], dist)
      BY <1>1, <1>3 DEF JobsWalk, Walking
    <2>2. PICK p : p = Normal(Head(job[w].todo)[1])
      OBVIOUS
    <2>3. /\ DOMAIN job'[w].got = DOMAIN job[w].got \cup {p} /\ job'[w].got[p] = links
          /\ \A q \in DOMAIN job[w].got \ {p} : job'[w].got[q] = job[w].got[q]
          /\ job'[w].todo = Queue(job[w].todo, links)
      BY <1>3, <2>2 DEF Takes, Current
    <2>4. \E far : Walks(job'[w], far)
      BY <1>1, <1>3, <2>1, <2>2, <2>3, TakeWalks
    <2>5. QED
      BY <1>1, <2>4, WalkMoves DEF Walking
  <1>4. QED
    BY <1>2, <1>3

LEMMA GoneWalks ==
  ASSUME TypeInv, JobsWalk, NEW w \in Proc, NEW stage \in {"read", "cached"}, Goes(w, stage),
         Collecting(job[w]), job[w].op = "post" => ~Passed(job[w])
  PROVE  JobsWalk'
  <1>1. /\ Moved(w, job'[w]) /\ job[w] # None /\ job'[w] # None /\ Same(job'[w], job[w])
        /\ job'[w].todo = job[w].todo /\ job'[w].got = job[w].got
    BY DEF Goes
  <1>2. job'[w].op = job[w].op /\ job'[w].key = job[w].key
    BY <1>1 DEF Same
  <1>3. \A dist : Walks(job[w], dist) => Walks(job'[w], dist)
    BY <1>1, <1>2 DEF Walks, Reached, Led
  <1>4. Passed(job'[w]) <=> Passed(job[w])
    BY <1>1, <1>2 DEF Passed
  <1>5. job[w].op = "post" => \E dist : Walks(job[w], dist)
    BY <1>1 DEF JobsWalk, Walking
  <1>6. QED
    BY <1>1, <1>2, <1>3, <1>4, <1>5, WalkMoves DEF Walking

LEMMA BuildWalks ==
  ASSUME TypeInv, WalkInv, NEW w \in Proc,
         Skip(w) \/ UseCached(w) \/ ReadPost(w) \/ CacheLinks(w) \/ CacheMeta(w)
  PROVE  WalkInv'
  <1> DEFINE name == Current(w)[1]
  <1>1. CASE Skip(w)
    <2>1. /\ Moved(w, job'[w]) /\ job[w] # None /\ job'[w] # None /\ Same(job'[w], job[w])
          /\ job[w].step = "next" /\ job'[w].step = "next" /\ job'[w].got = job[w].got
          /\ job[w].op = "post" /\ job[w].todo # <<>> /\ job'[w].todo = Tail(job[w].todo)
          /\ cache' = cache /\ job[w] \in Job /\ Shaped(job[w]) /\ Passed(job[w])
      BY <1>1, SkipFacts, Worker DEF TypeInv, Skip, Skipped, Passed, Current
    <2>2. PICK dist : Walks(job[w], dist)
      BY <2>1 DEF WalkInv, JobsWalk, Walking, Collecting
    <2>3. Walks(job'[w], dist)
      BY <2>1, <2>2, SkipWalks
    <2>4. JobsWalk'
      BY <2>1, <2>3, WalkMoves DEF WalkInv, Walking
    <2>5. QED
      BY <2>1, <2>4, WholeKept DEF WalkInv
  <1>2. CASE UseCached(w)
    <2>1. /\ Takes(w, Value(LinksKey(name))) /\ Cached(LinksKey(name)) /\ cache' = cache
      BY <1>2, UseCachedFacts
    <2>2. job[w].todo # <<>> /\ Collecting(job[w]) /\ (job[w].op = "post" => ~Passed(job[w]))
      BY <1>2 DEF UseCached, Building, Collecting, Skipped, Passed, Current
    <2>3. Value(LinksKey(name)) \in Lists
      BY <2>1, Held DEF TypeInv, CacheOK, Cached
    <2>4. JobsWalk'
      BY <2>1, <2>2, <2>3, TakenWalks DEF WalkInv
    <2>5. QED
      BY <2>1, <2>4, WholeKept DEF WalkInv
  <1>3. CASE ReadPost(w)
    <2>1. cache' = cache /\ (Goes(w, "read") \/ Takes(w, <<>>))
      BY <1>3, ReadPostFacts
    <2>2. job[w].todo # <<>> /\ Collecting(job[w]) /\ (job[w].op = "post" => ~Passed(job[w]))
      BY <1>3 DEF ReadPost, Building, Collecting, Skipped, Passed, Current
    <2>3. JobsWalk'
      BY <2>1, <2>2, TakenWalks, GoneWalks, ListsFacts DEF WalkInv
    <2>4. QED
      BY <2>1, <2>3, WholeKept DEF WalkInv
  <1>4. CASE CacheLinks(w)
    <2>1. Goes(w, "cached") /\ Entered(LinksKey(name), Site[job[w].release][name])
          /\ job[w].step = "read"
      BY <1>4, CacheLinksFacts
    <2>2. Collecting(job[w]) /\ (job[w].op = "post" => ~Passed(job[w]))
      BY <2>1 DEF Collecting, Goes, WalkInv, JobsWalk, Walking
    <2>3. JobsWalk'
      BY <2>1, <2>2, GoneWalks DEF WalkInv
    <2>4. NeighbourhoodIsWhole'
      BY <2>1, KeyKinds, WholeKept DEF WalkInv, Entered
    <2>5. QED
      BY <2>3, <2>4 DEF WalkInv
  <1>5. CASE CacheMeta(w)
    <2>1. /\ Takes(w, Site[job[w].release][name]) /\ Entered(MetaKey(name), job[w].release)
          /\ job[w].step = "cached" /\ name \in PostsOf(job[w].release)
      BY <1>5, CacheMetaFacts
    <2>2. job[w] # None /\ job[w].todo # <<>> /\ job[w] \in Job
      BY <1>5, Worker DEF CacheMeta, Building, TypeInv
    <2>3. Collecting(job[w]) /\ (job[w].op = "post" => ~Passed(job[w]))
      BY <2>1, <2>2 DEF Collecting, WalkInv, JobsWalk, Walking
    <2>4. Site[job[w].release][name] \in Lists
      BY <2>1, <2>2, JobFacts, SiteFacts
    <2>5. JobsWalk'
      BY <2>1, <2>2, <2>3, <2>4, TakenWalks DEF WalkInv
    <2>6. NeighbourhoodIsWhole'
      BY <2>1, KeyKinds, WholeKept DEF WalkInv, Entered
    <2>7. QED
      BY <2>5, <2>6 DEF WalkInv
  <1>6. QED
    BY <1>1, <1>2, <1>3, <1>4, <1>5

LEMMA FinishWalks ==
  ASSUME TypeInv, WalkInv, NEW w \in Proc, Finish(w)
  PROVE  WalkInv'
  <1> DEFINE j == job[w]
             graph == GraphOf(j.id, j.got)
  <1>1. /\ j # None /\ j.todo = <<>> /\ j.step = "next" /\ Entered(j.key, graph)
        /\ j \in Job /\ Shaped(j) /\ (Goes(w, "hash") \/ Moved(w, None))
    BY FinishFacts, Worker DEF TypeInv
  <1>2. Moved(w, job'[w]) /\ (job'[w] # None => ~Collecting(job'[w]))
    BY <1>1 DEF Goes, Moved, Collecting
  <1>3. JobsWalk'
    BY <1>2, WalkMoves DEF WalkInv, Walking
  <1>4. ASSUME NEW key \in DOMAIN cache', key[1] = "post", key[3] > 0
        PROVE  /\ DOMAIN cache'[key].value.links
                    = Within(cache'[key].value.links, key[2], key[3] - 1)
               /\ cache'[key].value.nodes = Within(cache'[key].value.links, key[2], key[3])
    <2>1. CASE key = j.key
      <3>1. j.op = "post" /\ Collecting(j)
        BY <1>1, <1>4, <2>1 DEF Shaped, Collecting
      <3>2. PICK dist : Walks(j, dist)
        BY <1>1, <3>1 DEF WalkInv, JobsWalk, Walking
      <3>3. /\ DOMAIN j.got = Within(j.got, key[2], key[3] - 1)
            /\ graph.nodes = Within(j.got, key[2], key[3])
        BY <1>1, <1>4, <2>1, <3>1, <3>2, WalkedWhole
      <3>4. cache'[key].value = graph /\ graph.links = j.got
        BY <1>1, <2>1 DEF Entered, GraphOf
      <3>5. QED
        BY <3>3, <3>4
    <2>2. CASE key # j.key
      <3>1. key \in DOMAIN cache /\ cache'[key] = cache[key]
        BY <1>1, <2>2 DEF Entered
      <3>2. QED
        BY <1>4, <3>1 DEF WalkInv, NeighbourhoodIsWhole, Value
    <2>3. QED
      BY <2>1, <2>2
  <1>5. NeighbourhoodIsWhole'
    BY <1>4 DEF NeighbourhoodIsWhole, Value
  <1>6. QED
    BY <1>3, <1>5 DEF WalkInv

\* Only GetPostConnections starts a walk, from the post asked for.
LEMMA StartWalks ==
  ASSUME TypeInv, WalkInv, NEW w \in Proc, Starts(w)
  PROVE  WalkInv'
  <1>1. /\ Moved(w, job'[w]) /\ DOMAIN cache' \subseteq DOMAIN cache
        /\ \A key \in DOMAIN cache' : cache'[key] = cache[key]
    BY StartSteps DEF Aside
  <1>2. Walking(job'[w])
    <2>1. CASE \E ask \in Asked : GetPostConnections(w, ask[1], ask[2])
      <3>1. PICK ask \in Asked : GetPostConnections(w, ask[1], ask[2])
        BY <2>1
      <3>2. /\ job'[w].todo = <<<<ask[1], 0>>>> /\ job'[w].key = PostKey(ask[1], ask[2])
            /\ job'[w].step = "next" /\ DOMAIN job'[w].got = {}
        BY <3>1, ConnectionsFacts DEF Begins
      <3>3. /\ job'[w].key[2] = Normal(ask[1]) /\ DOMAIN job'[w].todo = {1}
            /\ job'[w].todo[1] = <<ask[1], 0>>
        BY <3>2, KeyKinds
      <3>4. Walks(job'[w], [q \in {} |-> 0])
        BY <3>2, <3>3 DEF Walks, Reached, Led
      <3>5. QED
        BY <3>2, <3>4 DEF Walking
    <2>2. CASE \E force \in BOOLEAN : BuildCompleteGraph(w, force)
      BY <2>2, BuildFacts DEF Begins, Walking
    <2>3. CASE RebuildCommand(w)
      BY <2>3, CommandFacts DEF Begins, Walking
    <2>4. CASE TakeScreenshot(w)
      BY <2>4, TakeFacts DEF Begins, Walking, Collecting
    <2>5. QED
      BY <2>1, <2>2, <2>3, <2>4 DEF Starts, KnowledgeGraphApi, RebuildTask
  <1>3. QED
    BY <1>1, <1>2, WalkMoves, WholeKept DEF WalkInv

LEMMA ShotWalks ==
  ASSUME TypeInv, WalkInv, NEW w \in Proc, LookUpPicture(w) \/ SaveImage(w) \/ Die(w)
  PROVE  WalkInv'
  <1>1. /\ cache' = cache /\ Moved(w, job'[w])
        /\ job'[w] # None => job'[w].step \in {"create", "update"}
    <2>1. CASE LookUpPicture(w)
      BY <2>1, LookUpFacts DEF Goes, Moved
    <2>2. CASE SaveImage(w)
      BY <2>2, SaveFacts DEF Moved
    <2>3. CASE Die(w)
      BY <2>3, DieFacts DEF Moved
    <2>4. QED
      BY <2>1, <2>2, <2>3
  <1>2. QED
    BY <1>1, WalkMoves, WholeKept DEF WalkInv, Walking, Collecting

LEMMA NextWalk == TypeInv /\ WalkInv /\ [GraphNext]_graphVars => WalkInv'
  <1> SUFFICES ASSUME TypeInv, WalkInv, [GraphNext]_graphVars
               PROVE  WalkInv'
    OBVIOUS
  <1>1. ASSUME NEW w \in Proc, Builds(w) \/ Starts(w)
        PROVE  WalkInv'
    BY <1>1, BuildWalks, FinishWalks, StartWalks DEF Builds
  <1>2. ASSUME NEW w \in Proc, LookUpPicture(w) \/ SaveImage(w) \/ Die(w)
        PROVE  WalkInv'
    BY <1>2, ShotWalks
  <1>3. ASSUME NEW r \in Release, Deploy(r)
        PROVE  WalkInv'
    <2>1. cache' = cache /\ job' = job
      BY <1>3, DeployFacts
    <2>2. QED
      BY <2>1, WholeKept DEF WalkInv, JobsWalk
  <1>4. CASE Tick
    <2>1. /\ job' = job /\ DOMAIN cache' \subseteq DOMAIN cache
          /\ \A key \in DOMAIN cache' : cache'[key].value = cache[key].value
      BY <1>4, TickFacts
    <2>2. QED
      BY <2>1, WholeKept DEF WalkInv, JobsWalk
  <1>5. CASE UNCHANGED graphVars
    <2>1. cache' = cache /\ job' = job
      BY <1>5 DEF graphVars
    <2>2. QED
      BY <2>1, WholeKept DEF WalkInv, JobsWalk
  <1>6. QED
    BY <1>1, <1>2, <1>3, <1>4, <1>5 DEF GraphNext, ScreenshotTask, Builds, Starts

\* A neighbourhood has expanded the posts nearer than its depth, all of them and
\* no other, and shows those as far as its depth.
THEOREM NeighbourhoodsAreWhole == GraphSpec => []NeighbourhoodIsWhole
  <1>1. GraphInit => WalkInv
    <2> SUFFICES ASSUME GraphInit
                 PROVE  WalkInv
      OBVIOUS
    <2>1. DOMAIN cache = {} /\ \A w \in Proc : job[w] = None
      BY NoLinks DEF GraphInit
    <2>2. QED
      BY <2>1 DEF WalkInv, JobsWalk, NeighbourhoodIsWhole
  <1>2. WalkInv => NeighbourhoodIsWhole
    BY DEF WalkInv
  <1>3. QED
    BY <1>1, <1>2, NextWalk, TypeInvHolds, PTL DEF GraphSpec
===============================================================================

------------------------------ MODULE Comments ------------------------------
(***************************************************************************)
(* Comments on blog posts (src/blog): threads, moderation, deletion, and   *)
(* votes with the counts cached on the comment.  Every request runs in     *)
(* autocommit, so another request may run between any two of its           *)
(* statements: between the lookup of a vote and its change, and between    *)
(* counting the votes and saving the counts.                               *)
(*                                                                         *)
(* A vote row is known by its number.  Saving an instance whose row is     *)
(* gone inserts it again, as Django's Model.save does; saving some of its  *)
(* fields fails.                                                           *)
(***************************************************************************)
EXTENDS Integers, FiniteSets

CONSTANTS
    Comment,      \* comments that may be posted
    User,         \* users who may vote
    Web,          \* requests that may be half done at the same time
    NoComment,    \* no parent, or no comment loaded
    NoVote,       \* no vote loaded
    NoUser,       \* the request is not a vote
    AdminEdits,   \* what staff edit in the admin site: "comment", "user"
    MaxVotes,     \* bound: votes inserted
    MaxRequests,  \* bound: requests
    MaxFaults     \* bound: requests cut off

ASSUME BoundAssumption ==
    MaxVotes \in Nat /\ MaxRequests \in Nat /\ MaxFaults \in Nat

ASSUME UserAssumption == IsFiniteSet(User)

Status == {"pending", "approved", "rejected", "spam"}

VoteType == {"upvote", "downvote"}

\* Number 0 is that of a vote that has no row yet.
Vote == [id : 0..MaxVotes, comment : Comment, user : User, type : VoteType]

ASSUME SentinelAssumption == 
    NoComment \notin Comment /\ NoVote \notin Vote /\ NoUser \notin User

Counts == [upvotes : Nat, downvotes : Nat]

Steps == {"idle", "reply", "form", "look", "remove", "change", "create",
          "count", "write", "recount", "rewrite"}

VARIABLES
    status,     \* status[c]: a Status, or that c is "unposted" or "deleted"
    parent,     \* parent[c]: the comment that c replies to
    counts,     \* counts[c]: the cached counts; the score is their difference
    votes,      \* the rows of CommentVote
    issued,     \* votes inserted so far
    members,    \* users who have an account
    step,       \* step[w]: what a request goes on to do
    about,      \* about[w]: the comment it loaded
    voter,      \* voter[w]: the user who votes with it
    held,       \* held[w]: the vote it goes on to write, or to delete
    seen,       \* seen[w]: the counts it goes on to save
    disturbed,  \* history: comments whose last writer left wrong counts behind
    requests,   \* requests so far
    faults      \* faults so far

comments == <<status, parent, counts>>
ballots == <<votes, issued>>
web == <<step, about, voter, held, seen>>
vars == <<comments, ballots, members, web, disturbed, requests, faults>>

Live == {c \in Comment : status[c] \in Status}

-----------------------------------------------------------------------------
(* Threads and votes.                                                       *)

Replies(S) == {c \in Live : parent[c] \in S}

\* What deleting c deletes: every set that holds c and all replies to its members
\* holds it.
Cascade(c) ==
    {d \in Live : \A S \in SUBSET Live : c \in S /\ Replies(S) \subseteq S => d \in S}

VotesOn(c, type) == {v \in votes : v.comment = c /\ v.type = type}

NoCounts == [upvotes |-> 0, downvotes |-> 0]

\* update_vote_counts: what it counts.
Tally(c) == [upvotes |-> Cardinality(VotesOn(c, "upvote")),
             downvotes |-> Cardinality(VotesOn(c, "downvote"))]

\* The rows of a user on a comment: at most one, as the pair is unique.
VoteOf(u, c) == {v \in votes : v.user = u /\ v.comment = c}

\* Mutant: the pair is not unique.
MayInsertAnyway(v) == v.comment \in Live /\ v.user \in members

\* The constraints on a new row: its comment and user exist, the pair is unique.
MayInsert(v) ==
    /\ v.comment \in Live
    /\ v.user \in members
    /\ VoteOf(v.user, v.comment) = {}

-----------------------------------------------------------------------------
(* Requests.                                                                *)

CountRequest == requests < MaxRequests /\ requests' = requests + 1

\* A request loads a comment and has more steps to do.
Load(w, next, c) ==
    /\ CountRequest
    /\ step[w] = "idle"
    /\ step' = [step EXCEPT ![w] = next]
    /\ about' = [about EXCEPT ![w] = c]

Proceed(w, next) == step' = [step EXCEPT ![w] = next]

\* The request ends, with its response or with an error.
End(w) ==
    /\ Proceed(w, "idle")
    /\ about' = [about EXCEPT ![w] = NoComment]
    /\ voter' = [voter EXCEPT ![w] = NoUser]
    /\ held' = [held EXCEPT ![w] = NoVote]
    /\ seen' = [seen EXCEPT ![w] = NoCounts]
    /\ UNCHANGED requests

\* The last writer of c leaves these counts: are they those of the votes?
Note(c, left) ==
    disturbed' = IF left = Tally(c) THEN disturbed \ {c} ELSE disturbed \cup {c}

-----------------------------------------------------------------------------
(* Posting, moderating and deleting.                                        *)

\* CommentForm.save: a comment of staff is approved at once, others wait.
Insert(c, p) ==
    /\ status[c] = "unposted"
    /\ \E s \in {"approved", "pending"} : status' = [status EXCEPT ![c] = s]
    /\ parent' = [parent EXCEPT ![c] = p]
    /\ UNCHANGED counts

Submit(c) ==
    /\ CountRequest
    /\ Insert(c, NoComment)
    /\ UNCHANGED <<ballots, members, web, disturbed, faults>>

\* reply_to_comment loads the parent, which must be approved.
LoadParent(w, c) ==
    /\ status[c] = "approved"
    /\ Load(w, "reply", c)
    /\ UNCHANGED <<voter, held, seen, comments, ballots, members, disturbed, faults>>

\* The reply is inserted whatever became of the parent, unless it is gone.
SaveReply(w) ==
    /\ step[w] = "reply"
    /\ End(w)
    /\ IF about[w] \in Live
       THEN \E c \in Comment : Insert(c, about[w])
       ELSE UNCHANGED comments
    /\ UNCHANGED <<ballots, members, disturbed, faults>>

\* approve, reject and mark_as_spam, from the site or as bulk actions.
Moderate(c, s) ==
    /\ CountRequest
    /\ c \in Live
    /\ s \in {"approved", "rejected", "spam"}
    /\ status' = [status EXCEPT ![c] = s]
    /\ UNCHANGED <<parent, counts, ballots, members, web, disturbed, faults>>

\* The admin form of a comment: the instance is loaded, with its counts.
LoadForm(w, c) ==
    /\ "comment" \in AdminEdits
    /\ c \in Live
    /\ Load(w, "form", c)
    /\ seen' = [seen EXCEPT ![w] = counts[c]]
    /\ UNCHANGED <<voter, held, comments, ballots, members, disturbed, faults>>

\* The whole instance is saved, with the status and parent of the form and the
\* counts as they were loaded; it is inserted again when its row is gone.
SaveForm(w) ==
    /\ step[w] = "form"
    /\ End(w)
    /\ LET c == about[w]
       IN  /\ \E s \in Status : status' = [status EXCEPT ![c] = s]
           /\ \E p \in Live \cup {c, NoComment} : parent' = [parent EXCEPT ![c] = p]
           /\ counts' = [counts EXCEPT ![c] = seen[w]]
           /\ Note(c, seen[w])
    /\ UNCHANGED <<ballots, members, faults>>

\* A comment is deleted, with its replies and the votes on any of them.
Delete(c) ==
    /\ CountRequest
    /\ c \in Live
    /\ LET gone == Cascade(c)
       IN  /\ status' = [d \in Comment |-> IF d \in gone THEN "deleted" ELSE status[d]]
           /\ parent' = [d \in Comment |-> IF d \in gone THEN NoComment ELSE parent[d]]
           /\ counts' = [d \in Comment |-> IF d \in gone THEN NoCounts ELSE counts[d]]
           /\ votes' = {v \in votes : v.comment \notin gone}
           /\ disturbed' = disturbed \ gone
    /\ UNCHANGED <<issued, members, web, faults>>

\* A user is deleted, with his votes: nothing counts the votes again.
DeleteUser(u) ==
    /\ "user" \in AdminEdits
    /\ CountRequest
    /\ u \in members
    /\ members' = members \ {u}
    /\ votes' = {v \in votes : v.user # u}
    /\ disturbed' = disturbed \cup {v.comment : v \in votes \ votes'}
    /\ UNCHANGED <<comments, issued, web, faults>>

-----------------------------------------------------------------------------
(* Voting.                                                                  *)

\* vote_comment loads the comment, which must be approved.
LoadComment(w, u, c, type) ==
    /\ u \in members
    /\ status[c] = "approved"
    /\ Load(w, "look", c)
    /\ voter' = [voter EXCEPT ![w] = u]
    /\ held' = [held EXCEPT ![w] = [id |-> 0, comment |-> c, user |-> u, type |-> type]]
    /\ UNCHANGED <<seen, comments, ballots, members, disturbed, faults>>

\* It looks for the user's vote: the same one is removed, another one changed.
LookUp(w) ==
    /\ step[w] = "look"
    /\ LET found == VoteOf(voter[w], about[w])
           type == held[w].type
       IN  \/ /\ found = {}
              /\ Proceed(w, "create")
              /\ UNCHANGED held
           \/ \E v \in found :
                 /\ Proceed(w, IF v.type = type THEN "remove" ELSE "change")
                 /\ held' = [held EXCEPT ![w] = [v EXCEPT !.type = type]]
    /\ UNCHANGED <<comments, ballots, members, about, voter, seen, disturbed,
                   requests, faults>>

\* Mutant: a vote that is removed is not followed by a count.
RemoveAndEnd(w) ==
    /\ step[w] = "remove"
    /\ votes' = {v \in votes : v.id # held[w].id}
    /\ End(w)
    /\ UNCHANGED <<comments, issued, members, disturbed, faults>>

RemoveVote(w) ==
    /\ step[w] = "remove"
    /\ votes' = {v \in votes : v.id # held[w].id}
    /\ Proceed(w, "recount")
    /\ UNCHANGED <<comments, issued, members, about, voter, held, seen, disturbed,
                   requests, faults>>

\* The vote was changed or created: CommentVote.save counts, then the view does.
Cast(w, rows) ==
    /\ votes' = rows
    /\ Proceed(w, "count")
    /\ UNCHANGED <<about, voter, held, seen, requests>>

Refuse(w) == End(w) /\ UNCHANGED votes

Change(w) ==
    /\ step[w] = "change"
    /\ LET others == {v \in votes : v.id # held[w].id}
       IN  IF others # votes \/ MayInsert(held[w])
           THEN Cast(w, others \cup {held[w]})
           ELSE Refuse(w)
    /\ UNCHANGED <<comments, issued, members, disturbed, faults>>

Create(w) ==
    /\ step[w] = "create"
    /\ IF MayInsert(held[w])
       THEN /\ issued < MaxVotes
            /\ issued' = issued + 1
            /\ Cast(w, votes \cup {[held[w] EXCEPT !.id = issued + 1]})
       ELSE Refuse(w) /\ UNCHANGED issued
    /\ UNCHANGED <<comments, members, disturbed, faults>>

\* update_vote_counts: the votes are counted, ...
CountVotes(w) ==
    /\ step[w] \in {"count", "recount"}
    /\ Proceed(w, IF step[w] = "count" THEN "write" ELSE "rewrite")
    /\ seen' = [seen EXCEPT ![w] = Tally(about[w])]
    /\ UNCHANGED <<comments, ballots, members, about, voter, held, disturbed,
                   requests, faults>>

\* ... and the counts are saved.  The request fails when the comment is gone.
WriteCounts(w) ==
    /\ step[w] \in {"write", "rewrite"}
    /\ LET c == about[w]
       IN  IF c \in Live
           THEN /\ counts' = [counts EXCEPT ![c] = seen[w]]
                /\ Note(c, seen[w])
                /\ IF step[w] = "write"
                   THEN Proceed(w, "recount") /\ UNCHANGED <<about, voter, held,
                                                             seen, requests>>
                   ELSE End(w)
           ELSE End(w) /\ UNCHANGED <<counts, disturbed>>
    /\ UNCHANGED <<status, parent, ballots, members, faults>>

\* The process that serves the request dies: what it committed stays.
Abandon(w) ==
    /\ faults < MaxFaults
    /\ step[w] # "idle"
    /\ faults' = faults + 1
    /\ Note(about[w], counts[about[w]])
    /\ End(w)
    /\ UNCHANGED <<comments, ballots, members>>

-----------------------------------------------------------------------------

Init ==
    /\ status = [c \in Comment |-> "unposted"]
    /\ parent = [c \in Comment |-> NoComment]
    /\ counts = [c \in Comment |-> NoCounts]
    /\ votes = {}
    /\ issued = 0
    /\ members = User
    /\ step = [w \in Web |-> "idle"]
    /\ about = [w \in Web |-> NoComment]
    /\ voter = [w \in Web |-> NoUser]
    /\ held = [w \in Web |-> NoVote]
    /\ seen = [w \in Web |-> NoCounts]
    /\ disturbed = {}
    /\ requests = 0
    /\ faults = 0

Staff ==
    \/ \E c \in Comment : Delete(c) \/ \E s \in Status : Moderate(c, s)
    \/ \E u \in User : DeleteUser(u)

Visit(w, c) ==
    \/ LoadParent(w, c)
    \/ LoadForm(w, c)
    \/ \E u \in User, type \in VoteType : LoadComment(w, u, c, type)

Continue(w) ==
    \/ SaveReply(w)
    \/ SaveForm(w)
    \/ LookUp(w)
    \/ RemoveVote(w)
    \/ Change(w)
    \/ Create(w)
    \/ CountVotes(w)
    \/ WriteCounts(w)
    \/ Abandon(w)

Next ==
    \/ Staff
    \/ \E c \in Comment : Submit(c) \/ \E w \in Web : Visit(w, c)
    \/ \E w \in Web : Continue(w)

Spec == Init /\ [][Next]_vars

-----------------------------------------------------------------------------
(* Properties.                                                              *)

TypeOK ==
    /\ status \in [Comment -> Status \cup {"unposted", "deleted"}]
    /\ parent \in [Comment -> Comment \cup {NoComment}]
    /\ counts \in [Comment -> Counts]
    /\ votes \subseteq Vote
    /\ issued \in 0..MaxVotes
    /\ members \subseteq User
    /\ step \in [Web -> Steps]
    /\ about \in [Web -> Comment \cup {NoComment}]
    /\ voter \in [Web -> User \cup {NoUser}]
    /\ held \in [Web -> Vote \cup {NoVote}]
    /\ seen \in [Web -> Counts]
    /\ disturbed \subseteq Comment
    /\ requests \in 0..MaxRequests
    /\ faults \in 0..MaxFaults

\* One vote per user and comment, however two requests of one user interleave, and
\* also when a vote that was removed is inserted again by the request that changes it
\* (CommentVote.Meta.unique_together, vote_comment).
OneVotePerUser ==
    \A v, x \in votes : v.user = x.user /\ v.comment = x.comment => v = x

\* A comment that exists replies to one that exists, and a vote is on a comment that
\* exists, by a user who does (the cascades of BlogComment and CommentVote).
NothingDangles ==
    /\ \A c \in Live : parent[c] \in Live \cup {NoComment}
    /\ \A v \in votes : v.comment \in Live /\ v.user \in members

\* Every count that is shown or about to be saved was true of all the votes at one
\* instant: it never counts more votes than there are users, stale as it may be
\* (update_vote_counts counts both kinds in one query).
NoMoreVotesThanUsers ==
    \A n \in {counts[c] : c \in Comment} \cup {seen[w] : w \in Web} :
        n.upvotes + n.downvotes <= Cardinality(User)

Voting(c) == \E w \in Web : about[w] = c /\ step[w] \notin {"reply", "form"}

\* The counts of a comment that nobody is voting on are those of its votes, unless
\* the last request that wrote them had counted earlier votes or was cut off, or a
\* user with a vote on it was deleted: a vote that is cast, changed or removed is
\* always followed by a count (vote_comment, CommentVote.save).
SettledCounts ==
    \A c \in Live \ disturbed : Voting(c) \/ counts[c] = Tally(c)

\* The votes of a user on a comment change only by a request of that user on that
\* comment, or go when the comment or the user is deleted (vote_comment).
VotesAreTheUsers ==
    [][\A v \in (votes \ votes') \cup (votes' \ votes) :
          \/ v \notin votes' /\ (v.comment \notin Live' \/ v.user \notin members')
          \/ \E w \in Web :
                /\ step[w] \in {"remove", "change", "create"}
                /\ voter[w] = v.user
                /\ about[w] = v.comment]_votes

=============================================================================

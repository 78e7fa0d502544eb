CONSTANTS
    Comment = {c1, c2, c3}
    User = {u1, u2}
    Web = {w1, w2}
    NoComment = NoComment
    NoVote = NoVote
    NoUser = NoUser
    AdminEdits = {"comment", "user"}
    MaxVotes = 3
    MaxRequests = 5
    MaxFaults = 1
SPECIFICATION Spec
SYMMETRY Symmetry
CHECK_DEADLOCK FALSE
INVARIANTS
    OneVotePerUser
    SettledCounts

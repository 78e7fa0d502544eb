-------------------------- MODULE IngestionPromise --------------------------
(***************************************************************************)
(* What the sequential ingestion of candle files promises, whatever runs   *)
(* and failures it takes (src/feefifofunds): a file goes to the archive    *)
(* when the database has all of its rows of six fields or more, it is      *)
(* deleted when it counts as empty, and until then it waits.  Shorter rows *)
(* are no part of the promise: they are passed over.                       *)
(*                                                                         *)
(* The promise is void for a rushed file: one deposited under a name that  *)
(* a run was working on.                                                   *)
(***************************************************************************)

CONSTANTS
    File,      \* files that may be deposited
    Candle     \* candles that files hold

VARIABLES
    rows,      \* rows[f]: the candles in file f whose row has six fields or more
    sound,     \* files whose every such row can be read
    blank,     \* files that count as empty
    place,     \* place[f]: "new", "waiting", "archived", "deleted" or "overwritten"
    stored,    \* pairs <<f, c>>: the database has candle c of file f
    rushed     \* files deposited under a name that a run was working on

vars == <<rows, sound, blank, place, stored, rushed>>

AllStored(f) == f \in sound /\ \A c \in rows[f] : <<f, c>> \in stored

\* File f goes from one place to another; it may overwrite one that is there.
Go(f, from, to) ==
    /\ place[f] = from
    /\ \E g \in File :
          /\ g = f \/ place[g] = to
          /\ place' = [place EXCEPT ![g] = "overwritten", ![f] = to]

Init ==
    /\ rows \in [File -> SUBSET Candle]
    /\ sound \in SUBSET File
    /\ blank \in SUBSET File
    /\ place = [f \in File |-> "new"]
    /\ stored = {}
    /\ rushed = {}

Deposit(f) ==
    /\ Go(f, "new", "waiting")
    /\ rushed' \in {rushed, rushed \cup {f}}
    /\ UNCHANGED <<rows, sound, blank, stored>>

\* Some rows of a file reach the database: before it is archived, or again.
Store(f) ==
    /\ place[f] # "new"
    /\ \E S \in SUBSET rows[f] : stored' = stored \cup ({f} \X S)
    /\ UNCHANGED <<rows, sound, blank, place, rushed>>

Archive(f) ==
    /\ f \in rushed \/ AllStored(f)
    /\ Go(f, "waiting", "archived")
    /\ UNCHANGED <<rows, sound, blank, stored, rushed>>

Delete(f) ==
    /\ f \in rushed \/ f \in blank
    /\ place[f] = "waiting"
    /\ place' = [place EXCEPT ![f] = "deleted"]
    /\ UNCHANGED <<rows, sound, blank, stored, rushed>>

Next == \E f \in File : Deposit(f) \/ Store(f) \/ Archive(f) \/ Delete(f)

Spec == Init /\ [][Next]_vars
=============================================================================

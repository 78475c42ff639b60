--------------------------- MODULE CleanupLedger ---------------------------
(***************************************************************************)
(* What the cleanup lists of BaseSharesTest promise a test, with nothing   *)
(* said of how: every resource entered is pending until it is closed, an   *)
(* entry is closed at most once and never reopened, and the entries of one *)
(* list are closed in LIFO order of dependency: never while an entry that  *)
(* needs the resource is still pending.                                    *)
(***************************************************************************)

CONSTANTS
  Resources,   \* the resources the tests create
  Needs,       \* Needs[r]: the resources without which r cannot exist
  ClassScope   \* those entered in the list of the class, not of the method

VARIABLE book

SameList(r, s) == (r \in ClassScope) <=> (s \in ClassScope)

\* The entries of r's own list that must go before r.
Dependents(r) == {c \in Resources : r \in Needs[c] /\ SameList(c, r)}

Init == book = [r \in Resources |-> "unregistered"]

Register(r) ==
  /\ book[r] = "unregistered"
  /\ \A c \in Dependents(r) : book[c] = "unregistered"
  /\ book' = [book EXCEPT ![r] = "pending"]

Close(r) ==
  /\ book[r] = "pending"
  /\ \A c \in Dependents(r) : book[c] # "pending"
  /\ book' = [book EXCEPT ![r] = "closed"]

Next == \E r \in Resources : Register(r) \/ Close(r)

Spec == Init /\ [][Next]_book
=============================================================================

---------------------------- MODULE ClassTeardown ----------------------------
(***************************************************************************)
(* What is left when the classes of one worker end.  A class keeps three   *)
(* registers of what it made:                                              *)
(*   list:   class_resources of the API base classes, shared by all the    *)
(*           classes of the worker, newest first;                          *)
(*   users:  class_project_users_created of BaseSharesMixedTest, shared    *)
(*           by the classes derived from it, and never emptied;            *)
(*   stack:  the class cleanups the RBAC base registers with the runner,   *)
(*           which starts every class with an empty one.                   *)
(* resource_cleanup goes through users, if the class has them, then list,  *)
(* then stack, and what one of the first two raises keeps the next from    *)
(* being looked at.  The runner calls it only if setup_clients has         *)
(* succeeded, and revokes the credentials of the class afterwards.  A      *)
(* class that is skipped part way through its setup has no error, even if  *)
(* its teardown raises one.  One entry of the list is handled in more      *)
(* detail in ResourceCleanup.                                              *)
(***************************************************************************)
EXTENDS Integers, Sequences, SequencesExt

CONSTANTS
  Things,          \* the resources, users and projects the classes make
  Nothing,         \* not one of them
  NumClasses,      \* bound of the model: how many classes the worker runs
  Mixed,           \* the classes derived from BaseSharesMixedTest
  ClassOf,         \* the class that makes a thing
  Place,           \* how a thing is registered
  Early,           \* the things made in setup_clients
  Needs,           \* the things that cannot go before a thing has gone
  Owners,          \* the user and project whose client made a thing
  SuppressErrors,  \* CONF.share.suppress_errors_in_cleanup
  MaxFaults        \* bound of the model: requests that fail by themselves

\* "waited" is the stack after a wait, "raw" the stack without a wait for the
\* deletion: users and projects of the RBAC base.
ASSUME ClassTeardownAssumption ==
  /\ Nothing \notin Things
  /\ NumClasses \in Nat \ {0} /\ MaxFaults \in Nat
  /\ ClassOf \in [Things -> 1 .. NumClasses]
  /\ Place \in [Things -> {"list", "users", "stack", "waited", "raw"}]
  /\ \A r \in Things : Place[r] = "users" => ClassOf[r] \in Mixed
  /\ Early \subseteq Things
  /\ Needs \in [Things -> SUBSET Things]
  /\ Owners \in [Things -> SUBSET Things]
  /\ SuppressErrors \in BOOLEAN

VARIABLES
  class,     \* the class that is running
  phase,     \* "clients", "tests", then the stages of its teardown
  cloud,     \* what Manila and Keystone have of a thing
  list, users, stack,
  closed,    \* the entries of the list marked as deleted
  pos,       \* the position in users or list
  waiting,   \* the thing whose deletion is being waited for
  failed,    \* the classes in which something has raised, the teardown
             \* included, or whose resource_cleanup is not called
  skipped,   \* the classes that are skipped in their setup
  hushed,    \* things closed although an exception said otherwise
  faults

vars == <<class, phase, cloud, list, users, stack, closed, pos, waiting,
          failed, skipped, hushed, faults>>

Here(r)  == cloud[r] = "here"
Alive(r) == cloud[r] \in {"here", "deleting", "stuck"}
InUse(r) == \E x \in Things : r \in Needs[x] /\ Alive(x)

\* The credentials that delete a thing are still good.  They are those of the
\* client that made it; for users, of the administrator of the class at hand.
Works(r) ==
  Place[r] = "users" \/ (ClassOf[r] = class /\ \A o \in Owners[r] : Here(o))

\* The users that resource_cleanup of the class goes through.
Cleared == IF class \in Mixed THEN users ELSE <<>>

-----------------------------------------------------------------------------
(* Creation *)

Creatable(r) ==
  /\ cloud[r] = "absent" /\ ClassOf[r] = class
  /\ phase = IF r \in Early THEN "clients" ELSE "tests"
  /\ \A x \in Needs[r] \cup Owners[r] : Here(x)

\* Mutant: a callback is put below the one registered before it.
PushBelow(r) == IF stack = <<>> THEN <<r>> ELSE <<Head(stack), r>> \o Tail(stack)

Push(r) == <<r>> \o stack

\* Mutant: an entry is put at the end of the list, as a user is.
RegisterLast(r) ==
  /\ list' = IF Place[r] = "list" THEN Append(list, r) ELSE list
  /\ users' = IF Place[r] = "users" THEN Append(users, r) ELSE users
  /\ stack' = IF Place[r] \in {"stack", "waited", "raw"} THEN Push(r) ELSE stack

\* The thing enters the register that is kept for its kind.
Register(r) ==
  /\ list' = IF Place[r] = "list" THEN <<r>> \o list ELSE list
  /\ users' = IF Place[r] = "users" THEN Append(users, r) ELSE users
  /\ stack' = IF Place[r] \in {"stack", "waited", "raw"} THEN Push(r) ELSE stack

Create(r) ==
  /\ Creatable(r)
  /\ cloud' = [cloud EXCEPT ![r] = "here"]
  /\ Register(r)
  /\ UNCHANGED <<class, phase, closed, pos, waiting, failed, skipped, hushed,
                 faults>>

\* What is done after an error in setup_clients or in resource_setup, or in a
\* test: the teardown, without resource_cleanup in the first case; or, after
\* a test, the next one.
After ==
  IF phase = "clients" THEN phase' = "end" ELSE phase' \in {"tests", "users"}

\* The creation fails.  If the request was refused or its answer lost, nothing
\* is registered.  If it is the wait that fails, or the assignment of a role to
\* a user, what is registered before that is.
CreateFails(r) ==
  /\ Creatable(r)
  /\ faults < MaxFaults /\ faults' = faults + 1
  /\ \/ cloud' \in {cloud, [cloud EXCEPT ![r] = "here"]}
        /\ UNCHANGED <<list, users, stack>>
     \/ cloud' = [cloud EXCEPT ![r] = "here"]
        /\ Place[r] # "waited" /\ Register(r)
  /\ failed' = failed \cup {class}
  /\ After
  /\ pos' = 1
  /\ UNCHANGED <<class, closed, waiting, skipped, hushed>>

SetupDone ==
  /\ phase = "clients"
  /\ phase' = "tests"
  /\ UNCHANGED <<class, cloud, list, users, stack, closed, pos, waiting,
                 failed, skipped, hushed, faults>>

\* setUpClass is over, tearDownClass calls resource_cleanup.
TestsEnd ==
  /\ phase = "tests"
  /\ phase' = "users" /\ pos' = 1
  /\ UNCHANGED <<class, cloud, list, users, stack, closed, waiting, failed,
                 skipped, hushed, faults>>

\* The setup raises skipException.  provide_share_network does when it finds no
\* network for the share network it is to make; the class ends there.  After
\* setup_clients the runner goes on to resource_cleanup.  The classes with
\* class cleanups skip before they register one.
SkipClass ==
  /\ class \notin failed /\ stack = <<>>
  /\ \/ /\ phase = "clients"
        /\ \E r \in Early : Place[r] = "list" /\ Creatable(r)
        /\ phase' = "end" /\ failed' = failed \cup {class}
     \/ /\ phase = "tests"
        /\ phase' = "users" /\ UNCHANGED failed
  /\ skipped' = skipped \cup {class} /\ pos' = 1
  /\ UNCHANGED <<class, cloud, list, users, stack, closed, waiting, hushed,
                 faults>>

-----------------------------------------------------------------------------
(* Requests of the teardown.  What is handled ends in an exception, or in  *)
(* "none".                                                                 *)

\* The answer to a DELETE.  Users and projects go at once, and need not be
\* empty.  A service that remembers a token may still take it when it is no
\* longer good.
DeleteCall(r, answer) ==
  \/ /\ ~Works(r) /\ answer = "unauthorized"
     /\ UNCHANGED <<cloud, faults>>
  \/ /\ ~Alive(r) /\ answer = "not_found"
     /\ UNCHANGED <<cloud, faults>>
  \/ /\ Alive(r) /\ InUse(r) /\ answer \in {"forbidden", "conflict"}
     /\ UNCHANGED <<cloud, faults>>
  \/ /\ Alive(r) /\ ~InUse(r) /\ answer = "none"
     /\ cloud' = [cloud EXCEPT ![r] =
                    IF Place[r] \in {"users", "raw"} THEN "gone" ELSE "deleting"]
     /\ UNCHANGED faults
  \/ /\ Alive(r) /\ answer \in {"forbidden", "error"}
     /\ faults < MaxFaults /\ faults' = faults + 1
     /\ UNCHANGED cloud

\* How wait_for_resource_deletion ends.
AwaitCall(r, outcome) ==
  \/ ~Alive(r) /\ outcome = "none" /\ UNCHANGED faults
  \/ cloud[r] = "stuck" /\ outcome = "release_failed" /\ UNCHANGED faults
  \/ ~Works(r) /\ outcome = "unauthorized" /\ UNCHANGED faults
  \/ /\ cloud[r] = "deleting" /\ outcome = "timed_out"
     /\ faults < MaxFaults /\ faults' = faults + 1

Manila ==
  \E r \in Things :
    /\ cloud[r] = "deleting"
    /\ \/ cloud' = [cloud EXCEPT ![r] = "gone"] /\ UNCHANGED faults
       \/ /\ cloud' = [cloud EXCEPT ![r] = "stuck"]
          /\ faults < MaxFaults /\ faults' = faults + 1
    /\ UNCHANGED <<class, phase, list, users, stack, closed, pos, waiting,
                   failed, skipped, hushed>>

Harmless   == {"none", "not_found"}
Exceptions == {"forbidden", "conflict", "error", "unauthorized",
               "release_failed", "timed_out"}

\* handle_cleanup_exceptions.
Suppressed(exception) ==
  exception \in Harmless \cup {"forbidden"} \/ SuppressErrors

Hush(r, exception) ==
  hushed' = IF exception \in Harmless THEN hushed ELSE hushed \cup {r}

\* An exception leaves resource_cleanup: what it has not come to is left.
Abandon ==
  /\ phase' = "end"
  /\ failed' = failed \cup {class}

-----------------------------------------------------------------------------
(* The stages of resource_cleanup *)

DeleteUser ==
  /\ phase = "users" /\ pos <= Len(Cleared)
  /\ \E answer \in Harmless \cup Exceptions :
       /\ DeleteCall(Cleared[pos], answer)
       /\ IF Suppressed(answer)
            THEN /\ pos' = pos + 1 /\ Hush(Cleared[pos], answer)
                 /\ UNCHANGED <<phase, failed>>
            ELSE Abandon /\ UNCHANGED <<pos, hushed>>
  /\ UNCHANGED <<class, list, users, stack, closed, waiting, skipped>>

\* Mutant: the list is walked from index zero.
UsersDoneAtZero ==
  /\ phase = "users" /\ pos > Len(Cleared)
  /\ phase' = "list" /\ pos' = 0
  /\ UNCHANGED <<class, cloud, list, users, stack, closed, waiting, failed,
                 skipped, hushed, faults>>

UsersDone ==
  /\ phase = "users" /\ pos > Len(Cleared)
  /\ phase' = "list" /\ pos' = 1
  /\ UNCHANGED <<class, cloud, list, users, stack, closed, waiting, failed,
                 skipped, hushed, faults>>

AtEntry(r) ==
  phase = "list" /\ waiting = Nothing /\ pos <= Len(list) /\ r = list[pos]

SkipEntry ==
  /\ \E r \in closed : AtEntry(r)
  /\ pos' = pos + 1
  /\ UNCHANGED <<class, phase, cloud, list, users, stack, closed, waiting,
                 failed, skipped, hushed, faults>>

\* Mutant: the exception is logged, and the entry taken for done.
EntryEndsQuietly(r, exception) ==
  /\ closed' = closed \cup {r} /\ pos' = pos + 1
  /\ UNCHANGED <<phase, failed, hushed>>

\* A suppressed exception closes the entry; any other leaves resource_cleanup,
\* and closes the entry if its resource is in an error state.
EntryEnds(r, exception) ==
  IF Suppressed(exception)
    THEN /\ closed' = closed \cup {r} /\ pos' = pos + 1 /\ Hush(r, exception)
         /\ UNCHANGED <<phase, failed>>
    ELSE /\ closed' = IF exception = "release_failed" THEN closed \cup {r}
                                                      ELSE closed
         /\ Abandon /\ UNCHANGED <<pos, hushed>>

DeleteEntry ==
  /\ \E r \in Things \ closed, answer \in Harmless \cup Exceptions :
       /\ AtEntry(r) /\ DeleteCall(r, answer)
       /\ \/ /\ answer = "none" /\ waiting' = r
             /\ UNCHANGED <<phase, closed, pos, failed, hushed>>
          \/ /\ answer # "none" /\ EntryEnds(r, answer)
             /\ UNCHANGED waiting
  /\ UNCHANGED <<class, list, users, stack, skipped>>

AwaitEntry ==
  /\ phase = "list" /\ waiting # Nothing
  /\ \E outcome \in Harmless \cup Exceptions :
       AwaitCall(waiting, outcome) /\ EntryEnds(waiting, outcome)
  /\ waiting' = Nothing
  /\ UNCHANGED <<class, cloud, list, users, stack, skipped>>

ListDone ==
  /\ phase = "list" /\ waiting = Nothing /\ pos > Len(list)
  /\ phase' = "stack"
  /\ UNCHANGED <<class, cloud, list, users, stack, closed, pos, waiting,
                 failed, skipped, hushed, faults>>

\* What a callback raises is kept until all of them have been called.
Keep(exception) ==
  failed' = IF exception = "none" THEN failed ELSE failed \cup {class}

\* Mutant: a callback leaves the stack only once it has succeeded.
CallBackRetries ==
  /\ phase = "stack" /\ waiting = Nothing /\ stack # <<>>
  /\ LET r == Head(stack)
     IN  \E answer \in Harmless \cup Exceptions :
           /\ DeleteCall(r, answer)
           /\ IF Place[r] # "raw" /\ answer \in Harmless
                THEN waiting' = r /\ UNCHANGED failed
                ELSE Keep(answer) /\ UNCHANGED waiting
           /\ stack' = IF answer \in Harmless THEN Tail(stack) ELSE stack
  /\ UNCHANGED <<class, phase, list, users, closed, pos, skipped, hushed>>

\* delete_user and delete_project are callbacks themselves; delete_resource
\* passes over NotFound and waits.
CallBack ==
  /\ phase = "stack" /\ waiting = Nothing /\ stack # <<>>
  /\ LET r == Head(stack)
     IN  \E answer \in Harmless \cup Exceptions :
           /\ DeleteCall(r, answer)
           /\ IF Place[r] # "raw" /\ answer \in Harmless
                THEN waiting' = r /\ UNCHANGED failed
                ELSE Keep(answer) /\ UNCHANGED waiting
  /\ stack' = Tail(stack)
  /\ UNCHANGED <<class, phase, list, users, closed, pos, skipped, hushed>>

AwaitCallBack ==
  /\ phase = "stack" /\ waiting # Nothing
  /\ \E outcome \in Harmless \cup Exceptions :
       AwaitCall(waiting, outcome) /\ Keep(outcome)
  /\ waiting' = Nothing
  /\ UNCHANGED <<class, phase, cloud, list, users, stack, closed, pos, skipped,
                 hushed>>

StackDone ==
  /\ phase = "stack" /\ waiting = Nothing /\ stack = <<>>
  /\ phase' = "end"
  /\ UNCHANGED <<class, cloud, list, users, stack, closed, pos, waiting,
                 failed, skipped, hushed, faults>>

\* The next class of the worker starts with clients and a stack of its own.
NextClass ==
  /\ phase = "end" /\ class < NumClasses
  /\ class' = class + 1 /\ phase' = "clients" /\ stack' = <<>>
  /\ UNCHANGED <<cloud, list, users, closed, pos, waiting, failed, skipped,
                 hushed, faults>>

Worker ==
  \/ SetupDone \/ TestsEnd
  \/ DeleteUser \/ UsersDone
  \/ SkipEntry \/ DeleteEntry \/ AwaitEntry \/ ListDone
  \/ CallBack \/ AwaitCallBack \/ StackDone
  \/ NextClass

Init ==
  /\ class = 1 /\ phase = "clients"
  /\ cloud = [r \in Things |-> "absent"]
  /\ list = <<>> /\ users = <<>> /\ stack = <<>>
  /\ closed = {} /\ pos = 1 /\ waiting = Nothing
  /\ failed = {} /\ skipped = {} /\ hushed = {} /\ faults = 0

Next ==
  \/ \E r \in Things : Create(r) \/ CreateFails(r)
  \/ SkipClass \/ Worker \/ Manila

\* The runner never stops for good, and Manila ends what it has accepted.
Fairness == WF_vars(Worker) /\ WF_vars(Manila)

Spec == Init /\ [][Next]_vars /\ Fairness

-----------------------------------------------------------------------------
TypeOK ==
  /\ class \in 1 .. NumClasses
  /\ phase \in {"clients", "tests", "users", "list", "stack", "end"}
  /\ cloud \in [Things -> {"absent", "here", "deleting", "stuck", "gone"}]
  /\ list \in Seq(Things) /\ users \in Seq(Things) /\ stack \in Seq(Things)
  /\ closed \in SUBSET Things /\ hushed \in SUBSET Things
  /\ pos \in Nat \ {0}
  /\ waiting \in Things \cup {Nothing}
  /\ failed \in SUBSET (1 .. NumClasses)
  /\ skipped \in SUBSET (1 .. NumClasses)
  /\ faults \in 0 .. MaxFaults

\* Entries of the list that the next cleanup of the list would try.
Pending == ToSet(list) \ closed

\* When a class cleanup is called, nothing that is still registered needs its
\* thing or acts as its user: the callbacks registered later have been called,
\* and resource_cleanup has been through the list.
CleanedUpInOrder ==
  phase = "stack" /\ stack # <<>> =>
    \A x \in ToSet(Tail(stack)) \cup Pending :
      Head(stack) \notin Needs[x] \cup Owners[x]

\* The classes for which the runner has an error, and those in which something
\* failed or was not done without one: they count as skipped.
Reported == failed \ skipped
Unheard  == failed \cap skipped

\* A class that ends well, skipped or not, has left nothing behind but what was
\* suppressed or belongs to a class that did not, and has seen to the entries
\* of the list and, if it has users, to the users that the classes before it
\* left.  The skipped classes are the only ones to fail unheard of.
NoSilentLeak ==
  phase = "end" /\ class \notin Reported \cup Unheard =>
    \A r \in Things \ hushed :
      Alive(r) => /\ ClassOf[r] \in Reported \cup Unheard
                  /\ r \notin Pending \cup ToSet(Cleared)

\* The teardown of every class ends, and the worker gets to the last one.
WorkerEnds == <>(phase = "end" /\ class = NumClasses)

\* With a Manila that fails no request by itself, and no class skipped, the
\* class list is cleaned up in resource_cleanup.
CleanedUpInResourceCleanup ==
  phase = "end" /\ faults = 0 /\ skipped = {} => Pending = {}

\* Through all the classes of the worker, those included whose cleanup is
\* abandoned, the class list keeps the promise of the abstract ledger.
Listed == {r \in Things : Place[r] = "list"}

Ledger ==
  INSTANCE CleanupLedger WITH
    Resources <- Listed, ClassScope <- Listed,
    book <- [r \in Listed |-> CASE r \in closed    -> "closed"
                               [] r \in Pending   -> "pending"
                               [] OTHER           -> "unregistered"]

LedgerSpec == Ledger!Spec
=============================================================================

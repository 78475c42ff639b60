--------------------------- MODULE ReplicaPromotion ---------------------------
(***************************************************************************)
(* The tests that promote a replica, and what their cleanups make of it.   *)
(* Promotion exchanges the roles of the two replicas of a share: the one   *)
(* the test created becomes active, which Manila does not let go but with  *)
(* its share, and the original one becomes a replica like any other, which *)
(* has to go before the share.  A test may fail at any of its steps, so    *)
(* the cleanup meets the roles before the exchange, after it, and while it *)
(* is being made.                                                          *)
(*                                                                         *)
(* A test is a sequence of steps; each sends a request, or none, and waits *)
(* for what it names.  The share and the replica a test enters in a list   *)
(* are cleaned up as in ResourceCleanup, of which this module has what a   *)
(* share and its replicas need, with suppress_errors_in_cleanup off.       *)
(***************************************************************************)
EXTENDS Integers, Sequences

CONSTANTS
  Tests,      \* the tests that are run, fields of Script
  MaxRounds,  \* bound of the model: how often the method list is cleared
  MaxFaults   \* bound of the model: requests and jobs that fail by themselves

\* What the tests do, to the original replica ("old"), to the one they create
\* ("new") and to the share.  "create" enters the new replica in the method
\* list, "create_unlisted" (cleanup=False) does not; "register" is
\* addCleanup(delete_share_replica, ...); "sync" waits for in_sync; "reset" is
\* the administrator's reset of the state to out_of_sync.
Script ==
  [promote_out_of_sync |-> << <<"create_unlisted", "new">>, <<"sync", "new">>,
                              <<"reset", "new">>, <<"promote", "new">>,
                              <<"register", "old">> >>,
   promote_in_sync     |-> << <<"create_unlisted", "new">>, <<"sync", "new">>,
                              <<"promote", "new">>, <<"register", "old">> >>,
   snapshots           |-> << <<"create_unlisted", "new">>,
                              <<"register", "old">>, <<"sync", "new">>,
                              <<"promote", "new">>, <<"delete", "old">> >>,
   export_locations    |-> << <<"create_unlisted", "new">>, <<"sync", "new">>,
                              <<"promote", "new">>, <<"delete", "old">> >>,
   policy_lifecycle    |-> << <<"create_unlisted", "new">>, <<"sync", "new">>,
                              <<"promote", "new">>, <<"delete", "old">>,
                              <<"delete", "share">> >>,
   policy_promote_back |-> << <<"create_unlisted", "new">>, <<"sync", "new">>,
                              <<"promote", "new">>, <<"sync", "old">>,
                              <<"promote", "old">>, <<"sync", "new">>,
                              <<"delete", "new">>, <<"delete", "share">> >>,
   promote_back        |-> << <<"create", "new">>, <<"sync", "new">>,
                              <<"promote", "new">>, <<"sync", "old">>,
                              <<"promote", "old">>, <<"sync", "new">> >>]

ASSUME ReplicaPromotionAssumption ==
  /\ Tests \subseteq DOMAIN Script
  /\ MaxRounds \in Nat \ {0} /\ MaxFaults \in Nat

\* The tests whose share is of the method; the others leave it to the class.
ShareOfMethod == {"policy_lifecycle", "policy_promote_back"}

\* The tests whose own failure a decorator turns into a skip.
Unstable == {"promote_out_of_sync"}

Replicas == {"old", "new"}
Things   == Replicas \cup {"share"}
Other(r) == IF r = "old" THEN "new" ELSE "old"

VARIABLES
  test,      \* the test that is run
  phase,     \* "test", "callbacks", "method", "class", "end"
  step,      \* the number of its next step
  waiting,   \* what is being waited for, as <<goal, thing>>, or <<>>
  cloud,     \* Manila's state of the replicas and the share
  callbacks, \* the deletions registered with addCleanup, last first
  method, class,  \* the pending entries of the two lists, newest first
  listed,    \* clear_share_replicas has listed the replicas
  todo,      \* the replicas it has listed and not come to
  rounds,    \* how often the method list has been cleared
  reported,  \* the runner has an error
  hushed,    \* history: a Forbidden has closed the entry of the share
  faults,
  busy,      \* history: a promotion was under way when the test ended
  before     \* history: faults when the test ended

testVars    == <<test, step>>
cleanupVars == <<callbacks, method, class, listed, todo, rounds, hushed>>
vars == <<testVars, phase, waiting, cloud, cleanupVars, reported, faults, busy,
          before>>

Alive(x) == cloud[x] \notin {"absent", "gone"}

-----------------------------------------------------------------------------
(* Manila *)

Fault   == faults < MaxFaults /\ faults' = faults + 1
NoFault == UNCHANGED faults

Set(x, state) == cloud' = [cloud EXCEPT ![x] = state]

\* The end of a job.  Once the promoted replica is active, the other one has
\* to be brought in sync again; a share goes with its active replica.  A replica
\* whose state was reset is brought in sync by a task that is run from time to
\* time: that it comes before the test has seen the state is a fault.
Job(x) ==
  \/ cloud[x] = "creating"    /\ Set(x, "out_of_sync") /\ NoFault
  \/ /\ cloud[x] = "out_of_sync" /\ Set(x, "in_sync")
     /\ IF waiting = <<"out_of_sync", x>> THEN Fault ELSE NoFault
  \/ /\ cloud[x] = "promoting" /\ NoFault
     /\ cloud' = [cloud EXCEPT ![x] = "active",
                    ![Other(x)] = IF @ = "active" THEN "out_of_sync" ELSE @]
  \/ /\ cloud[x] = "deleting" /\ NoFault
     /\ IF x = "share"
          THEN cloud' = [y \in Things |-> IF Alive(y) THEN "gone" ELSE cloud[y]]
          ELSE Set(x, "gone")
  \/ cloud[x] \in {"creating", "promoting"} /\ Set(x, "error") /\ Fault
  \/ cloud[x] = "deleting" /\ Set(x, "stuck") /\ Fault

Manila ==
  /\ \E x \in Things : Job(x)
  /\ UNCHANGED <<testVars, phase, waiting, cleanupVars, reported, busy, before>>

\* What stands in the way of a deletion: a replica that is active; a replica
\* of the share that is not.  Whether one that is being promoted can be
\* deleted is left open.
Refusal(x) ==
  CASE x # "share" /\ cloud[x] = "active"    -> {"bad_request"}
    [] x # "share" /\ cloud[x] = "promoting" -> {"conflict", "none"}
    [] x = "share" /\ (\E r \in Replicas : Alive(r) /\ cloud[r] # "active")
                                             -> {"conflict"}
    [] OTHER                                 -> {"none"}

\* The answer to a DELETE.
DeleteCall(x, answer) ==
  \/ ~Alive(x) /\ answer = "not_found" /\ UNCHANGED cloud /\ NoFault
  \/ /\ Alive(x) /\ answer \in Refusal(x) /\ NoFault
     /\ IF answer = "none" THEN Set(x, "deleting") ELSE UNCHANGED cloud
  \/ /\ Alive(x) /\ answer \in {"error", "forbidden"}
     /\ UNCHANGED cloud /\ Fault

\* How a wait for <<goal, thing>> ends.
WaitCall(goal, x, outcome) ==
  LET reached == \/ /\ goal = "available"
                    /\ cloud[x] \in {"out_of_sync", "in_sync"}
                 \/ goal = "gone" /\ ~Alive(x)
                 \/ goal = cloud[x]
  IN  \/ reached /\ outcome = "none" /\ NoFault
      \/ /\ goal = "gone" /\ cloud[x] = "stuck"
         /\ outcome = "release_failed" /\ NoFault
      \/ /\ goal # "gone" /\ cloud[x] = "error"
         /\ outcome = "error" /\ NoFault
      \/ /\ goal = "out_of_sync" /\ cloud[x] = "in_sync"
         /\ outcome = "timed_out" /\ NoFault
      \/ ~reached /\ outcome \in {"timed_out", "forbidden"} /\ Fault

Answers == {"none", "not_found", "forbidden", "bad_request", "conflict",
            "error", "release_failed", "timed_out"}

-----------------------------------------------------------------------------
(* The test *)

Step == Script[test][step]

AtStep(verb, x) ==
  /\ phase = "test" /\ waiting = <<>> /\ step <= Len(Script[test])
  /\ Step = <<verb, x>>

Await(goal, x) ==
  /\ waiting' = <<goal, x>>
  /\ UNCHANGED <<phase, step, reported, busy, before>>

Passed ==
  /\ waiting' = <<>> /\ step' = step + 1
  /\ UNCHANGED <<phase, reported, busy, before>>

\* The runner calls what was registered, last first; the clearing of the method
\* list, which setUp registers, comes after all of it.
TestOver ==
  /\ phase' = "callbacks" /\ waiting' = <<>>
  /\ busy' = (\E r \in Replicas : cloud[r] = "promoting")
  /\ before' = faults'
  /\ UNCHANGED step

TestFails ==
  TestOver /\ reported' = (reported \/ test \notin Unstable)

TestPasses ==
  /\ phase = "test" /\ waiting = <<>> /\ step > Len(Script[test])
  /\ NoFault /\ TestOver
  /\ UNCHANGED <<test, cloud, cleanupVars, reported>>

\* An assertion, or a request the model leaves out, fails.
AssertionFails ==
  /\ phase = "test" /\ waiting = <<>>
  /\ Fault /\ TestFails
  /\ UNCHANGED <<test, cloud, cleanupVars>>

\* create_share_replica: the entry is made before the wait.
CreateReplica ==
  /\ AtStep("create", "new") \/ AtStep("create_unlisted", "new")
  /\ Set("new", "creating")
  /\ method' = IF Step[1] = "create" THEN <<"new">> \o method ELSE method
  /\ Await("available", "new") /\ NoFault
  /\ UNCHANGED <<test, callbacks, class, listed, todo, rounds, hushed>>

\* Mutant: it is the promoted replica whose deletion is registered.
RegisterPromoted ==
  /\ AtStep("register", "old")
  /\ callbacks' = <<"new">> \o callbacks
  /\ Passed /\ NoFault
  /\ UNCHANGED <<test, cloud, method, class, listed, todo, rounds, hushed>>

RegisterDeletion ==
  /\ AtStep("register", "old")
  /\ callbacks' = <<"old">> \o callbacks
  /\ Passed /\ NoFault
  /\ UNCHANGED <<test, cloud, method, class, listed, todo, rounds, hushed>>

Synchronise(r) ==
  /\ AtStep("sync", r) /\ Await("in_sync", r) /\ NoFault
  /\ UNCHANGED <<test, cloud, cleanupVars>>

\* reset_share_replica_state
Reset(r) ==
  /\ AtStep("reset", r) /\ Alive(r) /\ NoFault
  /\ Set(r, "out_of_sync") /\ Await("out_of_sync", r)
  /\ UNCHANGED <<test, cleanupVars>>

\* promote_share_replica: Manila promotes a replica that is not busy.
Promote(r) ==
  /\ AtStep("promote", r) /\ NoFault
  /\ IF cloud[r] \in {"in_sync", "out_of_sync"}
       THEN Set(r, "promoting") /\ Await("active", r)
       ELSE UNCHANGED cloud /\ TestFails
  /\ UNCHANGED <<test, cleanupVars>>

\* delete_share_replica passes over NotFound, delete_share does not.
TestDeletes(x) ==
  /\ AtStep("delete", x)
  /\ \E answer \in Answers :
       /\ DeleteCall(x, answer)
       /\ \/ answer = "none" /\ Await("gone", x)
          \/ answer = "not_found" /\ x # "share" /\ Passed
          \/ answer \notin {"none", "not_found"} /\ TestFails
          \/ answer = "not_found" /\ x = "share" /\ TestFails
  /\ UNCHANGED <<test, cleanupVars>>

WaitOfTest ==
  /\ phase = "test" /\ waiting # <<>>
  /\ \E outcome \in Answers :
       /\ WaitCall(waiting[1], waiting[2], outcome)
       /\ IF outcome = "none" THEN Passed ELSE TestFails
  /\ UNCHANGED <<test, cloud, cleanupVars>>

-----------------------------------------------------------------------------
(* The cleanups *)

\* A callback that raises does not keep the next one from being called.
Keep(exception) ==
  reported' = (reported \/ exception \notin {"none", "not_found"})

CallBack ==
  /\ phase = "callbacks" /\ waiting = <<>> /\ callbacks # <<>>
  /\ \E answer \in Answers :
       /\ DeleteCall(Head(callbacks), answer) /\ Keep(answer)
       /\ waiting' = IF answer = "none" THEN <<"gone", Head(callbacks)>>
                                       ELSE <<>>
  /\ callbacks' = Tail(callbacks)
  /\ UNCHANGED <<testVars, phase, method, class, listed, todo, rounds, hushed,
                 busy, before>>

AwaitCallBack ==
  /\ phase = "callbacks" /\ waiting # <<>>
  /\ \E outcome \in Answers :
       WaitCall("gone", waiting[2], outcome) /\ Keep(outcome)
  /\ waiting' = <<>>
  /\ UNCHANGED <<testVars, phase, cloud, cleanupVars, busy, before>>

CallBacksDone ==
  /\ phase = "callbacks" /\ waiting = <<>> /\ callbacks = <<>>
  /\ phase' = "method" /\ rounds' = 1
  /\ UNCHANGED <<testVars, waiting, cloud, callbacks, method, class, listed,
                 todo, reported, hushed, faults, busy, before>>

\* clear_resources, at the first entry that is pending in its list.
List == IF phase = "method" THEN method ELSE class
At(x) == phase \in {"method", "class"} /\ List # <<>> /\ Head(List) = x

\* The list is done with: the method list is cleared again by the next test of
\* the class, the class list once.
PassOver ==
  \/ phase = "method" /\ rounds < MaxRounds /\ rounds' = rounds + 1
     /\ UNCHANGED phase
  \/ phase = "method" /\ phase' = "class" /\ UNCHANGED rounds
  \/ phase = "class"  /\ phase' = "end" /\ UNCHANGED rounds

Closed ==
  IF phase = "method" THEN method' = Tail(method) /\ UNCHANGED class
                      ELSE class' = Tail(class) /\ UNCHANGED method

\* handle_cleanup_exceptions: what clear_resources never hears of.
Suppressed(exception) == exception \in {"none", "not_found", "forbidden"}

\* What happens quietly is noted when it costs the share its entry.
Note(exception) ==
  hushed' = (hushed \/ (exception = "forbidden" /\ At("share")))

\* Mutant: any exception is taken for the end of the entry.
EntryEndsQuietly(exception) ==
  /\ waiting' = <<>> /\ listed' = FALSE
  /\ Closed /\ Note(exception)
  /\ UNCHANGED <<phase, rounds, reported>>

\* Mutant: the entry at hand is tried until it goes.
EntryRetries(exception) ==
  /\ waiting' = <<>> /\ listed' = FALSE /\ Note(exception)
  /\ IF Suppressed(exception)
       THEN Closed /\ UNCHANGED <<phase, rounds, reported>>
       ELSE reported' = TRUE /\ UNCHANGED <<phase, rounds, method, class>>

\* An entry is closed when its thing is gone, and as quietly when a request was
\* forbidden; one in an error state is closed, and the exception raised; any
\* other exception leaves it pending.
EntryEnds(exception) ==
  /\ waiting' = <<>> /\ listed' = FALSE /\ Note(exception)
  /\ IF Suppressed(exception)
       THEN Closed /\ UNCHANGED <<phase, rounds, reported>>
       ELSE /\ IF exception = "release_failed" THEN Closed
                                               ELSE UNCHANGED <<method, class>>
            /\ PassOver /\ reported' = TRUE

\* Mutant: a share is deleted without a look at its replicas.
ListNoReplicas ==
  /\ At("share") /\ waiting = <<>> /\ ~listed
  /\ listed' = TRUE /\ todo' = <<>>
  /\ UNCHANGED <<testVars, phase, waiting, cloud, callbacks, method, class,
                 rounds, reported, hushed, faults, busy, before>>

\* clear_share_replicas lists what replicas the share has by now, in any order.
ListReplicas ==
  /\ At("share") /\ waiting = <<>> /\ ~listed
  /\ listed' = TRUE
  /\ LET alive == {r \in Replicas : Alive(r)}
     IN  todo' \in {s \in {<<>>, <<"old">>, <<"new">>, <<"old", "new">>,
                           <<"new", "old">>} :
                      {s[i] : i \in 1 .. Len(s)} = alive}
  /\ UNCHANGED <<testVars, phase, waiting, cloud, callbacks, method, class,
                 rounds, reported, hushed, faults, busy, before>>

\* Mutant: the exception of the last active replica is not ignored.
PassedOverNotFound(answer) == answer = "not_found"

\* delete_share_replica ignores NotFound, clear_share_replicas BadRequest.
PassedOver(answer) == answer \in {"not_found", "bad_request"}

ClearReplica ==
  /\ At("share") /\ waiting = <<>> /\ listed /\ todo # <<>>
  /\ todo' = Tail(todo)
  /\ \E answer \in Answers :
       /\ DeleteCall(Head(todo), answer)
       /\ \/ /\ answer = "none" \/ PassedOver(answer)
             /\ waiting' = IF answer = "none" THEN <<"gone", Head(todo)>>
                                             ELSE <<>>
             /\ UNCHANGED <<phase, listed, method, class, rounds, reported,
                            hushed>>
          \/ answer # "none" /\ ~PassedOver(answer) /\ EntryEnds(answer)
  /\ UNCHANGED <<testVars, callbacks, busy, before>>

AwaitReplica ==
  /\ At("share") /\ waiting # <<>> /\ waiting[2] # "share"
  /\ \E outcome \in Answers :
       /\ WaitCall("gone", waiting[2], outcome)
       /\ IF outcome = "none"
            THEN waiting' = <<>>
                 /\ UNCHANGED <<phase, listed, method, class, rounds, reported,
                            hushed>>
            ELSE EntryEnds(outcome)
  /\ UNCHANGED <<testVars, cloud, callbacks, todo, busy, before>>

\* The deletion of the share itself, or of a replica that has an entry.
DeleteEntry ==
  /\ \E x \in Things, answer \in Answers :
       /\ At(x) /\ waiting = <<>>
       /\ x = "share" => listed /\ todo = <<>>
       /\ DeleteCall(x, answer)
       /\ IF answer = "none"
            THEN waiting' = <<"gone", x>>
                 /\ UNCHANGED <<phase, listed, method, class, rounds, reported,
                            hushed>>
            ELSE EntryEnds(answer)
  /\ UNCHANGED <<testVars, callbacks, todo, busy, before>>

AwaitEntry ==
  /\ \E x \in Things, outcome \in Answers :
       At(x) /\ waiting = <<"gone", x>> /\ WaitCall("gone", x, outcome)
         /\ EntryEnds(outcome)
  /\ UNCHANGED <<testVars, cloud, callbacks, todo, busy, before>>

ListDone ==
  /\ phase \in {"method", "class"} /\ List = <<>>
  /\ PassOver
  /\ UNCHANGED <<testVars, waiting, cloud, callbacks, method, class, listed,
                 todo, reported, hushed, faults, busy, before>>

Worker ==
  \/ TestPasses \/ CreateReplica \/ RegisterDeletion
  \/ \E r \in Replicas : Synchronise(r) \/ Reset(r) \/ Promote(r)
  \/ \E x \in Things : TestDeletes(x)
  \/ WaitOfTest
  \/ CallBack \/ AwaitCallBack \/ CallBacksDone
  \/ ListReplicas \/ ClearReplica \/ AwaitReplica
  \/ DeleteEntry \/ AwaitEntry \/ ListDone

Init ==
  /\ test \in Tests /\ step = 1 /\ phase = "test" /\ waiting = <<>>
  /\ cloud = [old |-> "active", new |-> "absent", share |-> "active"]
  /\ callbacks = <<>>
  /\ method = IF test \in ShareOfMethod THEN <<"share">> ELSE <<>>
  /\ class = IF test \in ShareOfMethod THEN <<>> ELSE <<"share">>
  /\ listed = FALSE /\ todo = <<>> /\ rounds = 0
  /\ reported = FALSE /\ hushed = FALSE
  /\ faults = 0 /\ busy = FALSE /\ before = 0

Next == Worker \/ AssertionFails \/ Manila

\* The runner never stops for good, and Manila ends the jobs it has begun.
Fairness == WF_vars(Worker) /\ WF_vars(Manila)

Spec == Init /\ [][Next]_vars /\ Fairness

-----------------------------------------------------------------------------
Pending == {method[i] : i \in 1 .. Len(method)}
             \cup {class[i] : i \in 1 .. Len(class)}

TypeOK ==
  /\ test \in DOMAIN Script /\ step \in 1 .. Len(Script[test]) + 1
  /\ phase \in {"test", "callbacks", "method", "class", "end"}
  /\ waiting \in {<<>>} \cup
                 ({"available", "in_sync", "out_of_sync", "active", "gone"}
                    \X Things)
  /\ cloud \in [Things -> {"absent", "creating", "out_of_sync", "in_sync",
                           "active", "promoting", "error", "deleting", "stuck",
                           "gone"}]
  /\ callbacks \in Seq({"old"}) /\ todo \in Seq(Replicas)
  /\ method \in Seq(Things) /\ class \in Seq(Things)
  /\ listed \in BOOLEAN /\ reported \in BOOLEAN /\ hushed \in BOOLEAN
  /\ busy \in BOOLEAN
  /\ rounds \in 0 .. MaxRounds
  /\ faults \in 0 .. MaxFaults /\ before \in 0 .. MaxFaults

\* Wherever a test fails, unless it is in the middle of a promotion: as long as
\* nothing else fails, the cleanups of the class remove the share and both of
\* its replicas, whichever of them is the active one by then.
CleanedUpWhereverItFails ==
  phase = "end" /\ ~busy /\ faults = before => \A x \in Things : ~Alive(x)

\* clear_resources: a share or a replica that is left behind has made the runner
\* report an error, though the failure of an unstable test is none: the one
\* other way to leave it is a Forbidden, which closes the entry of the share.
NoSilentLeak ==
  phase = "end" /\ ~reported /\ ~hushed => \A x \in Things : ~Alive(x)

\* A cleanup of a promotion raises no alarm of its own: what the exchange of the
\* roles makes Manila refuse, the last active replica, or no longer find, is
\* passed over, so an error that is reported goes back to something that failed.
NoFalseAlarm == reported => faults > 0

\* Every test and all of its cleanups end.
CleanupEnds == <>(phase = "end")

\* Cleanup is disabled for a replica that is being promoted: no entry of its
\* own stands for a replica that is active when the lists are cleared.
ActiveReplicaNotListed ==
  phase \in {"callbacks", "method"} =>
    \A r \in Replicas : cloud[r] = "active" => r \notin Pending
=============================================================================

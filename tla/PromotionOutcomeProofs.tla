---------------------- MODULE PromotionOutcomeProofs ----------------------
(***************************************************************************)
(* What becomes of a test that promotes a replica.  Wherever it fails, its *)
(* cleanups find the roles exchanged or not, and remove everything in      *)
(* either case (CleanedUpWhereverItFails); and if nothing fails, nothing   *)
(* is reported (NoFalseAlarm).                                             *)
(*                                                                         *)
(* The first argument is about the cleanups alone.  Clean says that they   *)
(* have not met a fault; then a replica that has been listed is active,    *)
(* gone, or still in hand, so that the share's own deletion is accepted.   *)
(* The second argument follows the tests as well: Outline has, for every   *)
(* step of every script, the roles in which a test finds the replicas as   *)
(* long as nothing has failed, and each verb has its precondition there.   *)
(***************************************************************************)
EXTENDS ReplicaPromotionProofs

\* What the lists hold: the share, in one of the two, and in the method list of
\* test_promote_and_promote_back the replica it creates.
Lists ==
  /\ method \in {<<>>, <<"share">>, <<"new">>}
  /\ class \in {<<>>, <<"share">>}
  /\ method = <<"new">> => test = "promote_back"
  /\ phase = "test" =>
       /\ IF test \in ShareOfMethod THEN method = <<"share">>
                                    ELSE class = <<"share">>
       /\ step = 1 /\ waiting = <<>> /\ test \notin ShareOfMethod =>
            method = <<>>
  /\ phase \in {"test", "callbacks"} => ~listed
  /\ before <= faults

\* The test is over, was not in the middle of a promotion, and nothing has
\* failed since.
Clean == phase # "test" /\ ~busy /\ faults = before

InHand(r) == (\E i \in 1 .. Len(todo) : todo[i] = r) \/ waiting = <<"gone", r>>

\* What the cleanups then find, and what they have still to do.
CleanCloud ==
  /\ \A r \in Replicas : cloud[r] # "promoting"
  /\ waiting # <<>> =>
       /\ waiting[1] = "gone"
       /\ cloud[waiting[2]] \in {"absent", "deleting", "gone"}
  /\ listed => \A r \in Replicas :
       Alive(r) => cloud[r] = "active" \/ InHand(r)

CleanShare ==
  Alive("share") =>
    \/ phase \in {"callbacks", "method"} /\ method = <<"share">>
    \/ phase # "end" /\ class = <<"share">>

CleanInv == Clean => CleanCloud /\ CleanShare

CInv == IInv /\ Lists /\ CleanInv

-----------------------------------------------------------------------------
(* Where the faults are.                                                   *)

\* A request or a job that is not a fault of its own.
LEMMA DeleteWithoutFault ==
  ASSUME TypeOK, NEW x \in Things, NEW answer, DeleteCall(x, answer),
         faults' = faults
  PROVE  \/ answer = "not_found" /\ ~Alive(x) /\ cloud' = cloud
         \/ Alive(x) /\ answer \in Refusal(x) /\ answer # "none" /\ cloud' = cloud
         \/ /\ Alive(x) /\ answer = "none" /\ "none" \in Refusal(x)
            /\ cloud' = [cloud EXCEPT ![x] = "deleting"]
<1>1. faults \in Nat
  BY ReplicaPromotionAssumption DEF TypeOK
<1>2. ~Fault
  BY <1>1 DEF Fault
<1> QED
  BY <1>2 DEF DeleteCall, Set

LEMMA WaitWithoutFault ==
  ASSUME TypeOK, NEW goal, NEW x, NEW outcome, WaitCall(goal, x, outcome),
         faults' = faults
  PROVE  \/ /\ outcome = "none"
            /\ \/ goal = "available" /\ cloud[x] \in {"out_of_sync", "in_sync"}
               \/ goal = "gone" /\ ~Alive(x)
               \/ goal = cloud[x]
         \/ goal = "gone" /\ cloud[x] = "stuck"
         \/ goal # "gone" /\ cloud[x] = "error"
         \/ goal = "out_of_sync" /\ cloud[x] = "in_sync"
<1>1. faults \in Nat
  BY ReplicaPromotionAssumption DEF TypeOK
<1>2. ~Fault
  BY <1>1 DEF Fault
<1> QED
  BY <1>2 DEF WaitCall

\* A job that Manila ends well, once no replica is being promoted: nobody
\* becomes active, and nobody comes back.
LEMMA JobWithoutFault ==
  ASSUME TypeOK, NEW x \in Things, Job(x), faults' = faults,
         \A r \in Replicas : cloud[r] # "promoting", ShareKnown
  PROVE  \A y \in Things :
           /\ cloud'[y] # "promoting"
           /\ Alive(y)' => Alive(y)
           /\ cloud[y] = "active" => cloud'[y] \in {"active", "gone"}
           /\ cloud[y] # "active" => cloud'[y] # "active"
           /\ cloud[y] \in {"absent", "deleting", "gone"} =>
                cloud'[y] \in {"absent", "deleting", "gone"}
<1>1. faults \in Nat
  BY ReplicaPromotionAssumption DEF TypeOK
<1>2. ~Fault
  BY <1>1 DEF Fault
<1>3. cloud \in [Things -> States]
  BY DEF TypeOK, States
<1>4. cloud["share"] # "promoting" /\ cloud[x] # "promoting"
  BY DEF ShareKnown, Things
<1>5. \/ cloud[x] = "creating" /\ cloud' = [cloud EXCEPT ![x] = "out_of_sync"]
      \/ cloud[x] = "out_of_sync" /\ cloud' = [cloud EXCEPT ![x] = "in_sync"]
      \/ cloud[x] = "deleting" /\ cloud' = [cloud EXCEPT ![x] = "gone"]
      \/ /\ cloud[x] = "deleting"
         /\ cloud' = [y \in Things |-> IF Alive(y) THEN "gone" ELSE cloud[y]]
  BY <1>2, <1>4 DEF Job, Set
<1>6. \A y \in Things : cloud[y] # "promoting"
  BY <1>4 DEF Things
<1> QED
  BY <1>3, <1>5, <1>6 DEF Alive

\* Faults never decrease; what is noted at the end of the test stays.
LEMMA StepFaults ==
  ASSUME TypeOK, [Next]_vars
  PROVE  /\ faults' >= faults
         /\ (TestOver /\ phase = "test") \/ (before' = before /\ busy' = busy)
         /\ before' = faults' \/ before' = before
<1>1. Fault \/ NoFault => faults' >= faults
  <2>1. faults \in Nat
    BY DEF TypeOK
  <2> QED
    BY <2>1 DEF Fault, NoFault
<1>2. TestOver => before' = faults'
  BY DEF TestOver
<1>3. CASE TestPasses \/ AssertionFails
  BY <1>1, <1>2, <1>3 DEF TestPasses, AssertionFails, TestFails
<1>4. CASE CreateReplica \/ RegisterDeletion
  BY <1>1, <1>4 DEF CreateReplica, RegisterDeletion, Await, Passed
<1>5. ASSUME NEW r \in Replicas, Synchronise(r) \/ Reset(r)
      PROVE  before' = before /\ busy' = busy /\ faults' >= faults
  BY <1>1, <1>5 DEF Synchronise, Reset, Await
<1>6. ASSUME NEW r \in Replicas, Promote(r)
      PROVE  /\ faults' >= faults
             /\ \/ TestOver /\ phase = "test"
                \/ before' = before /\ busy' = busy
  BY <1>1, <1>6 DEF Promote, AtStep, Await, TestFails
<1>7. ASSUME NEW x \in Things, TestDeletes(x)
      PROVE  /\ faults' >= faults
             /\ \/ TestOver /\ phase = "test"
                \/ before' = before /\ busy' = busy
  <2>1. \E answer : DeleteCall(x, answer)
    BY <1>7 DEF TestDeletes
  <2>2. faults' >= faults
    BY <1>1, <2>1 DEF DeleteCall
  <2> QED
    BY <1>7, <2>2 DEF TestDeletes, AtStep, Await, Passed, TestFails
<1>8. CASE WaitOfTest
  <2>1. \E goal, x, outcome : WaitCall(goal, x, outcome)
    BY <1>8 DEF WaitOfTest
  <2>2. faults' >= faults
    BY <1>1, <2>1 DEF WaitCall
  <2>3. phase = "test" /\ (Passed \/ TestFails)
    BY <1>8 DEF WaitOfTest
  <2> QED
    BY <1>2, <2>2, <2>3 DEF Passed, TestFails
<1>9. CASE CallBacksDone \/ ListDone \/ ListReplicas
  BY <1>1, <1>9 DEF CallBacksDone, ListDone, ListReplicas, NoFault
<1>10. CASE CallBack \/ ClearReplica \/ DeleteEntry
  <2>1. \E x, answer : DeleteCall(x, answer)
    BY <1>10 DEF CallBack, ClearReplica, DeleteEntry
  <2>2. faults' >= faults
    BY <1>1, <2>1 DEF DeleteCall
  <2> QED
    BY <1>10, <2>2 DEF CallBack, ClearReplica, DeleteEntry
<1>11. CASE AwaitCallBack \/ AwaitReplica \/ AwaitEntry
  <2>1. \E goal, x, outcome : WaitCall(goal, x, outcome)
    BY <1>11 DEF AwaitCallBack, AwaitReplica, AwaitEntry
  <2>2. faults' >= faults
    BY <1>1, <2>1 DEF WaitCall
  <2> QED
    BY <1>11, <2>2 DEF AwaitCallBack, AwaitReplica, AwaitEntry
<1>12. CASE Manila
  BY <1>1, <1>12 DEF Manila, Job
<1>13. CASE UNCHANGED vars
  BY <1>1, <1>13 DEF vars, NoFault
<1> QED
  BY <1>2, <1>3, <1>4, <1>5, <1>6, <1>7, <1>8, <1>9, <1>10, <1>11, <1>12,
     <1>13
  DEF Next, Worker

\* Faults never decrease, and the test is over only once: a clean end is a clean
\* step after a clean end, or the end of the test.
LEMMA CleanBack ==
  ASSUME TypeOK, WaitsInScript, Lists, [Next]_vars, Clean'
  PROVE  \/ phase # "test" /\ Clean /\ faults' = faults /\ before' = before
         \/ phase = "test" /\ TestOver /\ cloud' = cloud /\ UNCHANGED cleanupVars
<1>1. CASE phase = "test"
  <2>1. phase' # "test"
    BY DEF Clean
  <2>2. TestOver /\ cloud' = cloud /\ UNCHANGED cleanupVars
    <3>1. CASE TestPasses \/ AssertionFails
      BY <3>1 DEF TestPasses, AssertionFails, TestFails
    <3>2. CASE CreateReplica \/ RegisterDeletion
      BY <1>1, <2>1, <3>2 DEF CreateReplica, RegisterDeletion, Await, Passed
    <3>3. ASSUME NEW r \in Replicas, Synchronise(r) \/ Reset(r)
          PROVE  FALSE
      BY <1>1, <2>1, <3>3 DEF Synchronise, Reset, Await
    <3>4. ASSUME NEW r \in Replicas, Promote(r)
          PROVE  TestOver /\ cloud' = cloud /\ UNCHANGED cleanupVars
      BY <1>1, <2>1, <3>4 DEF Promote, Await, TestFails
    <3>5. ASSUME NEW x \in Things, TestDeletes(x)
          PROVE  TestOver /\ cloud' = cloud /\ UNCHANGED cleanupVars
      BY <1>1, <2>1, <3>5
      DEF TestDeletes, Await, Passed, TestFails, DeleteCall
    <3>6. CASE WaitOfTest
      BY <1>1, <2>1, <3>6 DEF WaitOfTest, Passed, TestFails
    <3>7. CASE CallBack \/ AwaitCallBack \/ CallBacksDone \/ ListDone
      BY <1>1, <3>7 DEF CallBack, AwaitCallBack, CallBacksDone, ListDone
    <3>8. CASE ListReplicas \/ ClearReplica \/ AwaitReplica \/ DeleteEntry
                 \/ AwaitEntry
      BY <1>1, <3>8
      DEF ListReplicas, ClearReplica, AwaitReplica, DeleteEntry, AwaitEntry, At
    <3>9. CASE Manila \/ UNCHANGED vars
      BY <1>1, <2>1, <3>9 DEF Manila, vars
    <3> QED
      BY <3>1, <3>2, <3>3, <3>4, <3>5, <3>6, <3>7, <3>8, <3>9
      DEF Next, Worker
  <2> QED
    BY <1>1, <2>2
<1>2. CASE phase # "test"
  <2>1. before' = before /\ busy' = busy /\ faults' >= faults
    BY <1>2, StepFaults
  <2>2. /\ faults \in Nat /\ before \in Nat /\ before <= faults
        /\ faults' \in Nat
    <3>1. TypeOK'
      BY StepTypeOK
    <3> QED
      BY <3>1 DEF TypeOK, Lists
  <2> QED
    BY <1>2, <2>1, <2>2 DEF Clean
<1> QED
  BY <1>1, <1>2

-----------------------------------------------------------------------------
(* The lists.                                                              *)

LEMMA OneEntry ==
  ASSUME NEW x
  PROVE  <<x>> # <<>> /\ Head(<<x>>) = x /\ Tail(<<x>>) = <<>>
OBVIOUS

\* Only test_promote_and_promote_back enters its replica in a list.
LEMMA ScriptListed ==
  ASSUME NEW t \in DOMAIN Script, NEW n \in 1 .. Len(Script[t]),
         Script[t][n] = <<"create", "new">>
  PROVE  t = "promote_back"
<1>1. t \in {"promote_out_of_sync", "promote_in_sync", "snapshots",
             "export_locations", "policy_lifecycle", "policy_promote_back",
             "promote_back"}
  BY DEF Script
<1>2. SUFFICES ASSUME t # "promote_back" PROVE FALSE
  OBVIOUS
<1>3. Script[t][1] = <<"create_unlisted", "new">>
  BY <1>1, <1>2 DEF Script
<1>4. n = 1
  BY ScriptFacts
<1> QED
  BY <1>3, <1>4

\* What the end of an entry, or of a list, does to the lists.
LEMMA EntryEndsLists ==
  ASSUME TypeOK, Lists, NEW x, At(x), NEW exception, EntryEnds(exception)
  PROVE  /\ waiting' = <<>> /\ ~listed'
         /\ phase' \notin {"test", "callbacks"}
         /\ method' \in {method, <<>>} /\ class' \in {class, <<>>}
         /\ \/ /\ exception \in {"none", "not_found", "forbidden",
                                "release_failed"}
               /\ \/ phase = "method" /\ method' = <<>> /\ class' = class
                  \/ phase = "class" /\ class' = <<>> /\ method' = method
            \/ method' = method /\ class' = class
         /\ exception \in {"none", "not_found"} =>
              phase' = phase /\ reported' = reported
         /\ \/ phase' = phase
            \/ phase = "method" /\ phase' = "class"
            \/ phase = "class" /\ phase' = "end"
<1>1. phase \in {"method", "class"} /\ List # <<>>
  BY DEF At
<1>2. \A y \in {"share", "new"} : Tail(<<y>>) = <<>>
  BY OneEntry
<1>3. phase = "method" => method \in {<<"share">>, <<"new">>}
  BY <1>1 DEF List, Lists
<1>4. phase = "class" => class = <<"share">>
  BY <1>1 DEF List, Lists
<1>5. Closed => \/ phase = "method" /\ method' = <<>> /\ class' = class
                \/ phase = "class" /\ class' = <<>> /\ method' = method
  BY <1>1, <1>2, <1>3, <1>4 DEF Closed
<1>6. PassOver => \/ phase' = phase
                  \/ phase = "method" /\ phase' = "class"
                  \/ phase = "class" /\ phase' = "end"
  BY DEF PassOver
<1>7. CASE exception \in {"none", "not_found", "forbidden"}
  BY <1>1, <1>5, <1>7 DEF EntryEnds, Suppressed
<1>8. ASSUME exception \notin {"none", "not_found", "forbidden"}
      PROVE  /\ waiting' = <<>> /\ ~listed' /\ PassOver
             /\ IF exception = "release_failed"
                  THEN Closed ELSE UNCHANGED <<method, class>>
  BY <1>8 DEF EntryEnds, Suppressed
<1>9. CASE exception = "release_failed"
  BY <1>1, <1>5, <1>6, <1>8, <1>9
<1>10. CASE exception \notin {"none", "not_found", "forbidden",
                           "release_failed"}
  BY <1>1, <1>6, <1>8, <1>10
<1> QED
  BY <1>7, <1>9, <1>10

LEMMA StepLists == IInv /\ Lists /\ [Next]_vars => Lists'
<1> SUFFICES ASSUME IInv, Lists, [Next]_vars PROVE Lists'
  OBVIOUS
<1>0. TypeOK /\ WaitsInScript
  BY DEF IInv
<1>1. before' <= faults'
  <2>1. /\ faults \in Nat /\ before \in Nat /\ before <= faults
        /\ faults' \in Nat
    <3>1. TypeOK'
      BY <1>0, StepTypeOK
    <3> QED
      BY <1>0, <3>1 DEF TypeOK, Lists
  <2>2. faults' >= faults /\ (before' = faults' \/ before' = before)
    BY <1>0, StepFaults
  <2> QED
    BY <2>1, <2>2
<1>2. CASE UNCHANGED <<test, phase, step, waiting, method, class, listed>>
  BY <1>1, <1>2 DEF Lists
\* A step of the test: it goes on, or is over.
<1>3. ASSUME phase = "test", UNCHANGED <<test, method, class, listed>>,
             \/ phase' = "callbacks"
             \/ phase' = "test" /\ step' = step /\ waiting' # <<>>
             \/ phase' = "test" /\ step' = step + 1
      PROVE  Lists'
  <2>1. step \in 1 .. Len(Script[test]) + 1
    BY <1>0 DEF TypeOK
  <2>2. step + 1 # 1
    BY <2>1
  <2> QED
    BY <1>1, <1>3, <2>2 DEF Lists
<1>4. CASE TestPasses \/ AssertionFails
  BY <1>3, <1>4
  DEF TestPasses, AssertionFails, TestFails, TestOver, cleanupVars
<1>5. CASE CreateReplica
  <2>1. /\ phase = "test" /\ waiting = <<>> /\ step \in 1 .. Len(Script[test])
        /\ test \in DOMAIN Script
    BY <1>0, <1>5 DEF CreateReplica, AtStep, TypeOK
  <2>2. /\ phase' = "test" /\ waiting' # <<>> /\ test' = test
        /\ step' = step /\ class' = class /\ listed' = listed
    BY <1>5, <2>1 DEF CreateReplica, Await
  <2>3. CASE Step = <<"create", "new">>
    <3>1. test = "promote_back" /\ step = 1
      BY <2>1, <2>3, ScriptListed, ScriptFacts DEF Step
    <3>2. test \notin ShareOfMethod
      BY <3>1 DEF ShareOfMethod
    <3>3. method = <<>>
      BY <2>1, <3>1, <3>2 DEF Lists
    <3>4. method' = <<"new">>
      <4>1. method' = <<"new">> \o method
        BY <1>5, <2>3 DEF CreateReplica
      <4> QED
        BY <3>3, <4>1
    <3> QED
      BY <1>1, <2>1, <2>2, <3>1, <3>2, <3>4 DEF Lists
  <2>4. CASE Step # <<"create", "new">>
    <3>1. Step = <<"create_unlisted", "new">>
      BY <1>5, <2>4 DEF CreateReplica, AtStep
    <3>2. method' = method
      BY <1>5, <3>1 DEF CreateReplica
    <3> QED
      BY <1>3, <2>1, <2>2, <3>2
  <2> QED
    BY <2>3, <2>4
<1>6. CASE RegisterDeletion
  BY <1>3, <1>6 DEF RegisterDeletion, AtStep, Passed
<1>7. ASSUME NEW r \in Replicas, Synchronise(r) \/ Reset(r) \/ Promote(r)
      PROVE  Lists'
  <2>1. phase = "test" /\ UNCHANGED <<test, method, class, listed>>
    BY <1>7 DEF Synchronise, Reset, Promote, AtStep, cleanupVars
  <2>2. (\E goal : Await(goal, r)) \/ TestFails
    BY <1>7 DEF Synchronise, Reset, Promote
  <2>3. \A goal : <<goal, r>> # <<>>
    OBVIOUS
  <2> QED
    BY <1>3, <2>1, <2>2, <2>3 DEF Await, TestFails, TestOver
<1>8. ASSUME NEW x \in Things, TestDeletes(x) PROVE Lists'
  <2>1. phase = "test" /\ UNCHANGED <<test, method, class, listed>>
    BY <1>8 DEF TestDeletes, AtStep, cleanupVars
  <2>2. Await("gone", x) \/ Passed \/ TestFails
    BY <1>8 DEF TestDeletes
  <2>3. <<"gone", x>> # <<>>
    OBVIOUS
  <2> QED
    BY <1>3, <2>1, <2>2, <2>3 DEF Await, Passed, TestFails, TestOver
<1>9. CASE WaitOfTest
  BY <1>3, <1>9 DEF WaitOfTest, Passed, TestFails, TestOver, cleanupVars
<1>10. CASE CallBack \/ AwaitCallBack
  BY <1>1, <1>10
  DEF CallBack, AwaitCallBack, testVars, cleanupVars, Lists
<1>11. CASE CallBacksDone
  BY <1>1, <1>11 DEF CallBacksDone, testVars, Lists
<1>12. CASE ListReplicas
  <2>1. phase \in {"method", "class"}
    BY <1>12 DEF ListReplicas, At
  <2> QED
    BY <1>1, <1>12, <2>1 DEF ListReplicas, testVars, Lists
<1>13. CASE ClearReplica \/ AwaitReplica \/ DeleteEntry \/ AwaitEntry
  <2>1. test' = test /\ phase \in {"method", "class"}
    BY <1>13
    DEF ClearReplica, AwaitReplica, DeleteEntry, AwaitEntry, At, testVars
  <2>2. \/ UNCHANGED <<phase, listed, method, class>>
        \/ \E x, exception : At(x) /\ EntryEnds(exception)
    BY <1>13 DEF ClearReplica, AwaitReplica, DeleteEntry, AwaitEntry
  <2>3. CASE UNCHANGED <<phase, listed, method, class>>
    BY <1>1, <2>1, <2>3 DEF Lists
  <2>4. ASSUME NEW x, NEW exception, At(x), EntryEnds(exception)
        PROVE  Lists'
    <3>1. /\ phase' \notin {"test", "callbacks"}
          /\ method' \in {method, <<>>} /\ class' \in {class, <<>>}
      BY <1>0, <2>4, EntryEndsLists
    <3>2. <<>> # <<"new">>
      OBVIOUS
    <3> QED
      BY <1>1, <2>1, <3>1, <3>2 DEF Lists
  <2> QED
    BY <2>2, <2>3, <2>4
<1>14. CASE ListDone
  BY <1>1, <1>14 DEF ListDone, PassOver, testVars, Lists
<1>15. CASE Manila \/ UNCHANGED vars
  BY <1>2, <1>15 DEF Manila, vars, testVars, cleanupVars
<1> QED
  BY <1>4, <1>5, <1>6, <1>7, <1>8, <1>9, <1>10, <1>11, <1>12, <1>13, <1>14,
     <1>15
  DEF Next, Worker

-----------------------------------------------------------------------------
(* The cleanups after a test, as long as nothing fails.                    *)

LEMMA AtFacts ==
  ASSUME Lists, NEW x, At(x)
  PROVE  /\ phase \in {"method", "class"} /\ x \in {"share", "new"}
         /\ x # "share" => phase = "method" /\ method = <<"new">>
         /\ x = "share" /\ phase = "method" => method = <<"share">>
<1>1. \A y \in {"share", "new"} : Head(<<y>>) = y
  BY OneEntry
<1>2. phase \in {"method", "class"} /\ List # <<>> /\ Head(List) = x
  BY DEF At
<1>3. CASE phase = "method"
  <2>1. method \in {<<"share">>, <<"new">>} /\ Head(method) = x
    BY <1>2, <1>3 DEF List, Lists
  <2> QED
    BY <1>1, <1>3, <2>1
<1>4. CASE phase = "class"
  <2>1. class = <<"share">> /\ Head(class) = x
    BY <1>2, <1>4 DEF List, Lists
  <2> QED
    BY <1>1, <1>4, <2>1
<1> QED
  BY <1>2, <1>3, <1>4

\* The end of an entry whose thing is gone, or of one that is not the share,
\* leaves the share its place.
LEMMA EntryEndsClean ==
  ASSUME TypeOK, Lists, CleanCloud, CleanShare, NEW x, At(x),
         NEW exception, EntryEnds(exception), cloud' = cloud,
         x = "share" => ~Alive("share")
  PROVE  CleanCloud' /\ CleanShare'
<1>1. /\ waiting' = <<>> /\ ~listed'
      /\ method' \in {method, <<>>} /\ class' \in {class, <<>>}
      /\ \/ phase = "method" /\ method' = <<>> /\ class' = class
         \/ phase = "class" /\ class' = <<>> /\ method' = method
         \/ method' = method /\ class' = class
      /\ \/ phase' = phase
         \/ phase = "method" /\ phase' = "class"
         \/ phase = "class" /\ phase' = "end"
  BY EntryEndsLists
<1>2. CleanCloud'
  BY <1>1 DEF CleanCloud
<1>3. CASE x = "share"
  BY <1>2, <1>3 DEF CleanShare, Alive
<1>4. CASE x # "share"
  <2>1. phase = "method" /\ method = <<"new">>
    BY <1>4, AtFacts
  <2>2. <<"new">> # <<"share">>
    BY OneEntry
  <2>3. Alive("share") => class = <<"share">>
    BY <2>1, <2>2 DEF CleanShare
  <2> QED
    BY <1>1, <1>2, <2>1, <2>3 DEF CleanShare, Alive
<1> QED
  BY <1>3, <1>4

\* The deletion of a replica or of the share, of which neither is promoted.
LEMMA DeleteClean ==
  ASSUME TypeOK, ShareKnown, CleanCloud, NEW x \in Things, NEW answer,
         DeleteCall(x, answer), faults' = faults
  PROVE  /\ \A r \in Replicas : cloud'[r] # "promoting"
         /\ \A y \in Things : Alive(y)' <=> Alive(y)
         /\ answer = "none" => cloud'[x] = "deleting"
         /\ answer = "none" => \A y \in Things \ {x} : cloud'[y] = cloud[y]
         /\ answer # "none" => cloud' = cloud
         /\ x # "share" /\ answer # "none" /\ Alive(x) =>
              answer = "bad_request" /\ cloud[x] = "active"
         /\ answer = "not_found" => ~Alive(x)
<1>1. cloud \in [Things -> States]
  BY DEF TypeOK, States
<1>2. \/ answer = "not_found" /\ ~Alive(x) /\ cloud' = cloud
      \/ Alive(x) /\ answer \in Refusal(x) /\ answer # "none" /\ cloud' = cloud
      \/ /\ Alive(x) /\ answer = "none" /\ "none" \in Refusal(x)
         /\ cloud' = [cloud EXCEPT ![x] = "deleting"]
  BY DeleteWithoutFault
<1>3. \A r \in Replicas : cloud[r] # "promoting"
  BY DEF CleanCloud
<1>4. Refusal(x) \subseteq {"none", "bad_request", "conflict"}
  BY DEF Refusal
<1>5. x # "share" => x \in Replicas
  BY DEF Things
<1>6. x # "share" => /\ cloud[x] = "active" => Refusal(x) = {"bad_request"}
                     /\ cloud[x] # "active" => Refusal(x) = {"none"}
  BY <1>3, <1>5 DEF Refusal
<1> QED
  BY <1>1, <1>2, <1>3, <1>4, <1>6 DEF Alive, Replicas, Things
\* A wait for a deletion comes to its end.
LEMMA WaitClean ==
  ASSUME TypeOK, CleanCloud, waiting # <<>>, NEW outcome,
         WaitCall("gone", waiting[2], outcome), faults' = faults
  PROVE  outcome = "none" /\ ~Alive(waiting[2])
<1>1. cloud[waiting[2]] \in {"absent", "deleting", "gone"}
  BY DEF CleanCloud
<1> QED
  BY <1>1, WaitWithoutFault DEF Alive

\* A step that leaves the lists alone.
LEMMA SharePlace ==
  ASSUME CleanShare, Alive("share")' => Alive("share"),
         UNCHANGED <<phase, method, class>>
  PROVE  CleanShare'
BY DEF CleanShare

LEMMA TodoFacts ==
  ASSUME TypeOK, todo # <<>>
  PROVE  /\ Head(todo) \in Replicas
         /\ \A r : /\ \E i \in 1 .. Len(todo) : todo[i] = r
                 /\ r # Head(todo)
                 => \E i \in 1 .. Len(Tail(todo)) : Tail(todo)[i] = r
<1>1. todo \in Seq(Replicas)
  BY DEF TypeOK
<1>2. /\ Head(todo) \in Replicas
      /\ \A r : Holds(todo, r) /\ Head(todo) # r => Holds(Tail(todo), r)
  BY <1>1, TailFacts
<1> QED
  BY <1>2 DEF Holds

LEMMA ClearReplicaClean ==
  ASSUME IInv, Lists, CleanCloud, CleanShare, ClearReplica, faults' = faults
  PROVE  CleanCloud' /\ CleanShare' /\ reported' = reported /\ method' = method
<1> DEFINE r == Head(todo)
<1>0. TypeOK /\ ShareKnown
  BY DEF IInv
<1>1. /\ listed /\ waiting = <<>> /\ todo # <<>> /\ todo' = Tail(todo)
  BY DEF ClearReplica
<1>2. /\ r \in Replicas
      /\ \A y : /\ \E i \in 1 .. Len(todo) : todo[i] = y
              /\ y # r
              => \E i \in 1 .. Len(todo') : todo'[i] = y
  BY <1>0, <1>1, TodoFacts
<1>3. PICK answer \in Answers :
        /\ DeleteCall(r, answer)
        /\ \/ /\ waiting' = IF answer = "none" THEN <<"gone", r>> ELSE <<>>
              /\ UNCHANGED <<phase, listed, method, class, reported>>
           \/ answer # "none" /\ ~PassedOver(answer)
  BY DEF ClearReplica
<1>4. r \in Things /\ r # "share"
  BY <1>2 DEF Replicas, Things
<1>5. /\ \A y \in Replicas : cloud'[y] # "promoting"
      /\ \A y \in Things : Alive(y)' <=> Alive(y)
      /\ answer = "none" => cloud'[r] = "deleting"
      /\ answer = "none" => \A y \in Things \ {r} : cloud'[y] = cloud[y]
      /\ answer # "none" => cloud' = cloud
      /\ answer # "none" /\ Alive(r) =>
           answer = "bad_request" /\ cloud[r] = "active"
  BY <1>0, <1>3, <1>4, DeleteClean
<1>6. answer # "none" => PassedOver(answer)
  <2>1. ASSUME answer # "none", ~Alive(r) PROVE answer = "not_found"
    BY <1>0, <1>3, <1>4, <2>1, DeleteWithoutFault
  <2> QED
    BY <1>5, <2>1 DEF PassedOver
<1>7. /\ waiting' = IF answer = "none" THEN <<"gone", r>> ELSE <<>>
      /\ UNCHANGED <<phase, listed, method, class, reported>>
  BY <1>3, <1>6
<1>8. CleanShare'
  BY <1>5, <1>7, SharePlace DEF Things
<1>9. waiting' # <<>> => waiting'[1] = "gone" /\ cloud'[waiting'[2]] = "deleting"
  BY <1>5, <1>7
<1>10. ASSUME NEW y \in Replicas, Alive(y)'
       PROVE  cloud'[y] = "active" \/ InHand(y)'
  <2>1. Alive(y) /\ (cloud[y] = "active" \/ InHand(y))
    BY <1>1, <1>5, <1>10 DEF CleanCloud, Things
  <2>2. CASE y = r
    <3>1. CASE answer = "none"
      BY <1>7, <2>2, <3>1 DEF InHand
    <3>2. CASE answer # "none"
      BY <1>5, <2>1, <2>2, <3>2
    <3> QED
      BY <3>1, <3>2
  <2>3. CASE y # r
    <3>1. cloud'[y] = cloud[y]
      BY <1>5, <2>3 DEF Things
    <3>2. InHand(y) => InHand(y)'
      BY <1>1, <1>2, <2>3 DEF InHand
    <3> QED
      BY <2>1, <3>1, <3>2
  <2> QED
    BY <2>2, <2>3
<1> QED
  BY <1>5, <1>7, <1>8, <1>9, <1>10 DEF CleanCloud

LEMMA DeleteEntryClean ==
  ASSUME IInv, Lists, CleanCloud, CleanShare, DeleteEntry, faults' = faults
  PROVE  /\ CleanCloud' /\ CleanShare' /\ method' \in {method, <<>>}
         /\ (method = <<"new">> => cloud["new"] # "active") =>
              reported' = reported
<1>0. TypeOK /\ ShareKnown
  BY DEF IInv
<1>1. PICK x \in Things, answer \in Answers :
        /\ At(x) /\ waiting = <<>> /\ (x = "share" => listed /\ todo = <<>>)
        /\ DeleteCall(x, answer)
        /\ IF answer = "none"
             THEN waiting' = <<"gone", x>>
                  /\ UNCHANGED <<phase, listed, method, class, reported>>
             ELSE EntryEnds(answer)
  BY DEF DeleteEntry
<1>2. todo' = todo
  BY DEF DeleteEntry
<1>3. /\ \A y \in Replicas : cloud'[y] # "promoting"
      /\ \A y \in Things : Alive(y)' <=> Alive(y)
      /\ answer = "none" => cloud'[x] = "deleting"
      /\ answer = "none" => \A y \in Things \ {x} : cloud'[y] = cloud[y]
      /\ answer # "none" => cloud' = cloud
      /\ x # "share" /\ answer # "none" /\ Alive(x) => cloud[x] = "active"
  BY <1>0, <1>1, DeleteClean
<1>4. CASE answer = "none"
  <2>1. /\ waiting' = <<"gone", x>> /\ waiting' # <<>>
        /\ UNCHANGED <<phase, listed, method, class, reported>>
    BY <1>1, <1>4
  <2>2. CleanShare'
    BY <1>3, <2>1, SharePlace DEF Things
  <2>3. waiting'[1] = "gone" /\ cloud'[waiting'[2]] = "deleting"
    BY <1>3, <1>4, <2>1
  <2>4. ASSUME NEW y \in Replicas, listed', Alive(y)'
        PROVE  cloud'[y] = "active" \/ InHand(y)'
    <3>1. cloud[y] = "active" \/ InHand(y)
      BY <1>3, <2>1, <2>4 DEF CleanCloud, Things
    <3>2. waiting # <<"gone", y>>
      BY <1>1
    <3>3. InHand(y) => InHand(y)'
      BY <1>2, <3>2 DEF InHand
    <3>4. y = x => InHand(y)'
      BY <2>1 DEF InHand
    <3>5. y # x => cloud'[y] = cloud[y]
      BY <1>3, <1>4 DEF Things
    <3> QED
      BY <3>1, <3>3, <3>4, <3>5
  <2> QED
    BY <1>3, <2>1, <2>2, <2>3, <2>4 DEF CleanCloud
<1>5. CASE answer # "none"
  <2>1. EntryEnds(answer) /\ cloud' = cloud
    BY <1>1, <1>3, <1>5
  <2>2. ASSUME x = "share", Alive("share") PROVE FALSE
    <3>1. \A r \in Replicas : ~InHand(r)
      BY <1>1, <2>2 DEF InHand
    <3>2. \A r \in Replicas : Alive(r) => cloud[r] = "active"
      BY <1>1, <2>2, <3>1 DEF CleanCloud
    <3>3. Refusal(x) = {"none"}
      BY <2>2, <3>2 DEF Refusal
    <3> QED
      BY <1>0, <1>1, <1>5, <2>2, <3>3, DeleteWithoutFault
  <2>3. /\ method' \in {method, <<>>}
        /\ answer = "not_found" => reported' = reported
    BY <1>0, <1>1, <2>1, EntryEndsLists
  <2>4. ASSUME method = <<"new">> => cloud["new"] # "active"
        PROVE  answer = "not_found"
    <3>1. x # "share" => x = "new" /\ method = <<"new">>
      BY <1>0, <1>1, AtFacts
    <3>2. ~Alive(x)
      BY <1>3, <1>5, <2>2, <2>4, <3>1
    <3> QED
      BY <1>0, <1>1, <1>5, <3>2, DeleteWithoutFault
  <2> QED
    BY <1>0, <1>1, <2>1, <2>2, <2>3, <2>4, EntryEndsClean
<1> QED
  BY <1>4, <1>5

\* Waiting for a replica, or for the end of an entry.
LEMMA AwaitClean ==
  ASSUME IInv, Lists, CleanCloud, CleanShare, AwaitReplica \/ AwaitEntry,
         faults' = faults
  PROVE  /\ CleanCloud' /\ CleanShare'
         /\ reported' = reported /\ method' \in {method, <<>>}
<1>0. TypeOK /\ ShareKnown
  BY DEF IInv
<1>1. cloud' = cloud /\ todo' = todo /\ waiting # <<>>
  BY DEF AwaitReplica, AwaitEntry
<1>2. CASE AwaitReplica
  <2>1. PICK outcome \in Answers :
          /\ WaitCall("gone", waiting[2], outcome)
          /\ IF outcome = "none"
               THEN waiting' = <<>>
                    /\ UNCHANGED <<phase, listed, method, class, reported>>
               ELSE EntryEnds(outcome)
    BY <1>2 DEF AwaitReplica
  <2>2. outcome = "none" /\ ~Alive(waiting[2])
    BY <1>0, <1>1, <2>1, WaitClean
  <2>3. waiting' = <<>> /\ UNCHANGED <<phase, listed, method, class, reported>>
    BY <2>1, <2>2
  <2>4. CleanShare'
    BY <1>1, <2>3, SharePlace DEF Alive
  <2>5. ASSUME NEW y \in Replicas, listed', Alive(y)'
        PROVE  cloud'[y] = "active" \/ InHand(y)'
    <3>1. Alive(y) /\ (cloud[y] = "active" \/ InHand(y))
      BY <1>1, <2>3, <2>5 DEF CleanCloud, Alive
    <3>2. waiting # <<"gone", y>>
      BY <2>2, <3>1
    <3> QED
      BY <1>1, <3>1, <3>2 DEF InHand
  <2> QED
    BY <1>1, <2>3, <2>4, <2>5 DEF CleanCloud
<1>3. CASE AwaitEntry
  <2>1. PICK x \in Things, outcome \in Answers :
          /\ At(x) /\ waiting = <<"gone", x>> /\ WaitCall("gone", x, outcome)
          /\ EntryEnds(outcome)
    BY <1>3 DEF AwaitEntry
  <2>2. outcome = "none" /\ ~Alive(x)
    BY <1>0, <1>1, <2>1, WaitClean
  <2>3. reported' = reported /\ method' \in {method, <<>>}
    BY <1>0, <2>1, <2>2, EntryEndsLists
  <2> QED
    BY <1>0, <1>1, <2>1, <2>2, <2>3, EntryEndsClean
<1> QED
  BY <1>2, <1>3
\* The end of the test hands the share to the cleanups.
LEMMA TestEndClean ==
  ASSUME IInv, Lists, phase = "test", TestOver, cloud' = cloud,
         UNCHANGED cleanupVars, ~busy'
  PROVE  CleanCloud' /\ CleanShare'
<1>1. /\ waiting' = <<>> /\ phase' = "callbacks" /\ ~listed'
      /\ method' = method /\ class' = class
  BY DEF TestOver, Lists, cleanupVars
<1>2. \A r \in Replicas : cloud[r] # "promoting"
  BY DEF TestOver
<1>3. method = <<"share">> \/ class = <<"share">>
  BY DEF Lists
<1> QED
  BY <1>1, <1>2, <1>3 DEF CleanCloud, CleanShare

LEMMA StepClean == CInv /\ [Next]_vars => CleanInv'
<1> SUFFICES ASSUME CInv, [Next]_vars, Clean' PROVE CleanCloud' /\ CleanShare'
  BY DEF CleanInv
<1>0. /\ IInv /\ TypeOK /\ WaitsInScript /\ ShareKnown /\ Lists
      /\ (Alive("share")' => Alive("share"))
  BY StepShare DEF CInv, IInv, ShareKept
<1>1. CASE phase = "test"
  <2>1. TestOver /\ cloud' = cloud /\ UNCHANGED cleanupVars /\ ~busy'
    BY <1>0, <1>1, CleanBack DEF Clean
  <2> QED
    BY <1>0, <1>1, <2>1, TestEndClean
<1>2. CASE phase # "test"
  <2>1. CleanCloud /\ CleanShare /\ faults' = faults
    BY <1>0, <1>2, CleanBack DEF CInv, CleanInv
  <2>2. CASE CallBack
    <3>1. /\ Head(callbacks) = "old" /\ "old" \in Things
      BY <1>0, <2>2, TailFacts DEF CallBack, TypeOK, Things, Replicas
    <3>2. PICK answer \in Answers :
            /\ DeleteCall("old", answer)
            /\ waiting' = IF answer = "none" THEN <<"gone", "old">> ELSE <<>>
      BY <2>2, <3>1 DEF CallBack
    <3>3. ~listed' /\ UNCHANGED <<phase, method, class>>
      BY <1>0, <2>2 DEF CallBack, Lists
    <3>4. /\ \A r \in Replicas : cloud'[r] # "promoting"
          /\ answer = "none" => cloud'["old"] = "deleting"
      BY <1>0, <2>1, <3>1, <3>2, DeleteClean
    <3>5. waiting' # <<>> => waiting'[1] = "gone" /\ cloud'[waiting'[2]] = "deleting"
      BY <3>2, <3>4
    <3>6. CleanShare'
      BY <1>0, <2>1, <3>3, SharePlace
    <3> QED
      BY <3>3, <3>4, <3>5, <3>6 DEF CleanCloud
  <2>3. CASE AwaitCallBack
    <3>1. /\ cloud' = cloud /\ waiting' = <<>> /\ ~listed'
          /\ UNCHANGED <<phase, method, class>>
      BY <1>0, <2>3 DEF AwaitCallBack, cleanupVars, Lists
    <3>2. CleanShare'
      BY <1>0, <2>1, <3>1, SharePlace
    <3> QED
      BY <2>1, <3>1, <3>2 DEF CleanCloud
  <2>4. CASE CallBacksDone
    BY <1>0, <2>1, <2>4
    DEF CallBacksDone, CleanCloud, CleanShare, InHand, Alive
  <2>5. CASE ListReplicas
    <3>1. /\ waiting' = <<>> /\ UNCHANGED <<phase, cloud, method, class>>
          /\ {todo'[i] : i \in 1 .. Len(todo')} = {r \in Replicas : Alive(r)}
      BY <2>5 DEF ListReplicas
    <3>2. \A r \in Replicas : Alive(r)' => InHand(r)'
      BY <3>1 DEF InHand, Alive
    <3>3. CleanShare'
      BY <1>0, <2>1, <3>1, SharePlace
    <3> QED
      BY <2>1, <3>1, <3>2, <3>3 DEF CleanCloud
  <2>6. CASE ClearReplica
    BY <1>0, <2>1, <2>6, ClearReplicaClean
  <2>7. CASE DeleteEntry
    BY <1>0, <2>1, <2>7, DeleteEntryClean
  <2>8. CASE AwaitReplica \/ AwaitEntry
    BY <1>0, <2>1, <2>8, AwaitClean
  <2>9. CASE ListDone
    <3>1. /\ UNCHANGED <<waiting, cloud, method, class, listed, todo>>
          /\ \/ phase = "method" /\ method = <<>> /\ phase' \in {"method", "class"}
             \/ phase = "class" /\ class = <<>>
      BY <2>9 DEF ListDone, PassOver, List
    <3>2. <<>> # <<"share">>
      BY OneEntry
    <3>3. CleanShare'
      BY <2>1, <3>1, <3>2 DEF CleanShare, Alive
    <3> QED
      BY <2>1, <3>1, <3>3 DEF CleanCloud, InHand, Alive
  <2>10. CASE Manila
    <3>1. /\ UNCHANGED <<waiting, phase, method, class, listed, todo>>
          /\ \E x \in Things : Job(x)
      BY <2>10 DEF Manila, cleanupVars
    <3>2. \A y \in Things :
            /\ cloud'[y] # "promoting"
            /\ Alive(y)' => Alive(y)
            /\ cloud[y] = "active" => cloud'[y] \in {"active", "gone"}
            /\ cloud[y] \in {"absent", "deleting", "gone"} =>
                 cloud'[y] \in {"absent", "deleting", "gone"}
      BY <1>0, <2>1, <3>1, JobWithoutFault DEF CleanCloud
    <3>3. CleanShare'
      BY <1>0, <2>1, <3>1, SharePlace
    <3>4. waiting # <<>> => waiting[2] \in Things
      BY <1>0, WaitingFacts
    <3>5. \A r \in Replicas : r \in Things /\ (InHand(r)' <=> InHand(r))
      BY <3>1 DEF InHand, Things
    <3>6. listed' => \A r \in Replicas :
             Alive(r)' => cloud'[r] = "active" \/ InHand(r)'
      BY <2>1, <3>1, <3>2, <3>5 DEF CleanCloud, Alive
    <3> QED
      BY <2>1, <3>1, <3>2, <3>3, <3>4, <3>5, <3>6 DEF CleanCloud
  <2>11. CASE UNCHANGED vars
    BY <2>1, <2>11
    DEF vars, cleanupVars, CleanCloud, CleanShare, InHand, Alive
  <2>12. ~TestPasses /\ ~AssertionFails /\ ~WaitOfTest
    BY <1>2 DEF TestPasses, AssertionFails, WaitOfTest
  <2>13. /\ ~CreateReplica /\ ~RegisterDeletion
         /\ \A r \in Replicas : ~Synchronise(r) /\ ~Reset(r) /\ ~Promote(r)
         /\ \A x \in Things : ~TestDeletes(x)
    BY <1>2
    DEF CreateReplica, RegisterDeletion, Synchronise, Reset, Promote,
        TestDeletes, AtStep
  <2> QED
    BY <2>2, <2>3, <2>4, <2>5, <2>6, <2>7, <2>8, <2>9, <2>10, <2>11, <2>12,
       <2>13
    DEF Next, Worker
<1> QED
  BY <1>1, <1>2

LEMMA InitCInv == Init => CInv
<1> SUFFICES ASSUME Init PROVE CInv
  OBVIOUS
<1>1. IInv
  BY InitIInv
<1>2. CleanInv
  BY DEF Init, CleanInv, Clean
<1>3. Lists
  <2>1. <<>> # <<"new">> /\ <<"share">> # <<"new">>
    BY OneEntry
  <2> QED
    BY <2>1 DEF Init, Lists
<1> QED
  BY <1>1, <1>2, <1>3 DEF CInv

\* Wherever a test fails, unless it is in the middle of a promotion: the
\* callbacks, clear_share_replicas and clear_resources remove the share and
\* both of its replicas, whichever is the active one, as long as nothing else
\* fails.
THEOREM CleanedUp == Spec => []CleanedUpWhereverItFails
<1>1. CInv /\ [Next]_vars => CInv'
  BY StepIInv, StepLists, StepClean DEF CInv
<1>2. CInv => CleanedUpWhereverItFails
  BY DEF CInv, IInv, CleanInv, Clean, CleanShare, ReplicasWithShare,
         CleanedUpWhereverItFails, Things
<1> QED
  BY <1>1, <1>2, InitCInv, PTL DEF Spec
-----------------------------------------------------------------------------
(* What a test finds as long as nothing has failed.                        *)

\* The roles before every step of a script, and after the last one: the active
\* replica, or "none" when the share is gone, and the condition of the other.
Outline ==
  [promote_out_of_sync |->
     << <<"old", "none">>, <<"old", "backup">>, <<"old", "backup">>,
        <<"old", "backup">>, <<"new", "backup">>, <<"new", "backup">> >>,
   promote_in_sync |->
     << <<"old", "none">>, <<"old", "backup">>, <<"old", "backup">>,
        <<"new", "backup">>, <<"new", "backup">> >>,
   snapshots |->
     << <<"old", "none">>, <<"old", "backup">>, <<"old", "backup">>,
        <<"old", "backup">>, <<"new", "backup">>, <<"new", "gone">> >>,
   export_locations |->
     << <<"old", "none">>, <<"old", "backup">>, <<"old", "backup">>,
        <<"new", "backup">>, <<"new", "gone">> >>,
   policy_lifecycle |->
     << <<"old", "none">>, <<"old", "backup">>, <<"old", "backup">>,
        <<"new", "backup">>, <<"new", "gone">>, <<"none", "gone">> >>,
   policy_promote_back |->
     << <<"old", "none">>, <<"old", "backup">>, <<"old", "backup">>,
        <<"new", "backup">>, <<"new", "backup">>, <<"old", "backup">>,
        <<"old", "backup">>, <<"old", "gone">>, <<"none", "gone">> >>,
   promote_back |->
     << <<"old", "none">>, <<"old", "backup">>, <<"old", "backup">>,
        <<"new", "backup">>, <<"new", "backup">>, <<"old", "backup">>,
        <<"old", "backup">> >>]

Condition ==
  [none |-> {"absent"}, backup |-> {"out_of_sync", "in_sync"}, gone |-> {"gone"}]

\* What a point of the outline says of the cloud.
Roles(lead, other) ==
  IF lead = "none"
    THEN \A x \in Things : ~Alive(x)
    ELSE /\ cloud[lead] = "active" /\ cloud["share"] = "active"
         /\ cloud[Other(lead)] \in Condition[other]

\* The tests that register the deletion of the original replica.
Registers == {"promote_out_of_sync", "promote_in_sync", "snapshots"}

\* A step of test t between two points of its outline.
Leads(t, s, o, p) ==
  \/ /\ s \in {<<"create", "new">>, <<"create_unlisted", "new">>}
     /\ o = <<"old", "none">> /\ p = <<"old", "backup">>
  \/ s = <<"register", "old">> /\ p = o /\ t \in Registers
     /\ o[1] \in Replicas /\ o[2] = "backup"
  \/ \E x \in Replicas :
       /\ s \in {<<"sync", x>>, <<"reset", x>>}
       /\ o = <<Other(x), "backup">> /\ p = o
  \/ \E x \in Replicas :
       /\ s = <<"promote", x>>
       /\ o = <<Other(x), "backup">> /\ p = <<x, "backup">>
  \/ \E x \in Replicas :
       /\ s = <<"delete", x>>
       /\ o = <<Other(x), "backup">> /\ p = <<Other(x), "gone">>
  \/ \E x \in Replicas :
       /\ s = <<"delete", "share">>
       /\ o = <<x, "gone">> /\ p = <<"none", "gone">>

LEMMA OutlineSteps ==
  ASSUME NEW t \in DOMAIN Script, NEW n \in 1 .. Len(Script[t])
  PROVE  Leads(t, Script[t][n], Outline[t][n], Outline[t][n + 1])
<1>1. t \in {"promote_out_of_sync", "promote_in_sync", "snapshots",
             "export_locations", "policy_lifecycle", "policy_promote_back",
             "promote_back"}
  BY DEF Script
<1>2. CASE t = "promote_out_of_sync"
  BY <1>2 DEF Script, Outline, Leads, Registers, Replicas, Other
<1>3. CASE t = "promote_in_sync"
  BY <1>3 DEF Script, Outline, Leads, Registers, Replicas, Other
<1>4. CASE t = "snapshots"
  BY <1>4 DEF Script, Outline, Leads, Registers, Replicas, Other
<1>5. CASE t = "export_locations"
  BY <1>5 DEF Script, Outline, Leads, Registers, Replicas, Other
<1>6. CASE t = "policy_lifecycle"
  BY <1>6 DEF Script, Outline, Leads, Registers, Replicas, Other
<1>7. CASE t = "policy_promote_back"
  BY <1>7 DEF Script, Outline, Leads, Registers, Replicas, Other
<1>8. CASE t = "promote_back"
  BY <1>8 DEF Script, Outline, Leads, Registers, Replicas, Other
<1> QED
  BY <1>1, <1>2, <1>3, <1>4, <1>5, <1>6, <1>7, <1>8

\* Where a test ends: the replica whose deletion it has left to the cleanups is
\* not the active one.
LEMMA OutlineEnds ==
  ASSUME NEW t \in DOMAIN Script
  PROVE  LET p == Outline[t][Len(Script[t]) + 1] IN
         /\ p[1] \in {"old", "new", "none"} /\ p[2] \in DOMAIN Condition
         /\ t \in Registers => p[1] = "new"
         /\ t = "promote_back" => p[1] = "old"
<1>1. t \in {"promote_out_of_sync", "promote_in_sync", "snapshots",
             "export_locations", "policy_lifecycle", "policy_promote_back",
             "promote_back"}
  BY DEF Script
<1>2. ASSUME t = "promote_out_of_sync"
      PROVE  Outline[t][Len(Script[t]) + 1] = <<"new", "backup">>
  <2>1. Len(Script[t]) + 1 = 5 + 1
    BY <1>2 DEF Script
  <2> QED
    BY <1>2, <2>1 DEF Outline
<1>3. ASSUME t = "promote_in_sync"
      PROVE  Outline[t][Len(Script[t]) + 1] = <<"new", "backup">>
  <2>1. Len(Script[t]) + 1 = 4 + 1
    BY <1>3 DEF Script
  <2> QED
    BY <1>3, <2>1 DEF Outline
<1>4. ASSUME t = "snapshots"
      PROVE  Outline[t][Len(Script[t]) + 1] = <<"new", "gone">>
  <2>1. Len(Script[t]) + 1 = 5 + 1
    BY <1>4 DEF Script
  <2> QED
    BY <1>4, <2>1 DEF Outline
<1>5. ASSUME t = "export_locations"
      PROVE  Outline[t][Len(Script[t]) + 1] = <<"new", "gone">>
  <2>1. Len(Script[t]) + 1 = 4 + 1
    BY <1>5 DEF Script
  <2> QED
    BY <1>5, <2>1 DEF Outline
<1>6. ASSUME t = "policy_lifecycle"
      PROVE  Outline[t][Len(Script[t]) + 1] = <<"none", "gone">>
  <2>1. Len(Script[t]) + 1 = 5 + 1
    BY <1>6 DEF Script
  <2> QED
    BY <1>6, <2>1 DEF Outline
<1>7. ASSUME t = "policy_promote_back"
      PROVE  Outline[t][Len(Script[t]) + 1] = <<"none", "gone">>
  <2>1. Len(Script[t]) + 1 = 8 + 1
    BY <1>7 DEF Script
  <2> QED
    BY <1>7, <2>1 DEF Outline
<1>8. ASSUME t = "promote_back"
      PROVE  Outline[t][Len(Script[t]) + 1] = <<"old", "backup">>
  <2>1. Len(Script[t]) + 1 = 6 + 1
    BY <1>8 DEF Script
  <2> QED
    BY <1>8, <2>1 DEF Outline
<1>9. /\ "backup" \in DOMAIN Condition /\ "gone" \in DOMAIN Condition
  BY DEF Condition
<1> QED
  BY <1>1, <1>2, <1>3, <1>4, <1>5, <1>6, <1>7, <1>8, <1>9
  DEF Registers

\* A wait between two points, for the step that verb and x name.
Waited(lead, other, verb, x) ==
  \/ /\ verb \in {"create", "create_unlisted"} /\ waiting = <<"available", "new">>
     /\ cloud["old"] = "active" /\ cloud["share"] = "active"
     /\ cloud["new"] \in {"creating", "out_of_sync", "in_sync"}
  \/ verb = "sync" /\ waiting = <<"in_sync", x>> /\ Roles(lead, other)
  \/ /\ verb = "reset" /\ waiting = <<"out_of_sync", x>>
     /\ Roles(lead, other) /\ cloud[x] = "out_of_sync"
  \/ /\ verb = "promote" /\ waiting = <<"active", x>>
     /\ cloud["share"] = "active"
     /\ \/ cloud[x] = "promoting" /\ cloud[Other(x)] = "active"
        \/ cloud[x] = "active" /\ cloud[Other(x)] \in Condition["backup"]
  \/ /\ verb = "delete" /\ x # "share" /\ waiting = <<"gone", x>>
     /\ cloud["share"] = "active" /\ cloud[lead] = "active"
     /\ cloud[x] \in {"deleting", "gone"}
  \/ /\ verb = "delete" /\ x = "share" /\ waiting = <<"gone", "share">>
     /\ \/ Roles("none", "gone")
        \/ /\ cloud["share"] = "deleting" /\ cloud[lead] = "active"
           /\ cloud[Other(lead)] = "gone"

Orderly ==
  LET o == Outline[test][step] IN
  IF waiting = <<>>
    THEN Roles(o[1], o[2])
    ELSE /\ step <= Len(Script[test])
         /\ Waited(o[1], o[2], Step[1], Step[2])

\* As long as nothing has failed, a test is where its outline says, and it
\* leaves the cleanups no replica that is active.
Calm ==
  /\ ~reported /\ ~busy
  /\ phase = "test" => Orderly
  /\ callbacks # <<>> =>
       /\ test \in Registers
       /\ phase # "test" => phase = "callbacks" /\ cloud["old"] # "active"
  /\ method = <<"new">> /\ phase # "test" => cloud["new"] # "active"

CalmInv == faults = 0 => Calm

OInv == CInv /\ CalmInv

LEMMA ReplicaFacts ==
  /\ \A x \in Replicas : /\ Other(x) \in Replicas /\ Other(x) # x
                       /\ Other(Other(x)) = x /\ x # "share" /\ x \in Things
                       /\ x # "none" /\ x \in {"old", "new"}
  /\ \A y \in Things, x \in Replicas : y \in {x, Other(x), "share"}
  /\ Other("old") = "new" /\ Other("new") = "old"
  /\ "share" \in Things /\ "new" \in Replicas /\ "old" \in Replicas
BY DEF Replicas, Other, Things

\* What a job may be, if it is not a fault.
LEMMA JobWell ==
  ASSUME TypeOK, NEW x \in Things, Job(x), faults' = faults
  PROVE  \/ cloud[x] = "creating" /\ cloud' = [cloud EXCEPT ![x] = "out_of_sync"]
         \/ /\ cloud[x] = "out_of_sync" /\ waiting # <<"out_of_sync", x>>
            /\ cloud' = [cloud EXCEPT ![x] = "in_sync"]
         \/ /\ cloud[x] = "promoting"
            /\ cloud' = [cloud EXCEPT ![x] = "active",
                           ![Other(x)] = IF @ = "active" THEN "out_of_sync" ELSE @]
         \/ /\ cloud[x] = "deleting"
            /\ IF x = "share"
                 THEN cloud' = [y \in Things |-> IF Alive(y) THEN "gone"
                                                           ELSE cloud[y]]
                 ELSE cloud' = [cloud EXCEPT ![x] = "gone"]
<1>1. faults \in Nat
  BY ReplicaPromotionAssumption DEF TypeOK
<1>2. ~Fault
  BY <1>1 DEF Fault
<1> QED
  BY <1>2 DEF Job, Set

\* Between two steps Manila does not change the roles.
LEMMA JobRoles ==
  ASSUME TypeOK, NEW lead \in Replicas, NEW other \in DOMAIN Condition,
         Roles(lead, other), NEW x \in Things, Job(x), faults' = faults
  PROVE  /\ Roles(lead, other)'
         /\ waiting # <<"out_of_sync", Other(lead)>>
<1>1. cloud \in [Things -> States]
  BY DEF TypeOK, States
<1>2. /\ cloud[lead] = "active" /\ cloud["share"] = "active"
      /\ cloud[Other(lead)] \in Condition[other] /\ lead # "none"
  BY ReplicaFacts DEF Roles
<1>3. cloud[Other(lead)] \in {"absent", "out_of_sync", "in_sync", "gone"}
  BY <1>2 DEF Condition
<1>4. /\ x = Other(lead) /\ cloud[x] = "out_of_sync"
      /\ waiting # <<"out_of_sync", x>>
      /\ cloud' = [cloud EXCEPT ![x] = "in_sync"]
  BY <1>2, <1>3, JobWell, ReplicaFacts
<1>5. other = "backup"
  BY <1>2, <1>4 DEF Condition
<1> QED
  BY <1>1, <1>2, <1>4, <1>5, ReplicaFacts DEF Roles, Condition

LEMMA JobGone ==
  ASSUME TypeOK, NEW other, Roles("none", other), NEW x \in Things, Job(x),
         faults' = faults
  PROVE  FALSE
BY JobWell DEF Roles, Alive
\* A step of a script, verb by verb.
LEMMA LeadsCases ==
  ASSUME NEW t, NEW s, NEW o, NEW p, Leads(t, s, o, p)
  PROVE  \/ /\ s[1] \in {"create", "create_unlisted"} /\ s[2] = "new"
            /\ o[1] = "old" /\ o[2] = "none" /\ p[1] = "old" /\ p[2] = "backup"
         \/ /\ s[1] = "register" /\ p = o /\ t \in Registers
            /\ o[1] \in Replicas /\ o[2] = "backup"
         \/ /\ s[1] \in {"sync", "reset"} /\ s[2] \in Replicas
            /\ o[1] = Other(s[2]) /\ o[2] = "backup" /\ p = o
         \/ /\ s[1] = "promote" /\ s[2] \in Replicas
            /\ o[1] = Other(s[2]) /\ o[2] = "backup"
            /\ p[1] = s[2] /\ p[2] = "backup"
         \/ /\ s[1] = "delete" /\ s[2] \in Replicas /\ s[2] # "share"
            /\ o[1] = Other(s[2]) /\ o[2] = "backup"
            /\ p[1] = Other(s[2]) /\ p[2] = "gone"
         \/ /\ s[1] = "delete" /\ s[2] = "share"
            /\ o[1] \in Replicas /\ o[2] = "gone"
            /\ p[1] = "none" /\ p[2] = "gone"
BY DEF Leads, Replicas

\* While a test waits, Manila does what the wait is for.
LEMMA JobWaited ==
  ASSUME TypeOK, NEW t, NEW s, NEW o, NEW p, Leads(t, s, o, p),
         Waited(o[1], o[2], s[1], s[2]),
         NEW x \in Things, Job(x), faults' = faults, waiting' = waiting
  PROVE  Waited(o[1], o[2], s[1], s[2])'
<1>1. cloud \in [Things -> States]
  BY DEF TypeOK, States
<1>2. CASE /\ s[1] \in {"create", "create_unlisted"} /\ s[2] = "new"
  <2>1. /\ waiting = <<"available", "new">>
        /\ cloud["old"] = "active" /\ cloud["share"] = "active"
        /\ cloud["new"] \in {"creating", "out_of_sync", "in_sync"}
    BY <1>2 DEF Waited
  <2>2. x = "new" /\ cloud'["new"] \in {"out_of_sync", "in_sync"}
    BY <1>1, <2>1, JobWell DEF Things, Replicas
  <2>3. cloud'["old"] = "active" /\ cloud'["share"] = "active"
    BY <1>1, <2>1, <2>2, JobWell DEF Things, Replicas
  <2> QED
    BY <1>2, <2>1, <2>2, <2>3 DEF Waited
<1>3. CASE s[1] = "register"
  BY <1>3 DEF Waited
<1>4. CASE /\ s[1] \in {"sync", "reset"} /\ s[2] \in Replicas
           /\ o[1] = Other(s[2]) /\ o[2] = "backup"
  <2>1. /\ Roles(o[1], o[2]) /\ o[1] \in Replicas /\ Other(o[1]) = s[2]
        /\ o[2] \in DOMAIN Condition
        /\ waiting = IF s[1] = "sync" THEN <<"in_sync", s[2]>>
                                     ELSE <<"out_of_sync", s[2]>>
    BY <1>4, ReplicaFacts DEF Waited, Condition
  <2>2. /\ Roles(o[1], o[2])'
        /\ waiting # <<"out_of_sync", s[2]>>
    BY <2>1, JobRoles
  <2>3. s[1] = "sync"
    BY <1>4, <2>1, <2>2
  <2> QED
    BY <2>1, <2>2, <2>3 DEF Waited
<1>5. CASE s[1] = "promote" /\ s[2] \in Replicas
  <2> DEFINE y == s[2]
  <2>1. /\ waiting = <<"active", y>> /\ cloud["share"] = "active"
        /\ \/ cloud[y] = "promoting" /\ cloud[Other(y)] = "active"
           \/ cloud[y] = "active" /\ cloud[Other(y)] \in {"out_of_sync", "in_sync"}
    BY <1>5 DEF Waited, Condition
  <2>2. y \in Things /\ Other(y) \in Things /\ Other(y) # y /\ Other(Other(y)) = y
        /\ y # "share" /\ Other(y) # "share" /\ x \in {y, Other(y), "share"}
    BY <1>5, ReplicaFacts
  <2>3. CASE cloud[y] = "promoting" /\ cloud[Other(y)] = "active"
    <3>1. /\ x = y
          /\ cloud' = [cloud EXCEPT ![y] = "active", ![Other(y)] = "out_of_sync"]
      BY <2>1, <2>2, <2>3, JobWell
    <3>2. /\ cloud'[y] = "active" /\ cloud'[Other(y)] = "out_of_sync"
          /\ cloud'["share"] = "active"
      <4>1. cloud'[Other(y)] = "out_of_sync"
        BY <1>1, <2>2, <3>1
      <4>2. cloud'[y] = "active"
        BY <1>1, <2>2, <3>1
      <4>3. "share" \in Things \ {y, Other(y)}
        BY <2>2, ReplicaFacts
      <4>4. cloud'["share"] = "active"
        BY <1>1, <2>1, <2>2, <3>1, <4>3
      <4> QED
        BY <4>1, <4>2, <4>4
    <3>3. cloud'[Other(y)] \in Condition["backup"]
      BY <3>2 DEF Condition
    <3>4. waiting' = <<"active", y>>
      BY <2>1
    <3> QED
      BY <1>5, <3>2, <3>3, <3>4 DEF Waited
  <2>4. CASE cloud[y] = "active" /\ cloud[Other(y)] \in {"out_of_sync", "in_sync"}
    <3>1. /\ x = Other(y)
          /\ cloud' = [cloud EXCEPT ![Other(y)] = "in_sync"]
      BY <2>1, <2>2, <2>4, JobWell
    <3>2. /\ cloud'[y] = "active" /\ cloud'[Other(y)] = "in_sync"
          /\ cloud'["share"] = "active"
      BY <1>1, <2>1, <2>2, <2>4, <3>1
    <3> QED
      BY <1>5, <2>1, <3>2 DEF Waited, Condition
  <2> QED
    BY <2>1, <2>3, <2>4
<1>6. CASE /\ s[1] = "delete" /\ s[2] \in Replicas /\ s[2] # "share"
           /\ o[1] = Other(s[2])
  <2> DEFINE y == s[2]
  <2>1. /\ waiting = <<"gone", y>> /\ cloud["share"] = "active"
        /\ cloud[o[1]] = "active" /\ cloud[y] \in {"deleting", "gone"}
    BY <1>6 DEF Waited
  <2>2. /\ y \in Things /\ o[1] \in Things /\ o[1] # y /\ o[1] # "share"
        /\ x \in {y, o[1], "share"}
    BY <1>6, ReplicaFacts
  <2>3. x = y /\ cloud' = [cloud EXCEPT ![y] = "gone"]
    BY <1>6, <2>1, <2>2, JobWell
  <2>4. /\ cloud'["share"] = "active" /\ cloud'[o[1]] = "active"
        /\ cloud'[y] = "gone"
    BY <1>1, <1>6, <2>1, <2>2, <2>3
  <2> QED
    BY <1>6, <2>1, <2>4 DEF Waited
<1>7. CASE s[1] = "delete" /\ s[2] = "share" /\ o[1] \in Replicas
  <2>1. waiting = <<"gone", "share">>
    BY <1>7 DEF Waited
  <2>2. ~Roles("none", "gone")
    BY JobGone
  <2>3. /\ cloud["share"] = "deleting" /\ cloud[o[1]] = "active"
        /\ cloud[Other(o[1])] = "gone"
    BY <1>7, <2>2 DEF Waited
  <2>4. x \in {o[1], Other(o[1]), "share"}
    BY <1>7, ReplicaFacts
  <2>5. x = "share"
    BY <2>3, <2>4, JobWell
  <2>6. cloud' = [y \in Things |-> IF Alive(y) THEN "gone" ELSE cloud[y]]
    BY <2>3, <2>5, JobWell
  <2>7. \A y \in Things : cloud'[y] \in {"absent", "gone"}
    BY <1>1, <2>6 DEF Alive
  <2>8. Roles("none", "gone")'
    BY <2>7 DEF Roles, Alive
  <2> QED
    BY <1>7, <2>1, <2>8 DEF Waited
<1> QED
  BY <1>2, <1>3, <1>4, <1>5, <1>6, <1>7, LeadsCases

\* And the wait ends as it should, at the next point of the outline.
LEMMA WaitedEnds ==
  ASSUME TypeOK, NEW t, NEW s, NEW o, NEW p, Leads(t, s, o, p),
         Waited(o[1], o[2], s[1], s[2]), NEW outcome,
         WaitCall(waiting[1], waiting[2], outcome), faults' = faults
  PROVE  outcome = "none" /\ Roles(p[1], p[2])
<1>1. CASE /\ s[1] \in {"create", "create_unlisted"} /\ s[2] = "new"
           /\ p[1] = "old" /\ p[2] = "backup"
  <2>1. /\ waiting[1] = "available" /\ waiting[2] = "new"
        /\ cloud["old"] = "active" /\ cloud["share"] = "active"
        /\ cloud["new"] \in {"creating", "out_of_sync", "in_sync"}
    BY <1>1 DEF Waited
  <2>2. outcome = "none" /\ cloud["new"] \in {"out_of_sync", "in_sync"}
    BY <2>1, WaitWithoutFault
  <2> QED
    BY <1>1, <2>1, <2>2, ReplicaFacts DEF Roles, Condition
<1>2. CASE s[1] = "register"
  BY <1>2 DEF Waited
<1>3. CASE /\ s[1] \in {"sync", "reset"} /\ s[2] \in Replicas
           /\ o[1] = Other(s[2]) /\ o[2] = "backup" /\ p = o
  <2>1. /\ Roles(o[1], o[2]) /\ waiting[2] = s[2]
        /\ \/ waiting[1] = "in_sync"
           \/ waiting[1] = "out_of_sync" /\ cloud[s[2]] = "out_of_sync"
    BY <1>3 DEF Waited
  <2>2. cloud[s[2]] \in {"out_of_sync", "in_sync"}
    BY <1>3, <2>1, ReplicaFacts DEF Roles, Condition
  <2>3. outcome = "none"
    BY <2>1, <2>2, WaitWithoutFault
  <2> QED
    BY <1>3, <2>1, <2>3
<1>4. CASE /\ s[1] = "promote" /\ s[2] \in Replicas
           /\ p[1] = s[2] /\ p[2] = "backup"
  <2>1. /\ waiting[1] = "active" /\ waiting[2] = s[2] /\ cloud["share"] = "active"
        /\ \/ cloud[s[2]] = "promoting"
           \/ /\ cloud[s[2]] = "active"
              /\ cloud[Other(s[2])] \in Condition["backup"]
    BY <1>4 DEF Waited
  <2>2. outcome = "none" /\ cloud[s[2]] = "active"
    BY <2>1, WaitWithoutFault
  <2> QED
    BY <1>4, <2>1, <2>2, ReplicaFacts DEF Roles
<1>5. CASE /\ s[1] = "delete" /\ s[2] \in Replicas /\ s[2] # "share"
           /\ o[1] = Other(s[2]) /\ p[1] = Other(s[2]) /\ p[2] = "gone"
  <2>1. /\ waiting[1] = "gone" /\ waiting[2] = s[2]
        /\ cloud["share"] = "active" /\ cloud[o[1]] = "active"
        /\ cloud[s[2]] \in {"deleting", "gone"}
    BY <1>5 DEF Waited
  <2>2. outcome = "none" /\ cloud[s[2]] = "gone"
    BY <2>1, WaitWithoutFault DEF Alive
  <2> QED
    BY <1>5, <2>1, <2>2, ReplicaFacts DEF Roles, Condition
<1>6. CASE /\ s[1] = "delete" /\ s[2] = "share" /\ p[1] = "none" /\ p[2] = "gone"
  <2>1. /\ waiting[1] = "gone" /\ waiting[2] = "share"
        /\ Roles("none", "gone") \/ cloud["share"] = "deleting"
    BY <1>6 DEF Waited
  <2>2. cloud["share"] # "stuck"
    BY <2>1, ReplicaFacts DEF Roles, Alive
  <2>3. outcome = "none" /\ ~Alive("share")
    BY <2>1, <2>2, WaitWithoutFault DEF Alive
  <2>4. cloud["share"] # "deleting"
    BY <2>3 DEF Alive
  <2>5. Roles("none", "gone")
    BY <2>1, <2>4
  <2> QED
    BY <1>6, <2>3, <2>5
<1> QED
  BY <1>1, <1>2, <1>3, <1>4, <1>5, <1>6, LeadsCases
\* The step that the test is at, and the points around it.
LEMMA AtPoint ==
  ASSUME TypeOK, step <= Len(Script[test])
  PROVE  Leads(test, Step, Outline[test][step], Outline[test][step + 1])
<1>1. test \in DOMAIN Script /\ step \in 1 .. Len(Script[test])
  BY ScriptFacts DEF TypeOK
<1> QED
  BY <1>1, OutlineSteps DEF Step

\* The step passes.
LEMMA PassesOrderly ==
  ASSUME Passed, test' = test, NEW lead, NEW other,
         lead = Outline[test][step + 1][1], other = Outline[test][step + 1][2],
         Roles(lead, other)'
  PROVE  Orderly'
BY DEF Passed, Orderly

\* The step waits.
LEMMA AwaitsOrderly ==
  ASSUME NEW goal, NEW x, Await(goal, x), test' = test,
         step <= Len(Script[test]), NEW lead, NEW other, NEW verb, NEW y,
         lead = Outline[test][step][1], other = Outline[test][step][2],
         verb = Step[1], y = Step[2], Waited(lead, other, verb, y)'
  PROVE  Orderly'
<1>1. waiting' # <<>> /\ step' = step
  BY DEF Await
<1> QED
  BY <1>1 DEF Orderly, Step

\* A test begins a step: the verb finds its precondition.
LEMMA BeginsOrderly ==
  ASSUME TypeOK, phase = "test", waiting = <<>>, Orderly, faults' = faults,
         \/ CreateReplica \/ RegisterDeletion
         \/ \E r \in Replicas : Synchronise(r) \/ Reset(r) \/ Promote(r)
         \/ \E x \in Things : TestDeletes(x)
  PROVE  /\ Orderly' /\ UNCHANGED <<test, phase, reported, busy>>
         /\ callbacks' # callbacks => test \in Registers
<1>0. PICK lead, other, verb, y, p :
        /\ lead = Outline[test][step][1] /\ other = Outline[test][step][2]
        /\ verb = Step[1] /\ y = Step[2] /\ p = Outline[test][step + 1]
  OBVIOUS
<1>1. /\ step <= Len(Script[test]) /\ test' = test
      /\ callbacks' # callbacks => verb = "register"
  BY <1>0
  DEF CreateReplica, RegisterDeletion, Synchronise, Reset, Promote,
      TestDeletes, AtStep, cleanupVars
<1>2. /\ verb \in {"create", "create_unlisted"} => lead = "old"
      /\ verb = "register" =>
           p[1] = lead /\ p[2] = other /\ test \in Registers
      /\ verb \in {"sync", "reset", "promote"} =>
           lead = Other(y) /\ other = "backup"
      /\ verb = "delete" /\ y # "share" =>
           y \in Replicas /\ lead = Other(y) /\ other = "backup"
      /\ verb = "delete" /\ y = "share" => lead \in Replicas /\ other = "gone"
  <2> DEFINE o == Outline[test][step]
             s == Step
  <2>1. Leads(test, s, o, p)
    BY <1>0, <1>1, AtPoint
  <2> HIDE DEF o, s
  <2>2. "share" \notin Replicas
    BY ReplicaFacts
  <2>3. /\ s[1] \in {"create", "create_unlisted"} => o[1] = "old"
        /\ s[1] = "register" => p = o /\ test \in Registers
        /\ s[1] \in {"sync", "reset", "promote"} =>
             o[1] = Other(s[2]) /\ o[2] = "backup"
        /\ s[1] = "delete" /\ s[2] # "share" =>
             s[2] \in Replicas /\ o[1] = Other(s[2]) /\ o[2] = "backup"
        /\ s[1] = "delete" /\ s[2] = "share" => o[1] \in Replicas /\ o[2] = "gone"
    BY <2>1, <2>2, LeadsCases
  <2> QED
    BY <1>0, <2>3 DEF o, s
<1>3. cloud \in [Things -> States] /\ Roles(lead, other)
  BY <1>0 DEF TypeOK, States, Orderly
<1>4. ASSUME NEW goal, NEW x, Await(goal, x), Waited(lead, other, verb, y)',
             verb # "register"
      PROVE  /\ Orderly' /\ UNCHANGED <<test, phase, reported, busy>>
             /\ callbacks' # callbacks => test \in Registers
  <2>1. Orderly'
    BY <1>0, <1>1, <1>4, AwaitsOrderly
  <2> QED
    BY <1>1, <1>4, <2>1 DEF Await
<1>5. CASE CreateReplica
  <2>1. /\ y = "new" /\ verb \in {"create", "create_unlisted"}
        /\ Await("available", "new")
        /\ cloud' = [cloud EXCEPT !["new"] = "creating"]
    BY <1>0, <1>5 DEF CreateReplica, AtStep, Set
  <2>2. lead = "old"
    BY <1>2, <2>1
  <2>3. /\ cloud'["old"] = "active" /\ cloud'["share"] = "active"
        /\ cloud'["new"] = "creating"
    BY <1>3, <2>1, <2>2, ReplicaFacts DEF Roles
  <2>4. Waited(lead, other, verb, y)'
    BY <2>1, <2>3 DEF Waited, Await
  <2> QED
    BY <1>4, <2>1, <2>4
<1>6. CASE RegisterDeletion
  <2>1. verb = "register" /\ cloud' = cloud /\ Passed
    BY <1>0, <1>6 DEF RegisterDeletion, AtStep
  <2>2. p[1] = lead /\ p[2] = other /\ test \in Registers
    BY <1>2, <2>1
  <2>3. Roles(lead, other)'
    BY <1>3, <2>1 DEF Roles, Alive
  <2>4. Orderly'
    BY <1>0, <1>1, <2>1, <2>2, <2>3, PassesOrderly
  <2> QED
    BY <1>1, <2>1, <2>2, <2>4 DEF Passed
<1>7. ASSUME NEW r \in Replicas, Synchronise(r)
      PROVE  /\ Orderly' /\ UNCHANGED <<test, phase, reported, busy>>
             /\ callbacks' # callbacks => test \in Registers
  <2>1. verb = "sync" /\ y = r /\ cloud' = cloud /\ Await("in_sync", r)
    BY <1>0, <1>7 DEF Synchronise, AtStep
  <2>2. Roles(lead, other)'
    BY <1>3, <2>1 DEF Roles, Alive
  <2>3. Waited(lead, other, verb, y)'
    BY <2>1, <2>2 DEF Waited, Await
  <2> QED
    BY <1>4, <2>1, <2>3
<1>8. ASSUME NEW r \in Replicas, Reset(r)
      PROVE  /\ Orderly' /\ UNCHANGED <<test, phase, reported, busy>>
             /\ callbacks' # callbacks => test \in Registers
  <2>1. /\ verb = "reset" /\ y = r /\ Await("out_of_sync", r)
        /\ cloud' = [cloud EXCEPT ![r] = "out_of_sync"]
    BY <1>0, <1>8 DEF Reset, AtStep, Set
  <2>2. lead = Other(r) /\ other = "backup"
    BY <1>2, <2>1
  <2>3. /\ cloud'[lead] = "active" /\ cloud'["share"] = "active"
        /\ cloud'[r] = "out_of_sync" /\ Other(lead) = r
    BY <1>3, <2>1, <2>2, ReplicaFacts DEF Roles
  <2>4. Roles(lead, other)'
    BY <2>2, <2>3, ReplicaFacts DEF Roles, Condition
  <2>5. Waited(lead, other, verb, y)'
    BY <2>1, <2>3, <2>4 DEF Waited, Await
  <2> QED
    BY <1>4, <2>1, <2>5
<1>9. ASSUME NEW r \in Replicas, Promote(r)
      PROVE  /\ Orderly' /\ UNCHANGED <<test, phase, reported, busy>>
             /\ callbacks' # callbacks => test \in Registers
  <2>1. verb = "promote" /\ y = r
    BY <1>0, <1>9 DEF Promote, AtStep
  <2>2. lead = Other(r) /\ other = "backup"
    BY <1>2, <2>1
  <2>3. /\ cloud[lead] = "active" /\ cloud["share"] = "active"
        /\ cloud[r] \in {"out_of_sync", "in_sync"} /\ Other(lead) = r
    BY <1>3, <2>2, ReplicaFacts DEF Roles, Condition
  <2>4. cloud' = [cloud EXCEPT ![r] = "promoting"] /\ Await("active", r)
    BY <1>9, <2>3 DEF Promote, Set
  <2>5. /\ cloud'[lead] = "active" /\ cloud'["share"] = "active"
        /\ cloud'[r] = "promoting"
    BY <1>3, <2>2, <2>3, <2>4, ReplicaFacts
  <2>6. Waited(lead, other, verb, y)'
    BY <2>1, <2>2, <2>4, <2>5 DEF Waited, Await
  <2> QED
    BY <1>4, <2>1, <2>4, <2>6
<1>10. ASSUME NEW x \in Things, TestDeletes(x)
       PROVE  /\ Orderly' /\ UNCHANGED <<test, phase, reported, busy>>
              /\ callbacks' # callbacks => test \in Registers
  <2>1. verb = "delete" /\ y = x
    BY <1>0, <1>10 DEF TestDeletes, AtStep
  <2>2. PICK answer \in Answers :
          /\ DeleteCall(x, answer)
          /\ answer = "none" => Await("gone", x)
    BY <1>10 DEF TestDeletes, Passed, TestFails
  <2>3. CASE x # "share"
    <3>1. /\ x \in Replicas /\ lead = Other(x) /\ other = "backup"
      BY <1>0, <1>2, <2>1, <2>3
    <3>2. /\ cloud[lead] = "active" /\ cloud["share"] = "active"
          /\ cloud[x] \in {"out_of_sync", "in_sync"}
      BY <1>3, <3>1, ReplicaFacts DEF Roles, Condition
    <3>3. Alive(x) /\ Refusal(x) = {"none"}
      BY <2>3, <3>2 DEF Alive, Refusal
    <3>4. answer = "none" /\ cloud' = [cloud EXCEPT ![x] = "deleting"]
      BY <2>2, <3>3, DeleteWithoutFault
    <3>5. /\ cloud'[lead] = "active" /\ cloud'["share"] = "active"
          /\ cloud'[x] = "deleting" /\ Await("gone", x)
      BY <1>3, <2>2, <3>1, <3>2, <3>4, ReplicaFacts
    <3>6. Waited(lead, other, verb, y)'
      BY <2>1, <2>3, <3>5 DEF Waited, Await
    <3> QED
      BY <1>4, <2>1, <3>5, <3>6
  <2>4. CASE x = "share"
    <3>1. lead \in Replicas /\ other = "gone"
      BY <1>0, <1>2, <2>1, <2>4
    <3>2. /\ cloud[lead] = "active" /\ cloud["share"] = "active"
          /\ cloud[Other(lead)] = "gone"
      BY <1>3, <3>1, ReplicaFacts DEF Roles, Condition
    <3>3. \A r \in Replicas : Alive(r) => cloud[r] = "active"
      BY <3>1, <3>2, ReplicaFacts DEF Alive
    <3>4. Alive(x) /\ Refusal(x) = {"none"}
      BY <2>4, <3>2, <3>3 DEF Alive, Refusal
    <3>5. answer = "none" /\ cloud' = [cloud EXCEPT ![x] = "deleting"]
      BY <2>2, <3>4, DeleteWithoutFault
    <3>6. /\ cloud'[lead] = "active" /\ cloud'["share"] = "deleting"
          /\ cloud'[Other(lead)] = "gone" /\ Await("gone", x)
      BY <1>3, <2>2, <2>4, <3>1, <3>2, <3>5, ReplicaFacts
    <3>7. Waited(lead, other, verb, y)'
      BY <2>1, <2>4, <3>6 DEF Waited, Await
    <3> QED
      BY <1>4, <2>1, <3>6, <3>7
  <2> QED
    BY <2>3, <2>4
<1> QED
  BY <1>5, <1>6, <1>7, <1>8, <1>9, <1>10
LEMMA OutlinePoints ==
  ASSUME TypeOK
  PROVE  /\ Outline[test][step][1] \in Replicas \cup {"none"}
         /\ Outline[test][step][2] \in DOMAIN Condition
<1>1. /\ test \in DOMAIN Script /\ Len(Script[test]) \in Nat
      /\ step \in 1 .. Len(Script[test]) + 1
  BY ScriptFacts DEF TypeOK
<1>2. CASE step <= Len(Script[test])
  <2> DEFINE o == Outline[test][step]
             s == Step
             p == Outline[test][step + 1]
  <2>1. Leads(test, s, o, p)
    BY <1>2, AtPoint
  <2>2. "old" \in Replicas /\ \A x \in Replicas : Other(x) \in Replicas
    BY ReplicaFacts
  <2> HIDE DEF o, s, p
  <2>3. o[1] \in Replicas /\ o[2] \in {"none", "backup", "gone"}
    BY <2>1, <2>2, LeadsCases
  <2> QED
    BY <2>3 DEF o, Condition
<1>3. CASE step = Len(Script[test]) + 1
  BY <1>1, <1>3, OutlineEnds DEF Replicas
<1> QED
  BY <1>1, <1>2, <1>3

\* A test that ends well leaves no promotion behind, and the active replica is
\* neither the one whose deletion it has registered nor the one it has listed.
LEMMA EndsCalm ==
  ASSUME TypeOK, Lists, Calm, phase = "test", TestPasses
  PROVE  Calm'
<1>1. /\ waiting = <<>> /\ step = Len(Script[test]) + 1
      /\ test \in DOMAIN Script
  BY ScriptFacts DEF TestPasses, TypeOK
<1>2. PICK lead, other :
        /\ lead = Outline[test][step][1] /\ other = Outline[test][step][2]
  OBVIOUS
<1>3. /\ lead \in {"old", "new", "none"} /\ other \in DOMAIN Condition
      /\ test \in Registers => lead = "new"
      /\ test = "promote_back" => lead = "old"
  BY <1>1, <1>2, OutlineEnds
<1>4. Roles(lead, other)
  BY <1>1, <1>2 DEF Calm, Orderly
<1>5. /\ \A r \in Replicas : cloud[r] # "promoting"
      /\ \A r \in Replicas : cloud[r] = "active" => r = lead
  <2>1. CASE lead = "none"
    BY <1>4, <2>1, ReplicaFacts DEF Roles, Alive
  <2>2. CASE lead # "none"
    <3>1. /\ lead \in Replicas
          /\ cloud[lead] = "active"
          /\ cloud[Other(lead)] \in {"absent", "out_of_sync", "in_sync", "gone"}
      BY <1>3, <1>4, <2>2 DEF Roles, Condition, Replicas
    <3> QED
      BY <3>1, ReplicaFacts
  <2> QED
    BY <2>1, <2>2
<1>6. /\ ~busy' /\ phase' = "callbacks" /\ cloud' = cloud /\ test' = test
      /\ reported' = reported /\ callbacks' = callbacks /\ method' = method
  BY <1>5 DEF TestPasses, TestOver, cleanupVars
<1>7. test \in Registers => cloud["old"] # "active"
  BY <1>3, <1>5, ReplicaFacts
<1>8. method = <<"new">> => cloud["new"] # "active"
  BY <1>3, <1>5, ReplicaFacts DEF Lists
<1> QED
  BY <1>6, <1>7, <1>8 DEF Calm

\* Manila's jobs during the test.
LEMMA JobOrderly ==
  ASSUME TypeOK, Orderly, NEW x \in Things, Job(x), faults' = faults,
         UNCHANGED <<test, step, waiting>>
  PROVE  Orderly'
<1>0. PICK lead, other :
        /\ lead = Outline[test][step][1] /\ other = Outline[test][step][2]
  OBVIOUS
<1>1. CASE waiting = <<>>
  <2>1. Roles(lead, other) /\ lead \in Replicas \cup {"none"}
          /\ other \in DOMAIN Condition
    BY <1>0, <1>1, OutlinePoints DEF Orderly
  <2>2. lead # "none"
    BY <2>1, JobGone
  <2>3. Roles(lead, other)'
    BY <2>1, <2>2, JobRoles
  <2> QED
    BY <1>0, <1>1, <2>3 DEF Orderly
<1>2. CASE waiting # <<>>
  <2>1. PICK t, s, o, p :
          /\ t = test /\ s = Step /\ o = Outline[test][step]
          /\ p = Outline[test][step + 1]
    OBVIOUS
  <2>2. step <= Len(Script[test]) /\ Waited(o[1], o[2], s[1], s[2])
    BY <1>2, <2>1 DEF Orderly
  <2>3. Leads(t, s, o, p)
    BY <2>1, <2>2, AtPoint
  <2>4. Waited(o[1], o[2], s[1], s[2])'
    BY <2>2, <2>3, JobWaited
  <2>5. s = Step' /\ o = Outline[test'][step'] /\ Len(Script[test]) = Len(Script[test'])
    BY <2>1 DEF Step
  <2> QED
    BY <1>2, <2>2, <2>4, <2>5 DEF Orderly
<1> QED
  BY <1>1, <1>2

\* A wait of the test ends without a failure.
LEMMA WaitOrderly ==
  ASSUME TypeOK, Orderly, WaitOfTest, faults' = faults
  PROVE  /\ Orderly'
         /\ UNCHANGED <<test, phase, reported, busy, callbacks, method, cloud>>
<1>1. PICK t, s, o, p :
        /\ t = test /\ s = Step /\ o = Outline[test][step]
        /\ p = Outline[test][step + 1]
  OBVIOUS
<1>2. step <= Len(Script[test]) /\ Waited(o[1], o[2], s[1], s[2])
  BY <1>1 DEF Orderly, WaitOfTest
<1>3. Leads(t, s, o, p)
  BY <1>1, <1>2, AtPoint
<1>4. PICK outcome \in Answers :
        /\ WaitCall(waiting[1], waiting[2], outcome)
        /\ IF outcome = "none" THEN Passed ELSE TestFails
  BY DEF WaitOfTest
<1>5. outcome = "none" /\ Roles(p[1], p[2])
  BY <1>2, <1>3, <1>4, WaitedEnds
<1>6. PICK lead, other : lead = p[1] /\ other = p[2]
  OBVIOUS
<1>7. /\ Passed
      /\ UNCHANGED <<test, callbacks, method, cloud>>
  BY <1>4, <1>5 DEF WaitOfTest, cleanupVars
<1>8. Roles(lead, other)'
  BY <1>5, <1>6, <1>7 DEF Roles, Alive
<1>9. Orderly'
  BY <1>1, <1>6, <1>7, <1>8, PassesOrderly
<1> QED
  BY <1>7, <1>9 DEF Passed
\* During the test.
LEMMA CalmInTest ==
  ASSUME OInv, [Next]_vars, faults = 0, faults' = 0, phase = "test"
  PROVE  Calm'
<1>0. /\ IInv /\ TypeOK /\ WaitsInScript /\ Lists /\ Calm /\ Orderly
      /\ faults' = faults
  BY DEF OInv, CInv, IInv, CalmInv, Calm
<1>1. ASSUME Orderly', UNCHANGED <<test, phase, reported, busy>>,
             callbacks' # callbacks => test \in Registers
      PROVE  Calm'
  BY <1>0, <1>1 DEF Calm
<1>2. CASE TestPasses
  BY <1>0, <1>2, EndsCalm
<1>3. CASE AssertionFails
  BY <1>3 DEF AssertionFails, Fault
<1>4. CASE \/ CreateReplica \/ RegisterDeletion
           \/ \E r \in Replicas : Synchronise(r) \/ Reset(r) \/ Promote(r)
           \/ \E x \in Things : TestDeletes(x)
  <2>1. waiting = <<>>
    BY <1>4
    DEF CreateReplica, RegisterDeletion, Synchronise, Reset, Promote,
        TestDeletes, AtStep
  <2> QED
    BY <1>0, <1>1, <1>4, <2>1, BeginsOrderly
<1>5. CASE WaitOfTest
  BY <1>0, <1>1, <1>5, WaitOrderly
<1>6. CASE Manila
  <2>1. /\ UNCHANGED <<test, phase, step, waiting, reported, busy, callbacks>>
        /\ \E x \in Things : Job(x)
    BY <1>6 DEF Manila, testVars, cleanupVars
  <2>2. Orderly'
    BY <1>0, <2>1, JobOrderly
  <2> QED
    BY <1>1, <2>1, <2>2
<1>7. CASE UNCHANGED vars
  <2>1. UNCHANGED <<test, phase, step, waiting, reported, busy, callbacks, cloud>>
    BY <1>7 DEF vars, testVars, cleanupVars
  <2>2. Orderly'
    BY <1>0, <2>1 DEF Orderly, Waited, Roles, Alive, Step
  <2> QED
    BY <1>1, <2>1, <2>2
<1>8. CASE CallBack \/ AwaitCallBack \/ CallBacksDone \/ ListDone
  BY <1>8 DEF CallBack, AwaitCallBack, CallBacksDone, ListDone
<1>9. CASE ListReplicas \/ ClearReplica \/ AwaitReplica \/ DeleteEntry
             \/ AwaitEntry
  BY <1>9
  DEF ListReplicas, ClearReplica, AwaitReplica, DeleteEntry, AwaitEntry, At
<1> QED
  BY <1>2, <1>3, <1>4, <1>5, <1>6, <1>7, <1>8, <1>9 DEF Next, Worker

\* No replica becomes active any more once the test is over.
LEMMA NoneBecomesActive ==
  ASSUME TypeOK, ShareKnown, CleanCloud, [Next]_vars, phase # "test",
         faults' = faults, NEW r \in Replicas, cloud[r] # "active"
  PROVE  cloud'[r] # "active"
<1>0. r \in Things
  BY ReplicaFacts
<1>1. ASSUME NEW x \in Things, NEW answer, DeleteCall(x, answer)
      PROVE  cloud'[r] # "active"
  BY <1>0, <1>1, DeleteClean DEF CleanCloud
<1>2. CASE CallBack
  <2>1. Head(callbacks) = "old" /\ "old" \in Things
    BY <1>2, TailFacts, ReplicaFacts DEF CallBack, TypeOK
  <2> QED
    BY <1>1, <1>2, <2>1 DEF CallBack
<1>3. CASE ClearReplica
  <2>1. Head(todo) \in Things
    BY <1>3, TodoFacts, ReplicaFacts DEF ClearReplica
  <2> QED
    BY <1>1, <1>3, <2>1 DEF ClearReplica
<1>4. CASE DeleteEntry
  BY <1>1, <1>4 DEF DeleteEntry
<1>5. CASE AwaitCallBack \/ CallBacksDone \/ ListReplicas \/ AwaitReplica
             \/ AwaitEntry \/ ListDone \/ UNCHANGED vars
  BY <1>5
  DEF AwaitCallBack, CallBacksDone, ListReplicas, AwaitReplica, AwaitEntry,
      ListDone, vars
<1>6. CASE Manila
  BY <1>0, <1>6, JobWithoutFault DEF Manila, CleanCloud
<1>7. /\ ~TestPasses /\ ~AssertionFails /\ ~WaitOfTest
      /\ ~CreateReplica /\ ~RegisterDeletion
      /\ \A x \in Replicas : ~Synchronise(x) /\ ~Reset(x) /\ ~Promote(x)
      /\ \A x \in Things : ~TestDeletes(x)
  BY DEF TestPasses, AssertionFails, WaitOfTest, CreateReplica,
         RegisterDeletion, Synchronise, Reset, Promote, TestDeletes, AtStep
<1> QED
  BY <1>2, <1>3, <1>4, <1>5, <1>6, <1>7 DEF Next, Worker

\* After the test.
LEMMA CalmAfterTest ==
  ASSUME OInv, [Next]_vars, faults = 0, faults' = 0, phase # "test"
  PROVE  Calm'
<1>0. /\ IInv /\ TypeOK /\ ShareKnown /\ Lists /\ Calm /\ faults' = faults
      /\ ~reported /\ ~busy
  BY DEF OInv, CInv, IInv, CalmInv, Calm
<1>1. CleanCloud /\ CleanShare
  <2>1. before = faults
    BY <1>0 DEF Lists, TypeOK
  <2> QED
    BY <1>0, <2>1 DEF OInv, CInv, CleanInv, Clean
<1>2. \A r \in Replicas : cloud[r] # "active" => cloud'[r] # "active"
  BY <1>0, <1>1, NoneBecomesActive
<1>3. ~busy'
  BY <1>0, StepFaults
<1>4. ASSUME ~reported', test' = test, phase' # "test",
             method' \in {method, <<>>},
             callbacks' # <<>> =>
               callbacks # <<>> /\ phase' = phase
      PROVE  Calm'
  <2>1. callbacks' # <<>> => cloud'["old"] # "active"
    BY <1>0, <1>2, <1>4, ReplicaFacts DEF Calm
  <2>2. method' = <<"new">> => cloud'["new"] # "active"
    <3>1. <<>> # <<"new">>
      BY OneEntry
    <3> QED
      BY <1>0, <1>2, <1>4, <3>1, ReplicaFacts DEF Calm
  <2> QED
    BY <1>0, <1>3, <1>4, <2>1, <2>2 DEF Calm
<1>5. CASE CallBack
  <2>1. /\ Head(callbacks) = "old" /\ "old" \in Things /\ callbacks # <<>>
        /\ test' = test /\ phase' = phase /\ method' = method
    BY <1>0, <1>5, TailFacts, ReplicaFacts DEF CallBack, TypeOK, testVars
  <2>2. PICK answer \in Answers : DeleteCall("old", answer) /\ Keep(answer)
    BY <1>5, <2>1 DEF CallBack
  <2>3. cloud["old"] # "active"
    BY <1>0, <2>1 DEF Calm
  <2>4. answer # "none" => ~Alive("old")
    BY <1>0, <1>1, <2>1, <2>2, <2>3, DeleteClean
  <2>5. answer \in {"none", "not_found"}
    BY <1>0, <2>1, <2>2, <2>4, DeleteWithoutFault
  <2>6. ~reported'
    BY <1>0, <2>2, <2>5 DEF Keep
  <2> QED
    BY <1>4, <1>5, <2>1, <2>6
<1>6. CASE AwaitCallBack
  <2>1. PICK outcome \in Answers :
          WaitCall("gone", waiting[2], outcome) /\ Keep(outcome)
    BY <1>6 DEF AwaitCallBack
  <2>2. outcome = "none"
    BY <1>0, <1>1, <1>6, <2>1, WaitClean DEF AwaitCallBack
  <2>3. ~reported'
    BY <1>0, <2>1, <2>2 DEF Keep
  <2> QED
    BY <1>4, <1>6, <2>3 DEF AwaitCallBack, testVars, cleanupVars
<1>7. CASE CallBacksDone
  BY <1>0, <1>4, <1>7 DEF CallBacksDone, testVars
<1>8. CASE \/ ListReplicas \/ ClearReplica \/ AwaitReplica \/ DeleteEntry
           \/ AwaitEntry \/ ListDone
  <2>1. phase \in {"method", "class"} /\ callbacks' = callbacks /\ test' = test
    BY <1>8
    DEF ListReplicas, ClearReplica, AwaitReplica, DeleteEntry, AwaitEntry,
        ListDone, At, testVars, cleanupVars
  <2>2. callbacks' = <<>>
    BY <1>0, <2>1 DEF Calm
  <2>3. phase' # "test"
    <3>1. \/ phase' = phase
          \/ PassOver
          \/ \E x, exception : At(x) /\ EntryEnds(exception)
      BY <1>8
      DEF ListReplicas, ClearReplica, AwaitReplica, DeleteEntry, AwaitEntry,
          ListDone
    <3>2. \A x, exception : At(x) /\ EntryEnds(exception) => phase' # "test"
      BY <1>0, EntryEndsLists
    <3> QED
      BY <2>1, <3>1, <3>2 DEF PassOver
  <2>4. ~reported' /\ method' \in {method, <<>>}
    <3>1. CASE ListReplicas \/ ListDone
      BY <1>0, <3>1 DEF ListReplicas, ListDone
    <3>2. CASE ClearReplica
      BY <1>0, <1>1, <3>2, ClearReplicaClean
    <3>3. CASE DeleteEntry
      <4>1. method = <<"new">> => cloud["new"] # "active"
        BY <1>0 DEF Calm
      <4> QED
        BY <1>0, <1>1, <3>3, <4>1, DeleteEntryClean
    <3>4. CASE AwaitReplica \/ AwaitEntry
      BY <1>0, <1>1, <3>4, AwaitClean
    <3> QED
      BY <1>8, <3>1, <3>2, <3>3, <3>4
  <2> QED
    BY <1>4, <2>1, <2>2, <2>3, <2>4
<1>9. CASE Manila \/ UNCHANGED vars
  BY <1>0, <1>4, <1>9 DEF Manila, vars, testVars, cleanupVars
<1>10. /\ ~TestPasses /\ ~AssertionFails /\ ~WaitOfTest
       /\ ~CreateReplica /\ ~RegisterDeletion
       /\ \A x \in Replicas : ~Synchronise(x) /\ ~Reset(x) /\ ~Promote(x)
       /\ \A x \in Things : ~TestDeletes(x)
  BY DEF TestPasses, AssertionFails, WaitOfTest, CreateReplica,
         RegisterDeletion, Synchronise, Reset, Promote, TestDeletes, AtStep
<1> QED
  BY <1>5, <1>6, <1>7, <1>8, <1>9, <1>10 DEF Next, Worker

LEMMA StepCalm == OInv /\ [Next]_vars => CalmInv'
<1> SUFFICES ASSUME OInv, [Next]_vars, faults' = 0 PROVE Calm'
  BY DEF CalmInv
<1>1. TypeOK /\ faults \in Nat
  BY DEF OInv, CInv, IInv, TypeOK
<1>2. faults = 0
  BY <1>1, StepFaults
<1> QED
  BY <1>2, CalmInTest, CalmAfterTest

LEMMA InitOInv == Init => OInv
<1> SUFFICES ASSUME Init PROVE OInv
  OBVIOUS
<1>1. CInv /\ TypeOK
  BY InitCInv, InitTypeOK
<1>2. Roles("old", "none")
  BY ReplicaFacts DEF Init, Roles, Condition
<1>3. Outline[test][1] = <<"old", "none">>
  <2>1. test \in {"promote_out_of_sync", "promote_in_sync", "snapshots",
                  "export_locations", "policy_lifecycle",
                  "policy_promote_back", "promote_back"}
    BY <1>1 DEF TypeOK, Script
  <2> QED
    BY <2>1 DEF Outline
<1>4. Orderly
  BY <1>2, <1>3 DEF Init, Orderly
<1> QED
  BY <1>1, <1>4 DEF Init, OInv, CalmInv, Calm

\* What the exchange of the roles makes Manila refuse, the last active replica,
\* or no longer find, the cleanups pass over: an error they report, or one the
\* test does, goes back to something that failed.
THEOREM NeverFalseAlarm == Spec => []NoFalseAlarm
<1>1. OInv /\ [Next]_vars => OInv'
  BY StepIInv, StepLists, StepClean, StepCalm DEF OInv, CInv
<1>2. OInv => NoFalseAlarm
  BY DEF OInv, CInv, IInv, TypeOK, CalmInv, Calm, NoFalseAlarm
<1> QED
  BY <1>1, <1>2, InitOInv, PTL DEF Spec

\* Only test_promote_and_promote_back lists a replica of its own, and only when
\* something fails in it is that replica active when the list is cleared: what
\* the comments on cleanup=False ask for holds of every other test, and of this
\* one as long as it passes.
THEOREM ListedOnlyAfterAFault ==
  Spec => []((test = "promote_back" /\ faults > 0) \/ ActiveReplicaNotListed)
<1>1. OInv /\ [Next]_vars => OInv'
  BY StepIInv, StepLists, StepClean, StepCalm DEF OInv, CInv
<1>2. OInv => (test = "promote_back" /\ faults > 0) \/ ActiveReplicaNotListed
  <2> SUFFICES ASSUME OInv, ~(test = "promote_back" /\ faults > 0),
                      phase \in {"callbacks", "method"},
                      NEW r \in Replicas, cloud[r] = "active"
               PROVE  r \notin Pending
    BY DEF ActiveReplicaNotListed
  <2>1. method \in {<<>>, <<"share">>, <<"new">>} /\ class \in {<<>>, <<"share">>}
    BY DEF OInv, CInv, Lists
  <2>2. method = <<"new">> => test = "promote_back" /\ faults = 0
    BY DEF OInv, CInv, IInv, TypeOK, Lists
  <2>3. method = <<"new">> => cloud["new"] # "active"
    BY <2>2 DEF OInv, CalmInv, Calm
  <2>4. r # "share"
    BY DEF Replicas
  <2>5. \A i \in 1 .. Len(class) : class[i] = "share"
    BY <2>1
  <2>6. \A i \in 1 .. Len(method) : method[i] # r
    <3>1. CASE method = <<"new">>
      BY <2>3, <3>1
    <3>2. CASE method # <<"new">>
      BY <2>1, <2>4, <3>2
    <3> QED
      BY <3>1, <3>2
  <2> QED
    BY <2>4, <2>5, <2>6 DEF Pending
<1> QED
  BY <1>1, <1>2, InitOInv, PTL DEF Spec
===========================================================================

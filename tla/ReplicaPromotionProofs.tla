---------------------- MODULE ReplicaPromotionProofs ----------------------
(***************************************************************************)
(* However many faults there are and however often the method list is      *)
(* cleared: a share that is left behind by the tests that promote a        *)
(* replica has been reported, unless a Forbidden has closed its entry.     *)
(* The invariant follows the entry of the share through the two lists; a   *)
(* replica never outlives its share.                                       *)
(***************************************************************************)
EXTENDS ReplicaPromotion, SequenceTheorems, TLAPS

States == {"absent", "creating", "out_of_sync", "in_sync", "active",
           "promoting", "error", "deleting", "stuck", "gone"}

Goals == {"available", "in_sync", "out_of_sync", "active", "gone"}

Waits == {<<>>} \cup (Goals \X Things)

Phases == {"test", "callbacks", "method", "class", "end"}

Holds(s, x) == \E i \in 1 .. Len(s) : s[i] = x

\* A wait of the test belongs to one of its steps.
WaitsInScript ==
  phase = "test" /\ waiting # <<>> => step <= Len(Script[test])

\* The share is there when the test begins, and is never made again.
ShareKnown ==
  /\ cloud["share"] \in {"active", "deleting", "stuck", "gone"}
  /\ phase = "test" /\ step = 1 => cloud["share"] = "active"

ReplicasWithShare ==
  \A r \in Replicas : Alive(r) => Alive("share")

\* As long as the runner has heard of nothing and no Forbidden has closed it, the
\* share has an entry in a list that is still to be cleared.
ShareListed ==
  Alive("share") /\ ~reported /\ ~hushed =>
    /\ phase # "end"
    /\ phase = "class" => Holds(class, "share")
    /\ Holds(method, "share") \/ Holds(class, "share")

IInv ==
  TypeOK /\ WaitsInScript /\ ShareKnown /\ ReplicasWithShare /\ ShareListed

-----------------------------------------------------------------------------
(* Lists and scripts.                                                      *)

LEMMA ScriptFacts ==
  ASSUME NEW t \in DOMAIN Script
  PROVE  /\ Len(Script[t]) \in Nat
         /\ \A n \in 1 .. Len(Script[t]) :
              Script[t][n] \in {<<"create", "new">>, <<"create_unlisted", "new">>}
                => n = 1
<1>1. t \in {"promote_out_of_sync", "promote_in_sync", "snapshots",
             "export_locations", "policy_lifecycle", "policy_promote_back",
             "promote_back"}
  BY DEF Script
<1>2. CASE t = "promote_out_of_sync"
  BY <1>2 DEF Script
<1>3. CASE t = "promote_in_sync"
  BY <1>3 DEF Script
<1>4. CASE t = "snapshots"
  BY <1>4 DEF Script
<1>5. CASE t = "export_locations"
  BY <1>5 DEF Script
<1>6. CASE t = "policy_lifecycle"
  BY <1>6 DEF Script
<1>7. CASE t = "policy_promote_back"
  BY <1>7 DEF Script
<1>8. CASE t = "promote_back"
  BY <1>8 DEF Script
<1> QED
  BY <1>1, <1>2, <1>3, <1>4, <1>5, <1>6, <1>7, <1>8

\* Every test begins with the creation of its replica.
LEMMA ScriptStarts ==
  ASSUME NEW t \in DOMAIN Script, NEW x
  PROVE  Script[t][1] # <<"delete", x>>
<1>1. t \in {"promote_out_of_sync", "promote_in_sync", "snapshots",
             "export_locations", "policy_lifecycle", "policy_promote_back",
             "promote_back"}
  BY DEF Script
<1>2. Script[t][1] \in {<<"create", "new">>, <<"create_unlisted", "new">>}
  BY <1>1 DEF Script
<1> QED
  BY <1>2

LEMMA ShortLists ==
  ASSUME NEW S
  PROVE  /\ <<>> \in Seq(S)
         /\ \A x \in S : <<x>> \in Seq(S)
         /\ \A x, y \in S : <<x, y>> \in Seq(S)
OBVIOUS

LEMMA ListFacts ==
  ASSUME NEW S, NEW s \in Seq(S), NEW x \in S
  PROVE  /\ <<x>> \o s \in Seq(S)
         /\ \A y : Holds(s, y) => Holds(<<x>> \o s, y)
         /\ Len(s) \in Nat
<1>1. /\ <<x>> \in Seq(S) /\ Len(<<x>>) = 1 /\ Len(s) \in Nat
  OBVIOUS
<1>2. /\ <<x>> \o s \in Seq(S) /\ Len(<<x>> \o s) = 1 + Len(s)
      /\ \A i \in 1 .. 1 + Len(s) :
           (<<x>> \o s)[i] = IF i <= 1 THEN <<x>>[i] ELSE s[i - 1]
  BY <1>1, ConcatProperties
<1>3. ASSUME NEW y, NEW i \in 1 .. Len(s), s[i] = y
      PROVE  Holds(<<x>> \o s, y)
  <2>1. i + 1 \in 1 .. 1 + Len(s) /\ ~(i + 1 <= 1) /\ (i + 1) - 1 = i
    BY <1>1
  <2>2. (<<x>> \o s)[i + 1] = y
    BY <1>2, <1>3, <2>1
  <2> QED
    BY <1>2, <2>1, <2>2 DEF Holds
<1> QED
  BY <1>1, <1>2, <1>3 DEF Holds

LEMMA TailFacts ==
  ASSUME NEW S, NEW s \in Seq(S), s # <<>>
  PROVE  /\ Head(s) \in S /\ Tail(s) \in Seq(S)
         /\ \A y : Holds(s, y) /\ Head(s) # y => Holds(Tail(s), y)
<1>1. /\ Head(s) = s[1] /\ Head(s) \in S
      /\ Tail(s) \in Seq(S) /\ Len(Tail(s)) = Len(s) - 1
      /\ Len(s) \in Nat \ {0}
      /\ \A i \in 1 .. Len(Tail(s)) : Tail(s)[i] = s[i + 1]
  BY HeadTailProperties
<1>2. ASSUME NEW y, NEW i \in 1 .. Len(s), s[i] = y, Head(s) # y
      PROVE  Holds(Tail(s), y)
  <2>1. i # 1
    BY <1>1, <1>2
  <2>2. i - 1 \in 1 .. Len(Tail(s)) /\ (i - 1) + 1 = i
    BY <1>1, <2>1
  <2>3. Tail(s)[i - 1] = y
    BY <1>1, <1>2, <2>2
  <2> QED
    BY <2>2, <2>3 DEF Holds
<1> QED
  BY <1>1, <1>2 DEF Holds

LEMMA EmptyHolds == \A x : ~Holds(<<>>, x)
BY DEF Holds

-----------------------------------------------------------------------------
(* What the requests do.                                                   *)

LEMMA DeleteCallFacts ==
  ASSUME TypeOK, NEW x \in Things, NEW answer, DeleteCall(x, answer)
  PROVE  /\ faults' \in 0 .. MaxFaults
         /\ cloud' = cloud \/ (Alive(x) /\ cloud' = [cloud EXCEPT ![x] = "deleting"])
         /\ answer \notin {"release_failed", "timed_out"}
         /\ answer = "not_found" => ~Alive(x) /\ cloud' = cloud
<1>1. faults' \in 0 .. MaxFaults
  BY ReplicaPromotionAssumption DEF TypeOK, DeleteCall, Fault, NoFault
<1>2. Refusal(x) \subseteq {"none", "bad_request", "conflict"}
  BY DEF Refusal
<1> QED
  BY <1>1, <1>2 DEF DeleteCall, Set

LEMMA WaitCallFacts ==
  ASSUME TypeOK, NEW goal, NEW x \in Things, NEW outcome,
         WaitCall(goal, x, outcome)
  PROVE  /\ faults' \in 0 .. MaxFaults
         /\ outcome \in {"none", "forbidden", "release_failed", "error",
                       "timed_out"}
         /\ goal = "gone" /\ outcome = "none" => ~Alive(x)
<1>1. faults' \in 0 .. MaxFaults
  BY ReplicaPromotionAssumption DEF TypeOK, WaitCall, Fault, NoFault
<1> QED
  BY <1>1 DEF WaitCall, Alive

LEMMA WaitingFacts ==
  ASSUME TypeOK, waiting # <<>>
  PROVE  waiting[1] \in Goals /\ waiting[2] \in Things
BY DEF TypeOK, Goals

LEMMA GoneWait ==
  ASSUME NEW x \in Things
  PROVE  <<"gone", x>> \in Waits
BY DEF Waits, Goals

LEMMA EntryEndsFacts ==
  ASSUME TypeOK, phase \in {"method", "class"}, List # <<>>,
         NEW exception, EntryEnds(exception)
  PROVE  /\ waiting' = <<>> /\ listed' \in BOOLEAN
         /\ method' \in Seq(Things) /\ class' \in Seq(Things)
         /\ phase' \in Phases /\ rounds' \in 0 .. MaxRounds
         /\ reported' \in BOOLEAN /\ hushed' \in BOOLEAN
         /\ phase' # "test"
         /\ hushed' = (hushed \/ (exception = "forbidden" /\ At("share")))
         /\ \/ reported' = TRUE
            \/ /\ exception \in {"none", "not_found", "forbidden"}
               /\ phase' = phase /\ reported' = reported
               /\ \/ phase = "method" /\ method' = Tail(method) /\ class' = class
                  \/ phase = "class" /\ class' = Tail(class) /\ method' = method
<1>1. Closed => /\ method' \in Seq(Things) /\ class' \in Seq(Things)
                /\ \/ phase = "method" /\ method' = Tail(method) /\ class' = class
                   \/ phase = "class" /\ class' = Tail(class) /\ method' = method
  <2>1. CASE phase = "method"
    <3>1. method \in Seq(Things) /\ method # <<>> /\ class \in Seq(Things)
      BY <2>1 DEF List, TypeOK
    <3>2. Tail(method) \in Seq(Things)
      BY <3>1, TailFacts
    <3> QED
      BY <2>1, <3>1, <3>2 DEF Closed
  <2>2. CASE phase = "class"
    <3>1. class \in Seq(Things) /\ class # <<>> /\ method \in Seq(Things)
      BY <2>2 DEF List, TypeOK
    <3>2. Tail(class) \in Seq(Things)
      BY <3>1, TailFacts
    <3> QED
      BY <2>2, <3>1, <3>2 DEF Closed
  <2> QED
    BY <2>1, <2>2
<1>2. UNCHANGED <<method, class>> =>
        method' \in Seq(Things) /\ class' \in Seq(Things)
  BY DEF TypeOK
<1>3. PassOver => /\ phase' \in Phases \ {"test"}
                  /\ rounds' \in 0 .. MaxRounds
  BY ReplicaPromotionAssumption DEF PassOver, TypeOK, Phases
<1>4. /\ phase \in Phases \ {"test"} /\ rounds \in 0 .. MaxRounds
      /\ reported \in BOOLEAN
  BY DEF TypeOK, Phases
<1>5. /\ hushed' \in BOOLEAN
      /\ hushed' = (hushed \/ (exception = "forbidden" /\ At("share")))
  BY DEF TypeOK, EntryEnds, Note
<1>6. CASE exception \in {"none", "not_found", "forbidden"}
  BY <1>1, <1>4, <1>5, <1>6 DEF EntryEnds, Suppressed
<1>7. CASE exception \notin {"none", "not_found", "forbidden"}
  BY <1>1, <1>2, <1>3, <1>5, <1>7 DEF EntryEnds, Suppressed
<1> QED
  BY <1>6, <1>7

-----------------------------------------------------------------------------
(* Types.                                                                  *)

LEMMA InitTypeOK == Init => TypeOK
<1> SUFFICES ASSUME Init PROVE TypeOK
  OBVIOUS
<1>1. test \in DOMAIN Script /\ step \in 1 .. Len(Script[test]) + 1
  <2>1. test \in DOMAIN Script
    BY ReplicaPromotionAssumption DEF Init
  <2>2. Len(Script[test]) \in Nat
    BY <2>1, ScriptFacts
  <2> QED
    BY <2>1, <2>2 DEF Init
<1>2. cloud \in [Things -> States]
  BY DEF Init, Things, Replicas, States
<1>3. /\ callbacks \in Seq({"old"}) /\ todo \in Seq(Replicas)
      /\ method \in Seq(Things) /\ class \in Seq(Things)
  <2>1. "share" \in Things
    BY DEF Things
  <2> QED
    BY <2>1, ShortLists DEF Init
<1>4. /\ rounds \in 0 .. MaxRounds /\ faults \in 0 .. MaxFaults
      /\ before \in 0 .. MaxFaults
  BY ReplicaPromotionAssumption DEF Init
<1> QED
  BY <1>1, <1>2, <1>3, <1>4 DEF Init, TypeOK, States

LEMMA ManilaType ==
  ASSUME TypeOK, NEW x \in Things, Job(x)
  PROVE  cloud' \in [Things -> States] /\ faults' \in 0 .. MaxFaults
<1>1. cloud \in [Things -> States]
  BY DEF TypeOK, States
<1>2. faults' \in 0 .. MaxFaults
  BY ReplicaPromotionAssumption DEF TypeOK, Job, Fault, NoFault
<1>3. cloud' \in [Things -> States]
  BY <1>1 DEF Job, Set, States
<1> QED
  BY <1>2, <1>3

\* The test is over.
LEMMA TestOverType ==
  ASSUME TypeOK, TestOver, faults' \in 0 .. MaxFaults
  PROVE  /\ phase' = "callbacks" /\ waiting' = <<>> /\ busy' \in BOOLEAN
         /\ before' \in 0 .. MaxFaults /\ step' = step
BY DEF TestOver

LEMMA PassedType ==
  ASSUME TypeOK, step <= Len(Script[test]), Passed
  PROVE  /\ waiting' = <<>> /\ step' = step + 1
         /\ step' \in 1 .. Len(Script[test]) + 1
         /\ phase' = phase /\ reported' = reported /\ busy' = busy
         /\ before' = before
<1>1. Len(Script[test]) \in Nat
  BY ScriptFacts DEF TypeOK
<1> QED
  BY <1>1 DEF TypeOK, Passed

LEMMA StepTypeOK == TypeOK /\ WaitsInScript /\ [Next]_vars => TypeOK'
<1> SUFFICES ASSUME TypeOK, WaitsInScript, [Next]_vars PROVE TypeOK'
  OBVIOUS
<1>0. cloud \in [Things -> States]
  BY DEF TypeOK, States
<1>1. CASE TestPasses
  <2>1. faults' \in 0 .. MaxFaults
    BY <1>1 DEF TestPasses, NoFault, TypeOK
  <2> QED
    BY <1>1, <2>1, TestOverType DEF TestPasses, TypeOK, cleanupVars
<1>2. CASE AssertionFails
  <2>1. faults' \in 0 .. MaxFaults
    BY <1>2, ReplicaPromotionAssumption DEF AssertionFails, Fault, TypeOK
  <2> QED
    BY <1>2, <2>1, TestOverType DEF AssertionFails, TestFails, TypeOK, cleanupVars
<1>3. CASE CreateReplica
  <2>1. cloud' \in [Things -> States]
    BY <1>0, <1>3 DEF CreateReplica, Set, States
  <2>2. method' \in Seq(Things)
    BY <1>3, ListFacts DEF CreateReplica, TypeOK, Things, Replicas
  <2>3. waiting' \in Waits
    BY <1>3 DEF CreateReplica, Await, Waits, Goals, Things, Replicas
  <2> QED
    BY <1>3, <2>1, <2>2, <2>3
    DEF CreateReplica, Await, NoFault, TypeOK, States, Waits, Goals
<1>4. CASE RegisterDeletion
  <2>1. callbacks' \in Seq({"old"})
    BY <1>4, ListFacts DEF RegisterDeletion, TypeOK
  <2>2. step <= Len(Script[test])
    BY <1>4 DEF RegisterDeletion, AtStep
  <2> QED
    BY <1>4, <2>1, <2>2, PassedType DEF RegisterDeletion, NoFault, TypeOK
<1>5. ASSUME NEW r \in Replicas, Synchronise(r) PROVE TypeOK'
  <2>1. waiting' \in Waits
    BY <1>5 DEF Synchronise, Await, Waits, Goals, Things
  <2> QED
    BY <1>5, <2>1
    DEF Synchronise, Await, NoFault, TypeOK, cleanupVars, Waits, Goals
<1>6. ASSUME NEW r \in Replicas, Reset(r) PROVE TypeOK'
  <2>1. waiting' \in Waits
    BY <1>6 DEF Reset, Await, Waits, Goals, Things
  <2>2. cloud' \in [Things -> States]
    BY <1>0, <1>6 DEF Reset, Set, States
  <2> QED
    BY <1>6, <2>1, <2>2
    DEF Reset, Await, NoFault, TypeOK, cleanupVars, Waits, Goals, States
<1>7. ASSUME NEW r \in Replicas, Promote(r) PROVE TypeOK'
  <2>1. faults' \in 0 .. MaxFaults
    BY <1>7 DEF Promote, NoFault, TypeOK
  <2>2. CASE Set(r, "promoting") /\ Await("active", r)
    <3>1. waiting' \in Waits
      BY <2>2 DEF Await, Waits, Goals, Things
    <3>2. cloud' \in [Things -> States]
      BY <1>0, <2>2 DEF Set, States
    <3> QED
      BY <1>7, <2>1, <2>2, <3>1, <3>2
      DEF Promote, Await, TypeOK, cleanupVars, Waits, Goals, States
  <2>3. CASE UNCHANGED cloud /\ TestFails
    BY <1>7, <2>1, <2>3, TestOverType DEF Promote, TestFails, TypeOK, cleanupVars
  <2> QED
    BY <1>7, <2>2, <2>3 DEF Promote
<1>8. ASSUME NEW x \in Things, TestDeletes(x) PROVE TypeOK'
  <2>1. PICK answer \in Answers :
          /\ DeleteCall(x, answer)
          /\ \/ answer = "none" /\ Await("gone", x)
             \/ Passed \/ TestFails
    BY <1>8 DEF TestDeletes
  <2>2. faults' \in 0 .. MaxFaults
    BY <2>1, DeleteCallFacts
  <2>3. cloud' \in [Things -> States]
    BY <1>0, <2>1, DeleteCallFacts DEF States
  <2>4. step <= Len(Script[test])
    BY <1>8 DEF TestDeletes, AtStep
  <2>5. CASE Await("gone", x)
    BY <1>8, <2>2, <2>3, <2>5, GoneWait
    DEF TestDeletes, Await, TypeOK, cleanupVars, Waits, Goals, States
  <2>6. CASE Passed
    BY <1>8, <2>2, <2>3, <2>4, <2>6, PassedType
    DEF TestDeletes, TypeOK, cleanupVars, States
  <2>7. CASE TestFails
    BY <1>8, <2>2, <2>3, <2>7, TestOverType
    DEF TestDeletes, TestFails, TypeOK, cleanupVars, States
  <2> QED
    BY <2>1, <2>5, <2>6, <2>7
<1>9. CASE WaitOfTest
  <2>1. faults' \in 0 .. MaxFaults
    BY <1>9, WaitCallFacts, WaitingFacts DEF WaitOfTest
  <2>2. step <= Len(Script[test])
    BY <1>9 DEF WaitOfTest, WaitsInScript
  <2>3. CASE Passed
    BY <1>9, <2>1, <2>2, <2>3, PassedType DEF WaitOfTest, TypeOK, cleanupVars
  <2>4. CASE TestFails
    BY <1>9, <2>1, <2>4, TestOverType
    DEF WaitOfTest, TestFails, TypeOK, cleanupVars
  <2> QED
    BY <1>9, <2>3, <2>4 DEF WaitOfTest
<1>10. CASE CallBack
  <2>1. Head(callbacks) = "old" /\ Tail(callbacks) \in Seq({"old"})
    BY <1>10, TailFacts DEF CallBack, TypeOK
  <2>2. "old" \in Things
    BY DEF Things, Replicas
  <2>3. faults' \in 0 .. MaxFaults /\ cloud' \in [Things -> States]
    BY <1>0, <1>10, <2>1, <2>2, DeleteCallFacts DEF CallBack, States
  <2>4. waiting' \in Waits
    BY <1>10, <2>1, <2>2, GoneWait DEF CallBack, Waits
  <2>5. reported' \in BOOLEAN
    BY <1>10 DEF CallBack, Keep, TypeOK
  <2> QED
    BY <1>10, <2>1, <2>3, <2>4, <2>5
    DEF CallBack, TypeOK, testVars, States, Waits, Goals
<1>11. CASE AwaitCallBack
  <2>1. faults' \in 0 .. MaxFaults
    BY <1>11, WaitCallFacts, WaitingFacts DEF AwaitCallBack
  <2>2. reported' \in BOOLEAN
    BY <1>11 DEF AwaitCallBack, Keep, TypeOK
  <2> QED
    BY <1>11, <2>1, <2>2 DEF AwaitCallBack, TypeOK, testVars, cleanupVars
<1>12. CASE CallBacksDone
  BY <1>12, ReplicaPromotionAssumption DEF CallBacksDone, TypeOK, testVars
<1>13. CASE ListReplicas
  <2>1. todo' \in Seq(Replicas)
    <3>1. todo' \in {<<>>, <<"old">>, <<"new">>, <<"old", "new">>,
                     <<"new", "old">>}
      BY <1>13 DEF ListReplicas
    <3>2. "old" \in Replicas /\ "new" \in Replicas
      BY DEF Replicas
    <3> QED
      BY <3>1, <3>2, ShortLists
  <2> QED
    BY <1>13, <2>1 DEF ListReplicas, TypeOK, testVars
<1>14. CASE ClearReplica
  <2>1. Head(todo) \in Replicas /\ Tail(todo) \in Seq(Replicas)
    BY <1>14, TailFacts DEF ClearReplica, TypeOK
  <2>2. Head(todo) \in Things
    BY <2>1 DEF Things
  <2>3. PICK answer \in Answers :
          /\ DeleteCall(Head(todo), answer)
          /\ \/ /\ waiting' = IF answer = "none" THEN <<"gone", Head(todo)>>
                                                 ELSE <<>>
                /\ UNCHANGED <<phase, listed, method, class, rounds, reported, hushed>>
             \/ EntryEnds(answer)
    BY <1>14 DEF ClearReplica
  <2>4. faults' \in 0 .. MaxFaults /\ cloud' \in [Things -> States]
    BY <1>0, <2>2, <2>3, DeleteCallFacts DEF States
  <2>5. CASE UNCHANGED <<phase, listed, method, class, rounds, reported, hushed>>
    <3>1. waiting' \in Waits
      BY <2>2, <2>3, <2>5, GoneWait DEF Waits, EntryEnds
    <3> QED
      BY <1>14, <2>1, <2>4, <2>5, <3>1
      DEF ClearReplica, TypeOK, testVars, States, Waits, Goals
  <2>6. CASE EntryEnds(answer)
    <3>1. phase \in {"method", "class"} /\ List # <<>>
      BY <1>14 DEF ClearReplica, At
    <3> QED
      BY <1>14, <2>1, <2>4, <2>6, <3>1, EntryEndsFacts
      DEF ClearReplica, TypeOK, testVars, States, Phases
  <2> QED
    BY <2>3, <2>5, <2>6
<1>15. CASE AwaitReplica
  <2>1. faults' \in 0 .. MaxFaults
    BY <1>15, WaitCallFacts, WaitingFacts DEF AwaitReplica
  <2>2. PICK outcome \in Answers :
          IF outcome = "none"
            THEN waiting' = <<>>
                 /\ UNCHANGED <<phase, listed, method, class, rounds, reported, hushed>>
            ELSE EntryEnds(outcome)
    BY <1>15 DEF AwaitReplica
  <2>3. phase \in {"method", "class"} /\ List # <<>>
    BY <1>15 DEF AwaitReplica, At
  <2>4. CASE EntryEnds(outcome)
    BY <1>15, <2>1, <2>3, <2>4, EntryEndsFacts
    DEF AwaitReplica, TypeOK, testVars, Phases
  <2>5. CASE outcome = "none"
    BY <1>15, <2>1, <2>2, <2>5 DEF AwaitReplica, TypeOK, testVars
  <2> QED
    BY <2>2, <2>4, <2>5
<1>16. CASE DeleteEntry
  <2>1. PICK x \in Things, answer \in Answers :
          /\ At(x) /\ DeleteCall(x, answer)
          /\ IF answer = "none"
               THEN waiting' = <<"gone", x>>
                    /\ UNCHANGED <<phase, listed, method, class, rounds, reported, hushed>>
               ELSE EntryEnds(answer)
    BY <1>16 DEF DeleteEntry
  <2>2. faults' \in 0 .. MaxFaults /\ cloud' \in [Things -> States]
    BY <1>0, <2>1, DeleteCallFacts DEF States
  <2>3. phase \in {"method", "class"} /\ List # <<>>
    BY <2>1 DEF At
  <2>4. CASE EntryEnds(answer)
    BY <1>16, <2>2, <2>3, <2>4, EntryEndsFacts
    DEF DeleteEntry, TypeOK, testVars, States, Phases
  <2>5. CASE answer = "none"
    BY <1>16, <2>1, <2>2, <2>5, GoneWait
    DEF DeleteEntry, TypeOK, testVars, States, Waits, Goals
  <2> QED
    BY <2>1, <2>4, <2>5
<1>17. CASE AwaitEntry
  <2>1. PICK x \in Things, outcome \in Answers :
          At(x) /\ WaitCall("gone", x, outcome) /\ EntryEnds(outcome)
    BY <1>17 DEF AwaitEntry
  <2>2. faults' \in 0 .. MaxFaults
    BY <2>1, WaitCallFacts
  <2>3. phase \in {"method", "class"} /\ List # <<>>
    BY <2>1 DEF At
  <2> QED
    BY <1>17, <2>1, <2>2, <2>3, EntryEndsFacts
    DEF AwaitEntry, TypeOK, testVars, Phases
<1>18. CASE ListDone
  <2>1. phase' \in Phases /\ rounds' \in 0 .. MaxRounds
    BY <1>18, ReplicaPromotionAssumption
    DEF ListDone, PassOver, TypeOK, Phases
  <2> QED
    BY <1>18, <2>1 DEF ListDone, TypeOK, testVars, Phases
<1>19. CASE Manila
  BY <1>19, ManilaType DEF Manila, TypeOK, testVars, cleanupVars, States
<1>20. CASE UNCHANGED vars
  BY <1>20 DEF vars, testVars, cleanupVars, TypeOK
<1> QED
  BY <1>1, <1>2, <1>3, <1>4, <1>5, <1>6, <1>7, <1>8, <1>9, <1>10, <1>11,
     <1>12, <1>13, <1>14, <1>15, <1>16, <1>17, <1>18, <1>19, <1>20
  DEF Next, Worker

-----------------------------------------------------------------------------
(* The waits of the test, and the share.                                   *)

LEMMA StepWaits == IInv /\ [Next]_vars => WaitsInScript'
<1> SUFFICES ASSUME IInv, [Next]_vars PROVE WaitsInScript'
  OBVIOUS
<1>0. TypeOK /\ WaitsInScript
  BY DEF IInv
<1>1. CASE TestPasses \/ AssertionFails
  BY <1>1 DEF TestPasses, AssertionFails, TestFails, TestOver, WaitsInScript
<1>2. CASE CreateReplica
  BY <1>2 DEF CreateReplica, AtStep, Await, WaitsInScript
<1>3. CASE RegisterDeletion
  BY <1>3 DEF RegisterDeletion, Passed, WaitsInScript
<1>4. ASSUME NEW r \in Replicas, Synchronise(r) PROVE WaitsInScript'
  BY <1>4 DEF Synchronise, AtStep, Await, WaitsInScript, cleanupVars
<1>5. ASSUME NEW r \in Replicas, Reset(r) PROVE WaitsInScript'
  BY <1>5 DEF Reset, AtStep, Await, WaitsInScript, cleanupVars
<1>6. ASSUME NEW r \in Replicas, Promote(r) PROVE WaitsInScript'
  BY <1>6
  DEF Promote, AtStep, Await, TestFails, TestOver, WaitsInScript, cleanupVars
<1>7. ASSUME NEW x \in Things, TestDeletes(x) PROVE WaitsInScript'
  BY <1>7
  DEF TestDeletes, AtStep, Await, Passed, TestFails, TestOver, WaitsInScript,
      cleanupVars
<1>8. CASE WaitOfTest
  BY <1>8 DEF WaitOfTest, Passed, TestFails, TestOver, WaitsInScript
<1>9. CASE CallBack \/ AwaitCallBack \/ CallBacksDone
  BY <1>9 DEF CallBack, AwaitCallBack, CallBacksDone, WaitsInScript
<1>10. CASE ListReplicas \/ ListDone
  BY <1>0, <1>10
  DEF ListReplicas, ListDone, PassOver, At, WaitsInScript
<1>11. CASE ClearReplica \/ AwaitReplica \/ DeleteEntry \/ AwaitEntry
  <2>1. phase \in {"method", "class"} /\ List # <<>>
    BY <1>11 DEF ClearReplica, AwaitReplica, DeleteEntry, AwaitEntry, At
  <2>2. phase' = phase \/ \E exception : EntryEnds(exception)
    BY <1>11 DEF ClearReplica, AwaitReplica, DeleteEntry, AwaitEntry
  <2> QED
    BY <1>0, <2>1, <2>2, EntryEndsFacts DEF WaitsInScript
<1>12. CASE Manila
  BY <1>0, <1>12 DEF Manila, testVars, WaitsInScript
<1>13. CASE UNCHANGED vars
  BY <1>0, <1>13 DEF vars, testVars, WaitsInScript
<1> QED
  BY <1>1, <1>2, <1>3, <1>4, <1>5, <1>6, <1>7, <1>8, <1>9, <1>10, <1>11,
     <1>12, <1>13
  DEF Next, Worker

\* A request of the cleanup changes nothing but what is deleted.
Deletes(x) ==
  \/ cloud' = cloud
  \/ Alive(x) /\ cloud' = [cloud EXCEPT ![x] = "deleting"]

LEMMA DeletesKeeps ==
  ASSUME TypeOK, NEW x \in Things, Deletes(x)
  PROVE  /\ \A y \in Things : Alive(y)' <=> Alive(y)
         /\ cloud["share"] \in {"active", "deleting", "stuck", "gone"} =>
              cloud'["share"] \in {"active", "deleting", "stuck", "gone"}
BY DEF TypeOK, Deletes, Alive, Things

LEMMA CleanupDeletes ==
  ASSUME TypeOK,
         CallBack \/ ClearReplica \/ DeleteEntry
  PROVE  /\ \E x \in Things : Deletes(x)
         /\ phase # "test" /\ phase' # "test"
<1>1. CASE CallBack
  <2>1. Head(callbacks) \in Things
    BY <1>1, TailFacts DEF CallBack, TypeOK, Things, Replicas
  <2> QED
    BY <1>1, <2>1, DeleteCallFacts DEF CallBack, Deletes
<1>2. CASE ClearReplica
  <2>1. Head(todo) \in Things
    BY <1>2, TailFacts DEF ClearReplica, TypeOK, Things
  <2>2. phase \in {"method", "class"} /\ List # <<>>
    BY <1>2 DEF ClearReplica, At
  <2>3. phase' = phase \/ \E exception : EntryEnds(exception)
    BY <1>2 DEF ClearReplica
  <2> QED
    BY <1>2, <2>1, <2>2, <2>3, DeleteCallFacts, EntryEndsFacts
    DEF ClearReplica, Deletes
<1>3. CASE DeleteEntry
  <2>1. phase \in {"method", "class"} /\ List # <<>>
    BY <1>3 DEF DeleteEntry, At
  <2>2. phase' = phase \/ \E exception : EntryEnds(exception)
    BY <1>3 DEF DeleteEntry
  <2> QED
    BY <1>3, <2>1, <2>2, DeleteCallFacts, EntryEndsFacts
    DEF DeleteEntry, Deletes
<1> QED
  BY <1>1, <1>2, <1>3

\* What neither asks Manila for anything nor takes a step of the test.
LEMMA Quiet ==
  ASSUME TypeOK,
         \/ TestPasses \/ AssertionFails \/ AwaitCallBack \/ CallBacksDone
         \/ ListReplicas \/ AwaitReplica \/ AwaitEntry \/ ListDone
         \/ UNCHANGED vars
  PROVE  cloud' = cloud /\ (phase' = "test" => phase = "test" /\ step' = step)
<1>1. CASE TestPasses \/ AssertionFails
  BY <1>1 DEF TestPasses, AssertionFails, TestFails, TestOver
<1>2. CASE AwaitCallBack \/ CallBacksDone \/ ListReplicas
  BY <1>2 DEF AwaitCallBack, CallBacksDone, ListReplicas, At
<1>3. CASE AwaitReplica \/ AwaitEntry
  <2>1. phase \in {"method", "class"} /\ List # <<>>
    BY <1>3 DEF AwaitReplica, AwaitEntry, At
  <2>2. phase' = phase \/ \E exception : EntryEnds(exception)
    BY <1>3 DEF AwaitReplica, AwaitEntry
  <2> QED
    BY <1>3, <2>1, <2>2, EntryEndsFacts DEF AwaitReplica, AwaitEntry
<1>4. CASE ListDone
  BY <1>4 DEF ListDone, PassOver
<1>5. CASE UNCHANGED vars
  BY <1>5 DEF vars, testVars
<1> QED
  BY <1>1, <1>2, <1>3, <1>4, <1>5

\* What a step does to the share as such: it is not made again, and it outlives
\* its replicas.
ShareKept ==
  ShareKnown' /\ ReplicasWithShare' /\ (Alive("share")' => Alive("share"))

LEMMA StepShare == IInv /\ [Next]_vars => ShareKept
<1> SUFFICES ASSUME IInv, [Next]_vars PROVE ShareKept
  OBVIOUS
<1>0. /\ TypeOK /\ ShareKnown /\ ReplicasWithShare
      /\ cloud \in [Things -> States] /\ "share" \in Things
      /\ \A r \in Replicas : r \in Things /\ r # "share"
      /\ step \in Nat
  <2>1. Len(Script[test]) \in Nat
    BY ScriptFacts DEF IInv, TypeOK
  <2> QED
    BY <2>1 DEF IInv, TypeOK, States, Things, Replicas
<1>1. CASE \/ TestPasses \/ AssertionFails \/ AwaitCallBack \/ CallBacksDone
           \/ ListReplicas \/ AwaitReplica \/ AwaitEntry \/ ListDone
           \/ UNCHANGED vars
  BY <1>0, <1>1, Quiet DEF ShareKept, ShareKnown, ReplicasWithShare, Alive
<1>2. CASE CallBack \/ ClearReplica \/ DeleteEntry
  BY <1>0, <1>2, CleanupDeletes, DeletesKeeps DEF ShareKept, ShareKnown, ReplicasWithShare
<1>3. CASE CreateReplica
  <2>1. step = 1 /\ phase = "test"
    <3>1. step \in 1 .. Len(Script[test])
      BY <1>0, <1>3 DEF CreateReplica, AtStep, TypeOK
    <3> QED
      BY <1>0, <1>3, <3>1, ScriptFacts DEF CreateReplica, AtStep, Step, TypeOK
  <2>2. cloud' = [cloud EXCEPT !["new"] = "creating"]
    BY <1>3 DEF CreateReplica, Set
  <2>3. cloud'["share"] = cloud["share"] /\ cloud["share"] = "active"
    BY <1>0, <2>1, <2>2 DEF ShareKnown
  <2> QED
    BY <2>3 DEF ShareKept, ShareKnown, ReplicasWithShare, Alive
<1>4. ASSUME RegisterDeletion \/ WaitOfTest \/ \E r \in Replicas : Synchronise(r)
      PROVE  ShareKept
  <2>1. cloud' = cloud
    BY <1>4 DEF RegisterDeletion, WaitOfTest, Synchronise
  <2>2. (step' = step /\ phase = "test") \/ step' = step + 1
    BY <1>4
    DEF RegisterDeletion, WaitOfTest, Synchronise, AtStep, Passed, Await,
        TestFails, TestOver
  <2>3. step \in 1 .. Len(Script[test]) + 1
    BY <1>0 DEF TypeOK
  <2> QED
    BY <1>0, <2>1, <2>2, <2>3 DEF ShareKept, ShareKnown, ReplicasWithShare, Alive
<1>5. ASSUME NEW r \in Replicas, Reset(r) PROVE ShareKept
  <2>1. /\ cloud' = [cloud EXCEPT ![r] = "out_of_sync"] /\ Alive(r)
        /\ phase = "test" /\ step' = step
    BY <1>5 DEF Reset, Set, AtStep, Await
  <2> QED
    BY <1>0, <2>1 DEF ShareKept, ShareKnown, ReplicasWithShare, Alive
<1>6. ASSUME NEW r \in Replicas, Promote(r)
      PROVE  ShareKept
  <2>1. /\ \/ cloud' = [cloud EXCEPT ![r] = "promoting"] /\ Alive(r)
           \/ cloud' = cloud
        /\ phase = "test" /\ step' = step
    BY <1>6 DEF Promote, Set, AtStep, Await, TestFails, TestOver, Alive
  <2> QED
    BY <1>0, <2>1 DEF ShareKept, ShareKnown, ReplicasWithShare, Alive
<1>7. ASSUME NEW x \in Things, TestDeletes(x)
      PROVE  ShareKept
  <2>1. Deletes(x)
    BY <1>0, <1>7, DeleteCallFacts DEF TestDeletes, Deletes
  <2>2. step # 1
    <3>1. /\ Script[test][step] = <<"delete", x>>
          /\ step \in 1 .. Len(Script[test])
      BY <1>0, <1>7 DEF TestDeletes, AtStep, Step, TypeOK
    <3> QED
      BY <1>0, <3>1, ScriptStarts DEF TypeOK
  <2>3. step' = step \/ step' = step + 1
    BY <1>7 DEF TestDeletes, Await, Passed, TestFails, TestOver
  <2>4. step' # 1
    <3>1. step \in 1 .. Len(Script[test]) + 1
      BY <1>0 DEF TypeOK
    <3> QED
      BY <2>2, <2>3, <3>1
  <2> QED
    BY <1>0, <2>1, <2>4, DeletesKeeps DEF ShareKept, ShareKnown, ReplicasWithShare
<1>8. CASE Manila
  <2>1. PICK x \in Things : Job(x)
    BY <1>8 DEF Manila
  <2>2. phase' = phase /\ step' = step
    BY <1>8 DEF Manila, testVars
  <2>3. CASE x = "share"
    <3>1. \/ cloud["share"] = "deleting" /\ \A y \in Things :
               cloud'[y] = IF Alive(y) THEN "gone" ELSE cloud[y]
          \/ cloud["share"] = "deleting" /\ cloud' = [cloud EXCEPT !["share"] = "stuck"]
      BY <1>0, <2>1, <2>3 DEF Job, Set, ShareKnown
    <3> QED
      BY <1>0, <2>2, <3>1 DEF ShareKept, ShareKnown, ReplicasWithShare, Alive
  <2>4. CASE x # "share"
    <3>1. x \in Replicas /\ Other(x) \in Replicas
      BY <2>4 DEF Things, Replicas, Other
    <3>2. /\ cloud'["share"] = cloud["share"]
          /\ \A r \in Replicas : Alive(r)' => Alive(r)
      BY <1>0, <2>1, <2>4, <3>1 DEF Job, Set, Alive
    <3> QED
      BY <1>0, <2>2, <3>2 DEF ShareKept, ShareKnown, ReplicasWithShare, Alive
  <2> QED
    BY <2>3, <2>4
<1> QED
  BY <1>1, <1>2, <1>3, <1>4, <1>5, <1>6, <1>7, <1>8 DEF Next, Worker

-----------------------------------------------------------------------------
(* The entry of the share.                                                 *)

\* An entry leaves its list quietly only if its thing is gone.
LEMMA EntryKeepsShare ==
  ASSUME TypeOK, ShareListed, NEW x \in Things, At(x), NEW exception,
         EntryEnds(exception), Alive("share")' => Alive("share"),
         exception \in {"none", "not_found"} /\ x = "share" => ~Alive("share")
  PROVE  ShareListed'
<1> SUFFICES ASSUME Alive("share"), Alive("share")', ~reported', ~hushed'
             PROVE  /\ phase' # "end"
                    /\ phase' = "class" => Holds(class', "share")
                    /\ Holds(method', "share") \/ Holds(class', "share")
  BY DEF ShareListed
<1>1. phase \in {"method", "class"} /\ List # <<>> /\ Head(List) = x
  BY DEF At
<1>2. /\ exception \in {"none", "not_found", "forbidden"}
      /\ ~hushed /\ ~(exception = "forbidden" /\ At("share"))
      /\ phase' = phase /\ ~reported
      /\ \/ phase = "method" /\ method' = Tail(method) /\ class' = class
         \/ phase = "class" /\ class' = Tail(class) /\ method' = method
  BY <1>1, EntryEndsFacts DEF TypeOK
<1>3. x # "share"
  BY <1>2
<1>4. /\ phase = "class" => Holds(class, "share")
      /\ Holds(method, "share") \/ Holds(class, "share")
  BY <1>2 DEF ShareListed
<1>5. CASE phase = "method"
  <2>1. method \in Seq(Things) /\ method # <<>> /\ Head(method) = x
    BY <1>1, <1>5 DEF List, TypeOK
  <2>2. Holds(method, "share") => Holds(Tail(method), "share")
    BY <1>3, <2>1, TailFacts
  <2> QED
    BY <1>2, <1>4, <1>5, <2>2
<1>6. CASE phase = "class"
  <2>1. class \in Seq(Things) /\ class # <<>> /\ Head(class) = x
    BY <1>1, <1>6 DEF List, TypeOK
  <2>2. Holds(class, "share") => Holds(Tail(class), "share")
    BY <1>3, <2>1, TailFacts
  <2> QED
    BY <1>2, <1>4, <1>6, <2>2
<1> QED
  BY <1>1, <1>5, <1>6

LEMMA StepListed == IInv /\ [Next]_vars => ShareListed'
<1> SUFFICES ASSUME IInv, [Next]_vars PROVE ShareListed'
  OBVIOUS
<1>0. /\ TypeOK /\ ShareListed /\ (Alive("share")' => Alive("share"))
      /\ "share" \in Things
  BY StepShare DEF IInv, ShareKept, Things
<1>1. CASE UNCHANGED <<phase, reported, hushed, method, class>>
  BY <1>0, <1>1 DEF ShareListed
<1>2. CASE TestFails /\ UNCHANGED cleanupVars
  BY <1>0, <1>2 DEF TestFails, TestOver, cleanupVars, ShareListed
<1>3. CASE TestPasses
  BY <1>0, <1>3 DEF TestPasses, TestOver, cleanupVars, ShareListed
<1>4. CASE CreateReplica
  <2>1. /\ phase' = phase /\ reported' = reported /\ class' = class
        /\ hushed' = hushed
        /\ method' \in {method, <<"new">> \o method} /\ phase = "test"
    BY <1>4 DEF CreateReplica, AtStep, Await
  <2>2. Holds(method, "share") => Holds(method', "share")
    <3>1. method \in Seq(Things) /\ "new" \in Things
      BY <1>0 DEF TypeOK, Things, Replicas
    <3>2. Holds(method, "share") => Holds(<<"new">> \o method, "share")
      BY <3>1, ListFacts
    <3> QED
      BY <2>1, <3>2
  <2> QED
    BY <1>0, <2>1, <2>2 DEF ShareListed
<1>5. CASE CallBack \/ AwaitCallBack
  BY <1>0, <1>5 DEF CallBack, AwaitCallBack, Keep, cleanupVars, ShareListed
<1>6. CASE CallBacksDone
  BY <1>0, <1>6 DEF CallBacksDone, ShareListed
<1>7. CASE ClearReplica
  <2>1. At("share")
    BY <1>7 DEF ClearReplica
  <2>2. CASE UNCHANGED <<phase, listed, method, class, rounds, reported, hushed>>
    BY <1>0, <2>2 DEF ShareListed
  <2>3. CASE \E answer \in Answers :
               answer # "none" /\ ~PassedOver(answer) /\ EntryEnds(answer)
    BY <1>0, <2>1, <2>3, EntryKeepsShare DEF PassedOver
  <2> QED
    BY <1>7, <2>2, <2>3 DEF ClearReplica
<1>8. CASE AwaitReplica
  <2>1. PICK outcome \in Answers :
          /\ WaitCall("gone", waiting[2], outcome)
          /\ IF outcome = "none"
               THEN UNCHANGED <<phase, method, class, reported, hushed>>
               ELSE EntryEnds(outcome)
    BY <1>8 DEF AwaitReplica
  <2>2. outcome # "not_found"
    BY <1>0, <1>8, <2>1, WaitCallFacts, WaitingFacts DEF AwaitReplica
  <2>3. At("share")
    BY <1>8 DEF AwaitReplica
  <2> QED
    BY <1>0, <1>1, <2>1, <2>2, <2>3, EntryKeepsShare
<1>9. CASE DeleteEntry
  <2>1. PICK x \in Things, answer \in Answers :
          /\ At(x) /\ DeleteCall(x, answer)
          /\ IF answer = "none"
               THEN UNCHANGED <<phase, method, class, reported, hushed>>
               ELSE EntryEnds(answer)
    BY <1>9 DEF DeleteEntry
  <2>2. answer = "not_found" => ~Alive(x)
    BY <1>0, <2>1, DeleteCallFacts
  <2> QED
    BY <1>0, <1>1, <2>1, <2>2, EntryKeepsShare
<1>10. CASE AwaitEntry
  <2>1. PICK x \in Things, outcome \in Answers :
          At(x) /\ WaitCall("gone", x, outcome) /\ EntryEnds(outcome)
    BY <1>10 DEF AwaitEntry
  <2>2. outcome \in {"none", "not_found"} => ~Alive(x)
    BY <1>0, <2>1, WaitCallFacts
  <2> QED
    BY <1>0, <2>1, <2>2, EntryKeepsShare
<1>11. CASE ListDone
  <2>1. /\ method' = method /\ class' = class /\ reported' = reported
        /\ hushed' = hushed
        /\ \/ phase = "method" /\ phase' \in {"method", "class"} /\ method = <<>>
           \/ phase = "class" /\ class = <<>>
    BY <1>11 DEF ListDone, PassOver, List
  <2>2. ~Holds(<<>>, "share")
    BY EmptyHolds
  <2>3. SUFFICES ASSUME Alive("share"), Alive("share")', ~reported, ~hushed
                 PROVE  /\ phase' # "end"
                        /\ phase' = "class" => Holds(class', "share")
                        /\ Holds(method', "share") \/ Holds(class', "share")
    BY <1>0, <2>1 DEF ShareListed
  <2>4. /\ phase = "class" => Holds(class, "share")
        /\ Holds(method, "share") \/ Holds(class, "share")
    BY <1>0, <2>3 DEF ShareListed
  <2>5. phase = "method" /\ Holds(class, "share")
    BY <2>1, <2>2, <2>4
  <2> QED
    BY <2>1, <2>5
<1>12. CASE AssertionFails \/ WaitOfTest
  BY <1>1, <1>2, <1>12 DEF AssertionFails, WaitOfTest, Passed, cleanupVars
<1>13. CASE RegisterDeletion
  BY <1>1, <1>13 DEF RegisterDeletion, Passed
<1>14. ASSUME NEW r \in Replicas, Synchronise(r) \/ Reset(r) \/ Promote(r)
       PROVE  ShareListed'
  BY <1>1, <1>2, <1>14 DEF Synchronise, Reset, Promote, Await, cleanupVars
<1>15. ASSUME NEW x \in Things, TestDeletes(x) PROVE ShareListed'
  BY <1>1, <1>2, <1>15 DEF TestDeletes, Await, Passed, cleanupVars
<1>16. CASE ListReplicas
  BY <1>1, <1>16 DEF ListReplicas
<1>17. CASE Manila \/ UNCHANGED vars
  BY <1>1, <1>17 DEF Manila, vars, cleanupVars
<1> QED
  BY <1>3, <1>4, <1>5, <1>6, <1>7, <1>8, <1>9, <1>10, <1>11, <1>12, <1>13,
     <1>14, <1>15, <1>16, <1>17
  DEF Next, Worker

-----------------------------------------------------------------------------
(* The theorems.                                                           *)

LEMMA InitIInv == Init => IInv
<1> SUFFICES ASSUME Init PROVE IInv
  OBVIOUS
<1>1. TypeOK
  BY InitTypeOK
<1>2. WaitsInScript /\ ShareKnown
  BY DEF Init, WaitsInScript, ShareKnown
<1>3. ReplicasWithShare
  BY DEF Init, ReplicasWithShare, Alive
<1>4. Holds(<<"share">>, "share")
  BY DEF Holds
<1>5. ShareListed
  BY <1>4 DEF Init, ShareListed
<1> QED
  BY <1>1, <1>2, <1>3, <1>5 DEF IInv

LEMMA StepIInv == IInv /\ [Next]_vars => IInv'
<1> SUFFICES ASSUME IInv, [Next]_vars PROVE IInv'
  OBVIOUS
<1>1. TypeOK'
  BY StepTypeOK DEF IInv
<1>2. WaitsInScript'
  BY StepWaits
<1>3. ShareKnown' /\ ReplicasWithShare'
  BY StepShare DEF ShareKept
<1>4. ShareListed'
  BY StepListed
<1> QED
  BY <1>1, <1>2, <1>3, <1>4 DEF IInv

\* The invariant: as long as nothing is reported and no Forbidden has closed it,
\* the share has an entry ahead of the cleanup, whether or not the test's own
\* failure counts; and a replica never outlives its share.
THEOREM Inductive == Spec => []IInv
<1> QED
  BY InitIInv, StepIInv, PTL DEF Spec

\* Every variable keeps its type: for any choice of the tests, any number of
\* rounds and of faults.
THEOREM TypeCorrect == Spec => []TypeOK
<1>1. IInv => TypeOK
  BY DEF IInv
<1> QED
  BY <1>1, Inductive, PTL

\* clear_resources and delete_share_replica: when the class has ended without
\* an error and no Forbidden has closed the entry of the share, neither the share
\* nor a replica is left, whatever was promoted and wherever the test stopped.
THEOREM NeverSilentLeak == Spec => []NoSilentLeak
<1>1. IInv => NoSilentLeak
  BY DEF IInv, ShareListed, ReplicasWithShare, NoSilentLeak, Things
<1> QED
  BY <1>1, Inductive, PTL
=============================================================================

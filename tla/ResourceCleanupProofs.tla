----------------------- MODULE ResourceCleanupProofs -----------------------
(***************************************************************************)
(* Theorems about ResourceCleanup, for any resources, any dependencies and *)
(* any split between the two lists.                                        *)
(*                                                                         *)
(* NoSelfInflictedRefusal is not inductive by itself: it holds because the *)
(* lists are in dependency order (Ordered), because every entry before the *)
(* one being handled is closed (Prefix), and because the entries of a list *)
(* are all the registered resources of its scope (Listed).                 *)
(***************************************************************************)
EXTENDS ResourceCleanup, TLAPS

List(r) == IF r \in ClassScope THEN classList ELSE methodList

\* Each list holds registered resources of its own scope.
Scoped ==
  /\ \A i \in 1 .. Len(classList) :
       classList[i] \in ClassScope /\ outcome[classList[i]] # "unregistered"
  /\ \A i \in 1 .. Len(methodList) :
       methodList[i] \notin ClassScope /\ outcome[methodList[i]] # "unregistered"

\* Every registered resource is in the list of its scope.
Listed ==
  \A r \in Resources : outcome[r] # "unregistered" =>
    \E i \in 1 .. Len(List(r)) : List(r)[i] = r

InOrder(L) ==
  \A i, j \in 1 .. Len(L) : L[j] \in Needs[L[i]] => i < j

\* A resource stands before those it needs.
Ordered == InOrder(classList) /\ InOrder(methodList)

\* A pass is at an entry, and has closed those before it.
Prefix ==
  Clearing => /\ pos # 0
              /\ \A i \in 1 .. Len(Entries) : i < pos => Flagged(Entries[i])

\* The steps of clear_resources past the first work on a pending entry.
Control ==
  /\ step # "idle" => Clearing
  /\ step \in {"replicas", "replica_wait", "delete", "wait"} =>
       pos \in 1 .. Len(Entries) /\ outcome[Current] = "pending"

\* What is registered exists or has existed, and so does what it needs.
BornFirst ==
  /\ \A r \in Resources : outcome[r] # "unregistered" => server[r] # "unborn"
  /\ \A r \in Resources : server[r] # "unborn" =>
       \A p \in Needs[r] : server[p] # "unborn"

\* The shares of a group that wait to be entered.
Entering ==
  phase = "members" =>
    /\ \E g \in Resources : todo \subseteq Members[g]
    /\ \A m \in todo :
         /\ server[m] # "unborn" /\ outcome[m] = "unregistered"
         /\ \A c \in Resources : m \in Needs[c] => outcome[c] = "unregistered"

IInv ==
  /\ TypeOK /\ Scoped /\ Listed /\ Ordered /\ Prefix /\ Control /\ BornFirst
  /\ Entering /\ DeletedIsGone

-----------------------------------------------------------------------------
(* What a step of clear_resources can do, whichever it is.                 *)

\* Manila has created nothing, and what was gone is gone.
ServerMoves ==
  /\ server' \in [Resources -> Statuses]
  /\ \A x \in Resources :
       /\ server'[x] = "unborn" <=> server[x] = "unborn"
       /\ server[x] = "gone" => server'[x] = "gone"

AtPending == pos \in 1 .. Len(Entries) /\ outcome[Current] = "pending"

Keeps == UNCHANGED outcome

Closes ==
  /\ AtPending
  /\ \E how \in Closings :
       /\ outcome' = [outcome EXCEPT ![Current] = how]
       /\ how = "deleted" => server'[Current] = "gone"

Works ==
  /\ AtPending /\ UNCHANGED <<phase, pos>>
  /\ step' \in {"replicas", "replica_wait", "delete", "wait"}

Advances ==
  /\ pos \in 1 .. Len(Entries) /\ outcome'[Current] \in Closings
  /\ pos' = pos + 1 /\ step' = "entry" /\ UNCHANGED phase

Leaves ==
  phase' \in {"between", "setup", "done"} /\ pos' = 0 /\ step' = "idle"

ClearStep ==
  /\ Clearing /\ ServerMoves /\ UNCHANGED <<classList, methodList>>
  /\ todo' \in SUBSET Resources /\ awaited' \in SUBSET Resources
  /\ \/ Keeps /\ (Works \/ Advances \/ Leaves)
     \/ Closes /\ (Advances \/ Leaves)

LEMMA CurrentType ==
  ASSUME TypeOK, pos \in 1 .. Len(Entries)
  PROVE  Current \in Resources
  BY DEF TypeOK, Entries, Current

\* A request to delete a resource creates nothing, and finds it gone when the
\* answer is NotFound.
LEMMA DeleteCallMoves ==
  ASSUME TypeOK, NEW r \in Resources, NEW reply, DeleteCall(r, reply)
  PROVE  /\ ServerMoves
         /\ reply = "NotFound" => server'[r] = "gone"
         /\ reply = "accepted" /\ Kind[r] = "lock" => server'[r] = "gone"
  BY DEF TypeOK, DeleteCall, ServerMoves, Statuses, AsyncKinds, Alive

\* An exception in the handling of a pending entry closes it, or ends the pass.
LEMMA RaiseStep ==
  ASSUME TypeOK, Clearing, AtPending, ServerMoves,
         NEW exc, Raise(exc), UNCHANGED <<classList, methodList>>,
         exc = "NotFound" => server'[Current] = "gone"
  PROVE  ClearStep
<1>1. Current \in Resources
  BY CurrentType DEF AtPending
<1>2. CASE Suppressed(exc) /\ Advance
             /\ Close(IF exc = "NotFound" THEN "deleted" ELSE "suppressed")
  <2>1. Closes
    BY <1>1, <1>2 DEF Closes, Close, Closings, AtPending
  <2>2. Advances
    BY <1>1, <1>2 DEF Advances, Advance, Close, Closings, TypeOK, AtPending
  <2> QED
    BY <1>2, <2>1, <2>2 DEF ClearStep, Advance
<1>3. CASE exc = "ResourceReleaseFailed" /\ Close("failed") /\ Leave
  <2>1. Closes
    BY <1>1, <1>3 DEF Closes, Close, Closings, AtPending
  <2> QED
    BY <1>3, <2>1 DEF ClearStep, Leave, Leaves
<1>4. CASE Leave /\ UNCHANGED outcome
  BY <1>4 DEF ClearStep, Leave, Leaves, Keeps
<1> QED
  BY <1>2, <1>3, <1>4 DEF Raise

LEMMA ServerStays ==
  ASSUME TypeOK, UNCHANGED server
  PROVE  ServerMoves
  BY DEF TypeOK, ServerMoves

LEMMA WaitFailsStep ==
  ASSUME TypeOK, Clearing, AtPending, UNCHANGED server,
         NEW r \in Resources, WaitFails(r), UNCHANGED <<classList, methodList>>
  PROVE  ClearStep
<1>1. PICK exc \in {"ResourceReleaseFailed", "TimeoutException", "Fault"} :
        Raise(exc)
  BY DEF WaitFails
<1> QED
  BY <1>1, RaiseStep, ServerStays

LEMMA ClearSteps ==
  ASSUME IInv, Clear
  PROVE  ClearStep
<1> USE DEF IInv
<1>1. CASE SkipEntry
  <2>1. Keeps /\ Advances /\ Clearing
    BY <1>1 DEF SkipEntry, AtEntry, Flagged, Advance, Advances, Keeps, tests,
                TypeOK, Prefix
  <2> QED
    BY <1>1, <2>1, ServerStays DEF ClearStep, SkipEntry, Advance, tests
<1>2. CASE PassEnds
  BY <1>2, ServerStays
     DEF PassEnds, ClearStep, Leave, Leaves, Keeps, tests
<1>3. ASSUME AtEntry, ~Flagged(Current)
      PROVE  Clearing /\ AtPending
  <2>1. Clearing /\ pos \in 1 .. Len(Entries)
    BY <1>3 DEF AtEntry, TypeOK, Prefix
  <2>2. outcome[Current] # "unregistered"
    BY <2>1 DEF Scoped, Entries, Current
  <2>3. outcome[Current] \in Outcomes
    BY <2>1, CurrentType DEF TypeOK
  <2> QED
    BY <1>3, <2>1, <2>2, <2>3 DEF AtPending, Outcomes, Flagged
<1>4. CASE BeginEntry
  BY <1>3, <1>4, ServerStays
     DEF BeginEntry, ClearStep, Keeps, Works, tests, TypeOK
<1>5. CASE BeginUnsupported
  <2>1. Clearing /\ AtPending /\ Current \in Resources
    BY <1>3, <1>5, CurrentType DEF BeginUnsupported, AtPending
  <2>2. Closes /\ Advances
    BY <2>1, <1>5 DEF BeginUnsupported, Closes, Close, Closings, Advances,
                      Advance, AtPending, TypeOK
  <2> QED
    BY <1>5, <2>1, <2>2, ServerStays DEF BeginUnsupported, ClearStep, Advance
<1>6. CASE BeginShareType
  <2>1. Clearing /\ AtPending /\ Current \in Resources
    BY <1>3, <1>6, CurrentType DEF BeginShareType, AtPending
  <2>2. CASE Close("skipped") /\ Advance
    <3>1. Closes /\ Advances
      BY <2>1, <2>2 DEF Closes, Close, Closings, Advances, Advance,
                        AtPending, TypeOK
    <3> QED
      BY <1>6, <2>1, <2>2, <3>1, ServerStays
         DEF BeginShareType, ClearStep, Advance
  <2>3. CASE step' = "delete" /\ UNCHANGED <<outcome, phase, pos, todo, awaited>>
    BY <1>6, <2>1, <2>3, ServerStays
       DEF BeginShareType, ClearStep, Keeps, Works, TypeOK
  <2> QED
    BY <1>6, <2>2, <2>3 DEF BeginShareType
<1>7. CASE BeginShare
  <2>1. Clearing /\ AtPending
    BY <1>3, <1>7 DEF BeginShare
  <2>2. CASE Raise("Fault")
    BY <1>7, <2>1, <2>2, ServerStays, RaiseStep DEF BeginShare
  <2>3. CASE ~Raise("Fault")
    <3>1. UNCHANGED <<server, classList, methodList, outcome, phase, pos,
                      awaited>>
          /\ step' = "replicas" /\ todo' \in SUBSET Resources
      BY <1>7, <2>3 DEF BeginShare
    <3> QED
      BY <2>1, <3>1, ServerStays DEF ClearStep, Keeps, Works, TypeOK
  <2> QED
    BY <2>2, <2>3
<1>8. ASSUME step \in {"replicas", "replica_wait", "delete", "wait"}
      PROVE  Clearing /\ AtPending /\ Current \in Resources
  BY <1>8, CurrentType DEF Control, AtPending
<1>9. CASE ReplicasDone
  BY <1>8, <1>9, ServerStays
     DEF ReplicasDone, ClearStep, Keeps, Works, tests, TypeOK
<1>10. CASE RequestDelete
  <2>1. Clearing /\ AtPending /\ Current \in Resources
    BY <1>8, <1>10 DEF RequestDelete
  <2>2. PICK reply \in {"accepted", "NotFound", "Forbidden", "Conflict",
                        "Fault"} :
          /\ DeleteCall(Current, reply)
          /\ \/ /\ reply = "accepted" /\ Kind[Current] # "lock"
                /\ step' = "wait"
                /\ UNCHANGED <<outcome, phase, pos, todo, awaited>>
             \/ /\ reply = "accepted" /\ Kind[Current] = "lock"
                /\ Close("deleted") /\ Advance
             \/ reply # "accepted" /\ Raise(reply)
    BY <1>10 DEF RequestDelete
  <2>3. /\ ServerMoves
        /\ reply = "NotFound" => server'[Current] = "gone"
        /\ reply = "accepted" /\ Kind[Current] = "lock" =>
             server'[Current] = "gone"
    BY <2>1, <2>2, DeleteCallMoves
  <2>4. UNCHANGED <<classList, methodList>>
    BY <1>10 DEF RequestDelete
  <2>5. CASE step' = "wait" /\ UNCHANGED <<outcome, phase, pos, todo, awaited>>
    BY <2>1, <2>3, <2>4, <2>5 DEF ClearStep, Keeps, Works, TypeOK
  <2>6. CASE /\ reply = "accepted" /\ Kind[Current] = "lock"
             /\ Close("deleted") /\ Advance
    <3>1. Closes /\ Advances
      BY <2>1, <2>3, <2>6 DEF Closes, Close, Closings, Advances, Advance,
                              AtPending, TypeOK
    <3> QED
      BY <2>1, <2>3, <2>4, <2>6, <3>1 DEF ClearStep, Advance
  <2>7. CASE Raise(reply)
    BY <2>1, <2>3, <2>4, <2>7, RaiseStep
  <2> QED
    BY <2>2, <2>5, <2>6, <2>7
<1>11. CASE Await
  <2>1. Clearing /\ AtPending /\ Current \in Resources
    BY <1>8, <1>11 DEF Await
  <2>2. CASE server[Current] = "gone" /\ Close("deleted") /\ Advance
    <3>1. Closes /\ Advances
      BY <1>11, <2>1, <2>2 DEF Await, Closes, Close, Closings, Advances,
                               Advance, AtPending, TypeOK
    <3> QED
      BY <1>11, <2>1, <2>2, <3>1, ServerStays DEF Await, ClearStep, Advance
  <2>3. CASE WaitFails(Current)
    BY <1>11, <2>1, <2>3, WaitFailsStep DEF Await
  <2> QED
    BY <1>11, <2>2, <2>3 DEF Await
<1>12. ASSUME NEW c \in Resources, DeleteReplica(c)
       PROVE  ClearStep
  <2>1. Clearing /\ AtPending /\ Current \in Resources
    BY <1>8, <1>12 DEF DeleteReplica
  <2>2. PICK reply \in {"accepted", "NotFound", "Forbidden", "Conflict",
                        "Fault"} :
          /\ DeleteCall(c, reply)
          /\ \/ /\ reply = "accepted" /\ step' = "replica_wait"
                /\ awaited' = {c} /\ UNCHANGED <<outcome, phase, pos, todo>>
             \/ /\ reply = "NotFound" /\ todo' = todo \ {c}
                /\ UNCHANGED <<outcome, phase, pos, step, awaited>>
             \/ reply \notin {"accepted", "NotFound"} /\ Raise(reply)
    BY <1>12 DEF DeleteReplica
  <2>3. ServerMoves
    BY <2>2, DeleteCallMoves
  <2>4. UNCHANGED <<classList, methodList>> /\ step = "replicas"
    BY <1>12 DEF DeleteReplica
  <2>5. CASE reply \notin {"accepted", "NotFound"} /\ Raise(reply)
    BY <2>1, <2>3, <2>4, <2>5, RaiseStep
  <2>6. CASE reply \in {"accepted", "NotFound"}
    BY <1>12, <2>1, <2>2, <2>3, <2>4, <2>6 DEF ClearStep, Keeps, Works, TypeOK
  <2> QED
    BY <2>2, <2>5, <2>6
<1>13. ASSUME NEW c \in Resources, AwaitReplica(c)
       PROVE  ClearStep
  <2>1. Clearing /\ AtPending /\ Current \in Resources
    BY <1>8, <1>13 DEF AwaitReplica
  <2>2. CASE WaitFails(c)
    BY <1>13, <2>1, <2>2, WaitFailsStep DEF AwaitReplica
  <2>3. CASE ~WaitFails(c)
    BY <1>13, <2>1, <2>3, ServerStays
       DEF AwaitReplica, ClearStep, Keeps, Works, TypeOK
  <2> QED
    BY <2>2, <2>3
<1> QED
  BY <1>1, <1>2, <1>4, <1>5, <1>6, <1>7, <1>9, <1>10, <1>11, <1>12, <1>13
     DEF Clear

-----------------------------------------------------------------------------
(* Every step keeps the invariant.                                         *)

\* A step of clear_resources: the lists stay; the entry at hand may close.
LEMMA ClearPreserves ==
  ASSUME IInv, ClearStep
  PROVE  IInv'
<1> USE DEF IInv
<1>1. /\ ServerMoves /\ Clearing /\ UNCHANGED <<classList, methodList>>
      /\ Keeps \/ Closes
      /\ Works \/ Advances \/ Leaves
  BY DEF ClearStep
<1>2. /\ outcome' \in [Resources -> Outcomes]
      /\ \A r \in Resources :
           /\ outcome'[r] = "unregistered" <=> outcome[r] = "unregistered"
           /\ outcome[r] \in Closings => outcome'[r] = outcome[r]
           /\ outcome'[r] = "deleted" => server'[r] = "gone"
  <2>1. CASE Keeps
    BY <1>1, <2>1 DEF Keeps, TypeOK, ServerMoves, DeletedIsGone
  <2>2. CASE Closes
    <3>1. Current \in Resources /\ outcome[Current] = "pending"
      BY <2>2, CurrentType DEF Closes, AtPending
    <3>2. PICK how \in Closings :
            /\ outcome' = [outcome EXCEPT ![Current] = how]
            /\ how = "deleted" => server'[Current] = "gone"
      BY <2>2 DEF Closes
    <3> QED
      BY <1>1, <3>1, <3>2
         DEF TypeOK, Outcomes, Closings, ServerMoves, DeletedIsGone
  <2> QED
    BY <1>1, <2>1, <2>2
<1>3. TypeOK'
  BY <1>1, <1>2 DEF TypeOK, ClearStep, ServerMoves, Works, Advances, Leaves,
                    Phases, Steps
<1>4. Scoped'
  <2>1. \A i \in 1 .. Len(classList) : classList[i] \in Resources
    BY DEF TypeOK
  <2>2. \A i \in 1 .. Len(methodList) : methodList[i] \in Resources
    BY DEF TypeOK
  <2> QED
    BY <1>1, <1>2, <2>1, <2>2 DEF Scoped
<1>5. Listed' /\ Ordered'
  BY <1>1, <1>2 DEF Listed, List, Ordered, InOrder
<1>6. Prefix'
  <2>1. \A i \in 1 .. Len(Entries) :
          Entries[i] \in Resources
    BY DEF TypeOK, Entries
  <2>2. CASE Works
    <3>1. Entries' = Entries /\ pos' = pos
      BY <1>1, <2>2 DEF Works, Entries
    <3> QED
      BY <1>1, <1>2, <2>1, <2>2, <3>1 DEF Prefix, Flagged, Works
  <2>3. CASE Advances
    <3>1. Entries' = Entries /\ pos' = pos + 1 /\ pos \in 1 .. Len(Entries)
      BY <1>1, <2>3 DEF Advances, Entries
    <3>2. outcome'[Entries[pos]] \in Closings
      BY <2>3 DEF Advances, Current
    <3>3. ASSUME NEW i \in 1 .. Len(Entries), i < pos + 1
          PROVE  outcome'[Entries[i]] \in Closings
      <4>1. i = pos \/ i < pos
        BY <3>1, <3>3
      <4>2. CASE i < pos
        BY <1>1, <1>2, <2>1, <4>2 DEF Prefix, Flagged
      <4> QED
        BY <3>2, <4>1, <4>2
    <3> QED
      BY <3>1, <3>3 DEF Prefix, Flagged
  <2>4. CASE Leaves
    BY <2>4 DEF Leaves, Prefix, Clearing
  <2> QED
    BY <1>1, <2>2, <2>3, <2>4
<1>7. Control'
  <2>1. CASE Works
    <3>1. Keeps
      BY <2>1, CurrentType DEF ClearStep, Works, Closes, Advances, Leaves,
                               AtPending, Clearing, TypeOK
    <3> QED
      BY <1>1, <2>1, <3>1
         DEF Works, Keeps, Control, AtPending, Entries, Current, Clearing
  <2>2. CASE Advances
    BY <1>1, <2>2 DEF Advances, Control, Clearing
  <2>3. CASE Leaves
    BY <2>3 DEF Leaves, Control
  <2> QED
    BY <1>1, <2>1, <2>2, <2>3
<1>8. BornFirst'
  BY <1>1, <1>2, CleanupAssumption DEF BornFirst, ServerMoves
<1>9. Entering'
  BY <1>1 DEF Entering, Works, Advances, Leaves, Clearing
<1>10. DeletedIsGone'
  BY <1>2 DEF DeletedIsGone
<1> QED
  BY <1>3, <1>4, <1>5, <1>6, <1>7, <1>8, <1>9, <1>10

\* Manila finishing something, a test deleting or resetting a resource: only
\* the server moves.
LEMMA ServerStepPreserves ==
  ASSUME IInv, ServerMoves, UNCHANGED <<tests, cleaner>>
  PROVE  IInv'
<1> USE DEF IInv, tests, cleaner
<1>1. TypeOK'
  BY DEF TypeOK, ServerMoves
<1>2. Scoped' /\ Listed' /\ Ordered' /\ Prefix' /\ Control'
  BY DEF Scoped, Listed, List, Ordered, InOrder, Prefix, Control, Clearing,
         Entries, Current, Flagged
<1>3. BornFirst'
  BY CleanupAssumption DEF BornFirst, ServerMoves
<1>4. Entering'
  <2>1. phase = "members" => todo \subseteq Resources
    BY DEF TypeOK
  <2> QED
    BY <2>1 DEF Entering, ServerMoves
<1>5. DeletedIsGone'
  BY DEF DeletedIsGone, ServerMoves
<1> QED
  BY <1>1, <1>2, <1>3, <1>4, <1>5

\* The runner passes from one activity to another: no resource is touched.
LEMMA PhaseStepPreserves ==
  ASSUME IInv, UNCHANGED <<server, tests>>, ~Clearing,
         \/ StartClear("clear_method") \/ StartClear("clear_class")
         \/ phase' = "test" /\ UNCHANGED <<pos, step, todo, awaited>>
  PROVE  IInv'
<1> USE DEF IInv, tests
<1>1. step = "idle"
  BY DEF Control
<1>2. TypeOK'
  BY DEF TypeOK, StartClear, Phases, Steps
<1>3. Scoped' /\ Listed' /\ Ordered' /\ BornFirst' /\ DeletedIsGone'
  BY DEF Scoped, Listed, List, Ordered, InOrder, BornFirst, DeletedIsGone
<1>4. Prefix'
  <2>1. CASE pos' = 1
    BY <2>1 DEF Prefix
  <2>2. CASE phase' = "test"
    BY <2>2 DEF Prefix, Clearing
  <2> QED
    BY <2>1, <2>2 DEF StartClear
<1>5. Control' /\ Entering'
  BY <1>1 DEF Control, Entering, StartClear, Clearing
<1> QED
  BY <1>2, <1>3, <1>4, <1>5

\* What Manila does when it takes a request to create: r and its members are
\* born, nothing else changes, and nothing is born before what it needs.
LEMMA BornStep ==
  ASSUME IInv, NEW r \in Resources, Creatable(r), Born(r)
  PROVE  /\ server' \in [Resources -> Statuses]
         /\ \A x \in Resources : server[x] # "unborn" => server'[x] = server[x]
         /\ \A x \in Resources : x = r \/ x \in Members[r] =>
              /\ server[x] = "unborn" /\ server'[x] # "unborn"
              /\ outcome[x] = "unregistered"
              /\ \A c \in Resources : x \in Needs[c] =>
                   outcome[c] = "unregistered"
         /\ \A x \in Resources : server'[x] # "unborn" =>
              \A p \in Needs[x] : server'[p] # "unborn"
<1> USE DEF IInv
<1>1. /\ server \in [Resources -> Statuses] /\ server[r] = "unborn"
      /\ \A p \in Needs[r] : server[p] = "available"
      /\ server' = [x \in Resources |->
                      IF x = r /\ Kind[r] \notin AsyncKinds THEN "available"
                      ELSE IF x = r \/ x \in Members[r] THEN "busy"
                      ELSE server[x]]
  BY DEF TypeOK, Creatable, Born
<1>2. server' \in [Resources -> Statuses]
  BY <1>1 DEF Statuses
<1>3. \A x \in Resources : x \in Members[r] => server[x] = "unborn"
  <2>1. ASSUME NEW x \in Resources, x \in Members[r]
        PROVE  r \in Needs[x]
    BY <2>1, CleanupAssumption
  <2> QED
    BY <1>1, <2>1 DEF BornFirst
<1>4. \A x \in Resources : server[x] # "unborn" => server'[x] = server[x]
  BY <1>1, <1>3
<1>5. \A x \in Resources : x = r \/ x \in Members[r] =>
        /\ server[x] = "unborn" /\ server'[x] # "unborn"
        /\ outcome[x] = "unregistered"
        /\ \A c \in Resources : x \in Needs[c] => outcome[c] = "unregistered"
  BY <1>1, <1>3 DEF BornFirst
<1>6. ASSUME NEW x \in Resources, server'[x] # "unborn", NEW p \in Needs[x]
      PROVE  server'[p] # "unborn"
  <2>1. p \in Resources
    BY CleanupAssumption
  <2>2. CASE server[x] # "unborn"
    BY <1>4, <2>1, <2>2 DEF BornFirst
  <2>3. CASE x = r
    BY <1>1, <1>4, <2>1, <2>3
  <2>4. CASE x \in Members[r]
    <3>1. p = r \/ p \in Needs[r]
      BY <2>4, CleanupAssumption
    <3> QED
      BY <1>1, <1>4, <1>5, <2>1, <3>1
  <2> QED
    BY <1>1, <1>6, <2>2, <2>3, <2>4
<1> QED
  BY <1>2, <1>4, <1>5, <1>6

\* The front of a list: a new entry shifts the others by one.
LEMMA FrontInsert ==
  ASSUME NEW S, NEW L \in Seq(S), NEW r \in S
  PROVE  /\ <<r>> \o L \in Seq(S)
         /\ Len(<<r>> \o L) = Len(L) + 1
         /\ (<<r>> \o L)[1] = r
         /\ \A i \in 1 .. Len(L) : (<<r>> \o L)[i + 1] = L[i]
         /\ \A i \in 2 .. Len(L) + 1 : (<<r>> \o L)[i] = L[i - 1]
  OBVIOUS

LEMMA FrontInOrder ==
  ASSUME NEW L \in Seq(Resources), NEW r \in Resources, InOrder(L),
         \A i \in 1 .. Len(L) : r \notin Needs[L[i]]
  PROVE  InOrder(<<r>> \o L)
<1> DEFINE M == <<r>> \o L
<1>1. /\ Len(M) = Len(L) + 1 /\ M[1] = r
      /\ \A i \in 2 .. Len(M) : M[i] = L[i - 1] /\ i - 1 \in 1 .. Len(L)
  BY FrontInsert
<1>2. r \notin Needs[r]
  BY CleanupAssumption
<1>3. ASSUME NEW i \in 1 .. Len(M), NEW j \in 1 .. Len(M), M[j] \in Needs[M[i]]
      PROVE  i < j
  <2>1. CASE j = 1
    BY <1>1, <1>2, <1>3, <2>1
  <2>2. CASE i = 1 /\ j # 1
    BY <2>2
  <2>3. CASE i # 1 /\ j # 1
    <3>1. /\ M[i] = L[i - 1] /\ i - 1 \in 1 .. Len(L)
          /\ M[j] = L[j - 1] /\ j - 1 \in 1 .. Len(L)
      BY <1>1, <2>3
    <3>2. i - 1 < j - 1
      BY <1>3, <3>1 DEF InOrder
    <3> QED
      BY <3>2
  <2> QED
    BY <2>1, <2>2, <2>3
<1> HIDE DEF M
<1>4. InOrder(M)
  BY <1>3 DEF InOrder
<1> QED
  BY <1>4 DEF M

\* Entering r, which nothing registered needs, in front of its list.
LEMMA EnterStep ==
  ASSUME IInv, NEW r \in Resources, Enter(r),
         outcome[r] = "unregistered",
         \A c \in Resources : r \in Needs[c] => outcome[c] = "unregistered"
  PROVE  /\ classList' \in Seq(Resources) /\ methodList' \in Seq(Resources)
         /\ outcome' = [outcome EXCEPT ![r] = "pending"]
         /\ outcome' \in [Resources -> Outcomes]
         /\ Scoped' /\ Listed' /\ Ordered'
<1> USE DEF IInv
<1>1. /\ classList \in Seq(Resources) /\ methodList \in Seq(Resources)
      /\ outcome \in [Resources -> Outcomes]
  BY DEF TypeOK
<1>2. /\ outcome' = [outcome EXCEPT ![r] = "pending"]
      /\ outcome' \in [Resources -> Outcomes]
      /\ \A x \in Resources : outcome'[x] # "unregistered" <=>
           (x = r \/ outcome[x] # "unregistered")
  BY <1>1 DEF Enter, Outcomes
<1>3. /\ \A i \in 1 .. Len(classList) : classList[i] \in Resources
      /\ \A i \in 1 .. Len(methodList) : methodList[i] \in Resources
  BY <1>1
<1>4. /\ \A i \in 1 .. Len(classList) : r \notin Needs[classList[i]]
      /\ \A i \in 1 .. Len(methodList) : r \notin Needs[methodList[i]]
  BY <1>3 DEF Scoped
<1>5. CASE r \in ClassScope
  <2>1. classList' = <<r>> \o classList /\ methodList' = methodList
    BY <1>5 DEF Enter
  <2>2. /\ classList' \in Seq(Resources) /\ methodList' \in Seq(Resources)
        /\ Len(classList') = Len(classList) + 1 /\ classList'[1] = r
        /\ \A i \in 1 .. Len(classList) : classList'[i + 1] = classList[i]
        /\ \A i \in 2 .. Len(classList') : classList'[i] = classList[i - 1]
    BY <1>1, <2>1, FrontInsert
  <2>3. Ordered'
    <3>1. InOrder(classList') /\ InOrder(methodList')
      BY <1>1, <1>4, <2>1, FrontInOrder DEF Ordered
    <3> QED
      BY <3>1 DEF Ordered, InOrder
  <2>4. Scoped'
    <3>1. ASSUME NEW i \in 1 .. Len(classList')
          PROVE  classList'[i] \in ClassScope
                 /\ outcome'[classList'[i]] # "unregistered"
      <4>1. CASE i = 1
        BY <1>2, <1>5, <2>2, <4>1
      <4>2. CASE i # 1
        <5>1. i - 1 \in 1 .. Len(classList) /\ classList'[i] = classList[i - 1]
          BY <1>1, <2>2, <4>2
        <5> QED
          BY <1>2, <1>3, <5>1 DEF Scoped
      <4> QED
        BY <4>1, <4>2
    <3> QED
      BY <1>2, <1>3, <2>1, <3>1 DEF Scoped
  <2>5. Listed'
    <3>1. ASSUME NEW x \in Resources, outcome'[x] # "unregistered"
          PROVE  \E i \in 1 .. Len(List(x)') : List(x)'[i] = x
      <4>1. CASE x = r
        BY <1>1, <1>5, <2>2, <4>1 DEF List
      <4>2. CASE x # r /\ x \in ClassScope
        <5>1. PICK i \in 1 .. Len(classList) : classList[i] = x
          BY <1>2, <3>1, <4>2 DEF Listed, List
        <5>2. i + 1 \in 1 .. Len(classList') /\ classList'[i + 1] = x
          BY <1>1, <2>2, <5>1
        <5> QED
          BY <4>2, <5>2 DEF List
      <4>3. CASE x # r /\ x \notin ClassScope
        BY <1>2, <2>1, <3>1, <4>3 DEF Listed, List
      <4> QED
        BY <4>1, <4>2, <4>3
    <3> QED
      BY <3>1 DEF Listed, List
  <2> QED
    BY <1>2, <2>2, <2>3, <2>4, <2>5
<1>6. CASE r \notin ClassScope
  <2>1. methodList' = <<r>> \o methodList /\ classList' = classList
    BY <1>6 DEF Enter
  <2>2. /\ classList' \in Seq(Resources) /\ methodList' \in Seq(Resources)
        /\ Len(methodList') = Len(methodList) + 1 /\ methodList'[1] = r
        /\ \A i \in 1 .. Len(methodList) : methodList'[i + 1] = methodList[i]
        /\ \A i \in 2 .. Len(methodList') : methodList'[i] = methodList[i - 1]
    BY <1>1, <2>1, FrontInsert
  <2>3. Ordered'
    <3>1. InOrder(classList') /\ InOrder(methodList')
      BY <1>1, <1>4, <2>1, FrontInOrder DEF Ordered
    <3> QED
      BY <3>1 DEF Ordered, InOrder
  <2>4. Scoped'
    <3>1. ASSUME NEW i \in 1 .. Len(methodList')
          PROVE  methodList'[i] \notin ClassScope
                 /\ outcome'[methodList'[i]] # "unregistered"
      <4>1. CASE i = 1
        BY <1>2, <1>6, <2>2, <4>1
      <4>2. CASE i # 1
        <5>1. /\ i - 1 \in 1 .. Len(methodList)
              /\ methodList'[i] = methodList[i - 1]
          BY <1>1, <2>2, <4>2
        <5> QED
          BY <1>2, <1>3, <5>1 DEF Scoped
      <4> QED
        BY <4>1, <4>2
    <3> QED
      BY <1>2, <1>3, <2>1, <3>1 DEF Scoped
  <2>5. Listed'
    <3>1. ASSUME NEW x \in Resources, outcome'[x] # "unregistered"
          PROVE  \E i \in 1 .. Len(List(x)') : List(x)'[i] = x
      <4>1. CASE x = r
        BY <1>1, <1>6, <2>2, <4>1 DEF List
      <4>2. CASE x # r /\ x \notin ClassScope
        <5>1. PICK i \in 1 .. Len(methodList) : methodList[i] = x
          BY <1>2, <3>1, <4>2 DEF Listed, List
        <5>2. i + 1 \in 1 .. Len(methodList') /\ methodList'[i + 1] = x
          BY <1>1, <2>2, <5>1
        <5> QED
          BY <4>2, <5>2 DEF List
      <4>3. CASE x # r /\ x \in ClassScope
        BY <1>2, <2>1, <3>1, <4>3 DEF Listed, List
      <4> QED
        BY <4>1, <4>2, <4>3
    <3> QED
      BY <3>1 DEF Listed, List
  <2> QED
    BY <1>2, <2>2, <2>3, <2>4, <2>5
<1> QED
  BY <1>5, <1>6

\* A request to create r was taken, and r is entered or lost.
LEMMA BirthStep ==
  ASSUME IInv, NEW r \in Resources, Creatable(r), Born(r),
         Enter(r) \/ UNCHANGED tests
  PROVE  /\ server' \in [Resources -> Statuses]
         /\ outcome' \in [Resources -> Outcomes]
         /\ classList' \in Seq(Resources) /\ methodList' \in Seq(Resources)
         /\ Scoped' /\ Listed' /\ Ordered' /\ BornFirst' /\ DeletedIsGone'
<1> USE DEF IInv
<1>1. /\ server' \in [Resources -> Statuses]
      /\ \A x \in Resources : server[x] # "unborn" => server'[x] = server[x]
      /\ server'[r] # "unborn" /\ outcome[r] = "unregistered"
      /\ \A c \in Resources : r \in Needs[c] => outcome[c] = "unregistered"
      /\ \A x \in Resources : server'[x] # "unborn" =>
           \A p \in Needs[x] : server'[p] # "unborn"
  BY BornStep
<1>2. /\ outcome' \in [Resources -> Outcomes]
      /\ classList' \in Seq(Resources) /\ methodList' \in Seq(Resources)
      /\ Scoped' /\ Listed' /\ Ordered'
      /\ \/ outcome' = [outcome EXCEPT ![r] = "pending"]
         \/ outcome' = outcome
  <2>1. CASE Enter(r)
    BY <1>1, <2>1, EnterStep
  <2>2. CASE UNCHANGED tests
    BY <2>2 DEF tests, TypeOK, Scoped, Listed, List, Ordered, InOrder
  <2> QED
    BY <2>1, <2>2
<1>3. \A x \in Resources :
        x = r \/ outcome'[x] = outcome[x]
  BY <1>2 DEF TypeOK
<1>4. BornFirst'
  BY <1>1, <1>3 DEF BornFirst
<1>5. outcome'[r] # "deleted"
  BY <1>1, <1>2 DEF TypeOK
<1>6. DeletedIsGone'
  <2>1. ASSUME NEW x \in Resources, outcome'[x] = "deleted"
        PROVE  server'[x] = "gone"
    BY <1>1, <1>3, <1>5, <2>1 DEF DeletedIsGone
  <2> QED
    BY <2>1 DEF DeletedIsGone
<1> QED
  BY <1>1, <1>2, <1>4, <1>6

\* The tests and the runner.
LEMMA RunnerPreserves ==
  ASSUME IInv, Runner
  PROVE  IInv'
<1> USE DEF IInv
<1>1. CASE NextTest
  BY <1>1, PhaseStepPreserves DEF NextTest, Clearing
<1>2. CASE TestEnds
  BY <1>2, PhaseStepPreserves DEF TestEnds, Clearing
<1>3. CASE ClassEnds
  BY <1>3, PhaseStepPreserves DEF ClassEnds, Clearing
<1>4. CASE MembersEntered
  BY <1>4, PhaseStepPreserves DEF MembersEntered, Clearing
<1>5. CASE MembersLost
  BY <1>5, PhaseStepPreserves DEF MembersLost, Clearing
<1>6. ASSUME NEW r \in Resources, Creatable(r)
      PROVE  ~Clearing /\ step = "idle" /\ phase \in {"setup", "test"}
  BY <1>6 DEF Creatable, Clearing, Control
<1>7. ASSUME NEW r \in Resources, Create(r) \/ CreateWithoutCleanup(r)
      PROVE  IInv'
  <2>1. /\ Creatable(r) /\ Born(r) /\ UNCHANGED cleaner
        /\ Enter(r) \/ UNCHANGED tests
    BY <1>7 DEF Create, CreateWithoutCleanup
  <2>2. TypeOK' /\ Scoped' /\ Listed' /\ Ordered' /\ BornFirst'
        /\ DeletedIsGone'
    BY <2>1, BirthStep DEF TypeOK, cleaner
  <2>3. Prefix' /\ Control' /\ Entering'
    BY <1>6, <2>1 DEF cleaner, Prefix, Control, Entering, Clearing
  <2> QED
    BY <2>2, <2>3
<1>8. ASSUME NEW r \in Resources, CreateLost(r)
      PROVE  IInv'
  <2>1. Creatable(r) /\ Born(r) /\ UNCHANGED tests
    BY <1>8 DEF CreateLost
  <2>2. /\ phase' \in {"clear_class", "clear_method"} /\ pos' = 1
        /\ step' = "entry" /\ todo' = {} /\ awaited' = {}
    BY <1>8 DEF CreateLost, StartClear
  <2>3. TypeOK' /\ Scoped' /\ Listed' /\ Ordered' /\ BornFirst'
        /\ DeletedIsGone'
    BY <2>1, <2>2, BirthStep DEF TypeOK, Phases, Steps
  <2>4. Prefix'
    BY <2>2 DEF Prefix
  <2>5. Control' /\ Entering'
    BY <2>2 DEF Control, Entering, Clearing
  <2> QED
    BY <2>3, <2>4, <2>5
<1>9. ASSUME NEW g \in Resources, CreateGroup(g)
      PROVE  IInv'
  <2>1. /\ Creatable(g) /\ Born(g) /\ Enter(g)
        /\ phase' = "members" /\ todo' = Members[g]
        /\ UNCHANGED <<pos, step, awaited>>
    BY <1>9 DEF CreateGroup
  <2>2. TypeOK' /\ Scoped' /\ Listed' /\ Ordered' /\ BornFirst'
        /\ DeletedIsGone'
    BY <2>1, BirthStep, CleanupAssumption DEF TypeOK, Phases
  <2>3. Prefix' /\ Control'
    BY <1>6, <2>1 DEF Prefix, Control, Clearing
  <2>4. Entering'
    <3>1. outcome' = [outcome EXCEPT ![g] = "pending"]
          /\ outcome \in [Resources -> Outcomes]
      BY <2>1 DEF Enter, TypeOK
    <3>2. ASSUME NEW m \in Members[g]
          PROVE  /\ server'[m] # "unborn" /\ outcome'[m] = "unregistered"
                 /\ \A c \in Resources :
                      m \in Needs[c] => outcome'[c] = "unregistered"
      <4>1. m \in Resources /\ g \in Needs[m]
        BY CleanupAssumption
      <4>2. m # g /\ m \notin Needs[g]
        BY <4>1, CleanupAssumption
      <4>3. /\ server'[m] # "unborn" /\ outcome[m] = "unregistered"
            /\ \A c \in Resources :
                 m \in Needs[c] => outcome[c] = "unregistered"
        BY <2>1, <4>1, BornStep
      <4> QED
        BY <3>1, <4>1, <4>2, <4>3
    <3> QED
      BY <2>1, <3>2 DEF Entering
  <2> QED
    BY <2>2, <2>3, <2>4
<1>10. ASSUME NEW m \in Resources, EnterMember(m)
       PROVE  IInv'
  <2>1. /\ phase = "members" /\ m \in todo /\ Enter(m) /\ todo' = todo \ {m}
        /\ UNCHANGED <<server, phase, pos, step, awaited>>
    BY <1>10 DEF EnterMember
  <2>2. /\ server[m] # "unborn" /\ outcome[m] = "unregistered"
        /\ \A c \in Resources : m \in Needs[c] => outcome[c] = "unregistered"
    BY <2>1 DEF Entering
  <2>3. /\ classList' \in Seq(Resources) /\ methodList' \in Seq(Resources)
        /\ outcome' = [outcome EXCEPT ![m] = "pending"]
        /\ outcome' \in [Resources -> Outcomes]
        /\ Scoped' /\ Listed' /\ Ordered'
    BY <2>1, <2>2, EnterStep
  <2>4. TypeOK'
    BY <2>1, <2>3 DEF TypeOK
  <2>5. BornFirst' /\ DeletedIsGone'
    BY <2>1, <2>2, <2>3, CleanupAssumption
       DEF BornFirst, DeletedIsGone, TypeOK
  <2>6. Prefix' /\ Control'
    BY <2>1 DEF Prefix, Control, Clearing
  <2>7. Entering'
    <3>1. PICK g \in Resources : todo \subseteq Members[g]
      BY <2>1 DEF Entering
    <3>2. ASSUME NEW n \in todo'
          PROVE  /\ server'[n] # "unborn" /\ outcome'[n] = "unregistered"
                 /\ \A c \in Resources :
                      n \in Needs[c] => outcome'[c] = "unregistered"
      <4>1. n \in todo /\ n # m /\ n \in Members[g] /\ n \in Resources
        BY <2>1, <3>1, <3>2 DEF TypeOK
      <4>2. n \notin Needs[m]
        <5>1. Needs[m] \subseteq Needs[g] \cup {g} /\ g \in Needs[n]
          BY <2>1, <3>1, <4>1, CleanupAssumption
        <5>2. n \notin Needs[g] /\ n # g
          BY <4>1, <5>1, CleanupAssumption
        <5> QED
          BY <5>1, <5>2
      <4>3. /\ server[n] # "unborn" /\ outcome[n] = "unregistered"
            /\ \A c \in Resources :
                 n \in Needs[c] => outcome[c] = "unregistered"
        BY <2>1, <4>1 DEF Entering
      <4> QED
        BY <2>1, <2>3, <4>1, <4>2, <4>3 DEF TypeOK
    <3>3. todo' \subseteq Members[g]
      BY <2>1, <3>1
    <3> QED
      BY <3>2, <3>3 DEF Entering
  <2> QED
    BY <2>3, <2>4, <2>5, <2>6, <2>7
<1>11. ASSUME NEW r \in Resources, TestDeletes(r)
       PROVE  IInv'
  BY <1>11, DeleteCallMoves, ServerStepPreserves DEF TestDeletes
<1>12. ASSUME NEW r \in Resources, ResetState(r)
       PROVE  IInv'
  <2>1. ServerMoves
    BY <1>12 DEF ResetState, ServerMoves, TypeOK, Statuses
  <2> QED
    BY <1>12, <2>1, ServerStepPreserves DEF ResetState
<1> QED
  BY <1>1, <1>2, <1>3, <1>4, <1>5, <1>7, <1>8, <1>9, <1>10, <1>11, <1>12
     DEF Runner

LEMMA ManilaPreserves ==
  ASSUME IInv, Manila
  PROVE  IInv'
<1>1. PICK r \in Resources : FinishCreate(r) \/ FinishDelete(r)
  BY DEF Manila
<1>2. ServerMoves /\ UNCHANGED <<tests, cleaner>>
  BY <1>1 DEF FinishCreate, FinishDelete, ServerMoves, TypeOK, Statuses, IInv
<1> QED
  BY <1>2, ServerStepPreserves

LEMMA InitIInv == Init => IInv
<1> SUFFICES ASSUME Init PROVE IInv
  OBVIOUS
<1>1. TypeOK
  BY DEF Init, TypeOK, Statuses, Outcomes, Phases, Steps
<1>2. Scoped /\ Listed /\ Ordered
  BY DEF Init, Scoped, Listed, Ordered, InOrder
<1>3. Prefix /\ Control /\ Entering
  BY DEF Init, Prefix, Control, Entering, Clearing
<1>4. BornFirst /\ DeletedIsGone
  BY DEF Init, BornFirst, DeletedIsGone
<1> QED
  BY <1>1, <1>2, <1>3, <1>4 DEF IInv

LEMMA NextIInv == IInv /\ [Next]_vars => IInv'
<1> SUFFICES ASSUME IInv, [Next]_vars PROVE IInv'
  OBVIOUS
<1>1. CASE Clear
  BY <1>1, ClearSteps, ClearPreserves
<1>2. CASE Runner
  BY <1>2, RunnerPreserves
<1>3. CASE Manila
  BY <1>3, ManilaPreserves
<1>4. CASE UNCHANGED vars
  <2>1. UNCHANGED <<tests, cleaner>> /\ UNCHANGED server
    BY <1>4 DEF vars, tests, cleaner
  <2> QED
    BY <2>1, ServerStays, ServerStepPreserves DEF IInv
<1> QED
  BY <1>1, <1>2, <1>3, <1>4 DEF Next

\* The inductive invariant: base.py keeps its lists in dependency order, and a
\* cleanup handles an entry only when those before it are closed.
THEOREM Inductive == Spec => []IInv
  BY InitIInv, NextIInv, PTL DEF Spec

\* Every variable keeps its type: the lists hold only created resources, and
\* each "deleted" flag of clear_resources is set for a known reason.
THEOREM TypeCorrect == Spec => []TypeOK
<1>1. IInv => TypeOK
  BY DEF IInv
<1> QED
  BY <1>1, Inductive, PTL

\* An entry that clear_resources closes as deleted is gone from Manila, for any
\* resources, any dependencies, and every interleaving with the tests.
THEOREM DeletedGone == Spec => []DeletedIsGone
<1>1. IInv => DeletedIsGone
  BY DEF IInv
<1> QED
  BY <1>1, Inductive, PTL

-----------------------------------------------------------------------------
(* The order of the cleanup, and the abstract ledger.                      *)

\* When a pass is at a pending entry, the entries of the same list that need
\* it are closed.
LEMMA DependentsClosed ==
  ASSUME IInv, Clearing, AtPending, NEW c \in Dependents(Current)
  PROVE  outcome[c] = "unregistered" \/ Flagged(c)
<1> USE DEF IInv
<1>1. Current \in Resources /\ pos \in 1 .. Len(Entries)
  BY CurrentType DEF AtPending
<1>2. /\ c \in Resources /\ Current \in Needs[c]
      /\ c \in ClassScope <=> Current \in ClassScope
  BY DEF Dependents
<1>3. List(c) = Entries
  <2>1. Current \in ClassScope <=> phase = "clear_class"
    BY <1>1 DEF Scoped, Entries, Current
  <2> QED
    BY <1>2, <2>1 DEF List, Entries
<1>4. SUFFICES ASSUME outcome[c] # "unregistered" PROVE Flagged(c)
  OBVIOUS
<1>5. PICK i \in 1 .. Len(Entries) : Entries[i] = c
  BY <1>2, <1>3, <1>4 DEF Listed
<1>6. i < pos
  <2>1. InOrder(Entries)
    BY DEF Ordered, Entries, InOrder
  <2> QED
    BY <1>1, <1>2, <1>5, <2>1 DEF InOrder, Current
<1> QED
  BY <1>5, <1>6 DEF Prefix

\* When clear_resources asks for the deletion of an entry, no pending entry of
\* the same list needs it, and none that was deleted is still there.
THEOREM NoSelfRefusal == Spec => []NoSelfInflictedRefusal
<1>1. IInv => NoSelfInflictedRefusal
  <2> SUFFICES ASSUME IInv, step = "delete", NEW c \in Dependents(Current),
                      Alive(c)
               PROVE  outcome[c] \in {"unregistered", "suppressed", "failed",
                                      "skipped"}
    BY DEF NoSelfInflictedRefusal
  <2>1. Clearing /\ AtPending
    BY DEF IInv, Control, AtPending
  <2>2. outcome[c] = "unregistered" \/ outcome[c] \in Closings
    BY <2>1, DependentsClosed DEF Flagged
  <2>3. outcome[c] # "deleted"
    BY DEF IInv, DeletedIsGone, Alive, Dependents
  <2> QED
    BY <2>2, <2>3 DEF Closings
<1> QED
  BY <1>1, Inductive, PTL

Book == [r \in Resources |-> IF Flagged(r) THEN "closed" ELSE outcome[r]]

\* Entering r registers it in the ledger.
LEMMA EnterRegisters ==
  ASSUME IInv, NEW r \in Resources, Enter(r), outcome[r] = "unregistered",
         \A c \in Resources : r \in Needs[c] => outcome[c] = "unregistered"
  PROVE  Ledger!Register(r)
<1>1. /\ outcome \in [Resources -> Outcomes]
      /\ outcome' = [outcome EXCEPT ![r] = "pending"]
  BY DEF Enter, IInv, TypeOK
<1>2. Book' = [Book EXCEPT ![r] = "pending"]
  BY <1>1 DEF Book, Flagged, Closings
<1>3. Book[r] = "unregistered"
  BY DEF Book, Flagged, Closings
<1>4. \A c \in Ledger!Dependents(r) : Book[c] = "unregistered"
  BY DEF Book, Flagged, Closings, Ledger!Dependents
<1> QED
  BY <1>2, <1>3, <1>4 DEF Ledger!Register, Book

\* A step of clear_resources closes an entry of the ledger, or none.
LEMMA ClearCloses ==
  ASSUME IInv, ClearStep
  PROVE  Book' = Book \/ \E r \in Resources : Ledger!Close(r)
<1>1. CASE Keeps
  BY <1>1 DEF Keeps, Book, Flagged
<1>2. CASE Closes
  <2>1. Clearing /\ AtPending /\ Current \in Resources
    BY <1>2, CurrentType DEF ClearStep, Closes, AtPending, IInv
  <2>2. PICK how \in Closings : outcome' = [outcome EXCEPT ![Current] = how]
    BY <1>2 DEF Closes
  <2>3. PICK r \in Resources : r = Current
    BY <2>1
  <2>4. Book' = [Book EXCEPT ![r] = "closed"]
    BY <2>2, <2>3 DEF Book, Flagged, IInv, TypeOK
  <2>5. Book[r] = "pending"
    BY <2>1, <2>3 DEF AtPending, Book, Flagged, Closings
  <2>6. ASSUME NEW c \in Ledger!Dependents(r)
        PROVE  Book[c] # "pending"
    <3>1. c \in Dependents(Current)
      BY <2>3, <2>6 DEF Ledger!Dependents, Ledger!SameList, Dependents
    <3>2. outcome[c] = "unregistered" \/ Flagged(c)
      BY <2>1, <3>1, DependentsClosed
    <3> QED
      BY <3>1, <3>2 DEF Book, Dependents
  <2> QED
    BY <2>4, <2>5, <2>6 DEF Ledger!Close, Book
<1> QED
  BY <1>1, <1>2 DEF ClearStep

\* A step of the tests or the runner enters one resource, or none.
LEMMA RunnerRegisters ==
  ASSUME IInv, Runner
  PROVE  Book' = Book \/ \E r \in Resources : Ledger!Register(r)
<1>1. ASSUME NEW r \in Resources, Creatable(r), Born(r), Enter(r)
      PROVE  Ledger!Register(r)
  BY <1>1, BornStep, EnterRegisters
<1>2. ASSUME NEW m \in Resources, EnterMember(m)
      PROVE  Ledger!Register(m)
  BY <1>2, EnterRegisters DEF EnterMember, IInv, Entering
<1>3. ASSUME UNCHANGED tests
      PROVE  Book' = Book
  BY <1>3 DEF tests, Book, Flagged
<1> QED
  BY <1>1, <1>2, <1>3
     DEF Runner, NextTest, TestEnds, ClassEnds, MembersEntered, MembersLost,
         Create, CreateGroup, CreateWithoutCleanup, CreateLost, TestDeletes,
         ResetState

\* class_resources and method_resources implement the ledger: an entry is
\* closed once, after the entries of its list that need it, and never reopens.
THEOREM Refinement == Spec => LedgerSpec
<1>1. Init => Ledger!Init
  BY DEF Init, Ledger!Init, Flagged, Closings
<1>2. IInv /\ [Next]_vars => [Ledger!Next]_Book
  <2> SUFFICES ASSUME IInv, [Next]_vars
               PROVE  Book' = Book \/ Ledger!Next
    OBVIOUS
  <2>1. CASE Clear
    BY <2>1, ClearSteps, ClearCloses DEF Ledger!Next
  <2>2. CASE Runner
    BY <2>2, RunnerRegisters DEF Ledger!Next
  <2>3. CASE Manila \/ UNCHANGED vars
    BY <2>3 DEF Manila, FinishCreate, FinishDelete, vars, tests, Book, Flagged
  <2> QED
    BY <2>1, <2>2, <2>3 DEF Next
<1> QED
  BY <1>1, <1>2, Inductive, PTL DEF Spec, LedgerSpec, Ledger!Spec, Book

-----------------------------------------------------------------------------
(* What is given up, and how far a pass has come.                          *)

\* clear_share_replicas is at replicas of the share at hand.
ReplicasAtHand ==
  /\ step \in {"replicas", "replica_wait"} =>
       \A c \in todo : Kind[c] = "share_replica" /\ Current \in Needs[c]
  /\ step = "replica_wait" => awaited \subseteq todo

InError(r) == server[r] \in {"error", "error_deleting"}

GivesUp(r) == outcome[r] # "failed" /\ outcome'[r] = "failed"

\* The end of the work on an entry: the pass is at the next one, or left.
MovesOn ==
  \/ step' = "entry" /\ pos' = pos + 1 /\ UNCHANGED phase
  \/ step' = "idle" /\ phase' \in {"between", "setup", "done"}

LEMMA CloseGivesUp ==
  ASSUME TypeOK, AtPending, NEW how, Close(how), NEW r \in Resources, GivesUp(r)
  PROVE  r = Current /\ how = "failed"
<1>1. Current \in Resources
  BY CurrentType DEF AtPending
<1> QED
  BY <1>1 DEF Close, GivesUp, TypeOK

\* An exception ends the work on the entry; it gives the entry up only if it is
\* ResourceReleaseFailed.
LEMMA RaiseMovesOn ==
  ASSUME TypeOK, AtPending, NEW exc, Raise(exc)
  PROVE  /\ MovesOn
         /\ \A r \in Resources :
              GivesUp(r) => r = Current /\ exc = "ResourceReleaseFailed"
<1>1. MovesOn
  BY DEF Raise, MovesOn, Advance, Leave
<1>2. ASSUME NEW r \in Resources, GivesUp(r)
      PROVE  r = Current /\ exc = "ResourceReleaseFailed"
  <2>1. CASE Close(IF exc = "NotFound" THEN "deleted" ELSE "suppressed")
    BY <1>2, <2>1, CloseGivesUp
  <2>2. CASE exc = "ResourceReleaseFailed" /\ Close("failed")
    BY <1>2, <2>2, CloseGivesUp
  <2>3. CASE UNCHANGED outcome
    BY <1>2, <2>3 DEF GivesUp
  <2> QED
    BY <2>1, <2>2, <2>3 DEF Raise
<1> QED
  BY <1>1, <1>2

\* A wait that fails gives the entry up only if what it waited for is in an
\* error state.
LEMMA WaitFailsMovesOn ==
  ASSUME TypeOK, AtPending, NEW c, WaitFails(c)
  PROVE  /\ MovesOn
         /\ \A r \in Resources : GivesUp(r) => r = Current /\ InError(c)
<1>1. CASE Raise("Fault") \/ Raise("TimeoutException")
  BY <1>1, RaiseMovesOn
<1>2. CASE InError(c) /\ Raise("ResourceReleaseFailed")
  BY <1>2, RaiseMovesOn
<1> QED
  BY <1>1, <1>2 DEF WaitFails, InError

\* What a step of a pass does: it ends the work on the entry, or takes it a
\* stage further, or is done with a replica, or waits for one.
Rank ==
  [idle |-> 3, entry |-> 3, replicas |-> 2, replica_wait |-> 2, delete |-> 1,
   wait |-> 0]

Further ==
  /\ UNCHANGED <<outcome, phase, pos>>
  /\ \/ Rank[step'] < Rank[step]
     \/ /\ Rank[step'] = Rank[step]
        /\ \/ todo' \subseteq todo /\ todo' # todo
           \/ step = "replicas" /\ step' = "replica_wait" /\ todo' = todo

\* A replica is in the way of what is given up.
ThroughReplica(r) ==
  \E c \in Resources :
    Kind[c] = "share_replica" /\ r \in Needs[c] /\ InError(c)

\* Each step of clear_resources, whichever it is.
LEMMA ClearMoves ==
  ASSUME IInv, ReplicasAtHand, Clear
  PROVE  /\ UNCHANGED <<classList, methodList>> /\ Clearing
         /\ \/ pos \in 1 .. Len(Entries) /\ (MovesOn \/ Further)
            \/ ~Clearing'
         /\ \A r \in Resources : GivesUp(r) => InError(r) \/ ThroughReplica(r)
         /\ ReplicasAtHand'
<1> DEFINE Calm == \A r \in Resources : ~GivesUp(r)
<1>1. /\ TypeOK /\ Clearing /\ UNCHANGED <<classList, methodList>>
  BY ClearSteps DEF IInv, ClearStep
<1>2. AtEntry => pos \in 1 .. Len(Entries)
  BY DEF IInv, Prefix, AtEntry, TypeOK
<1>3. ASSUME AtEntry, ~Flagged(Current)
      PROVE  AtPending
  <2>1. pos \in 1 .. Len(Entries)
    BY <1>2, <1>3
  <2>2. outcome[Current] \in Outcomes /\ outcome[Current] # "unregistered"
    BY <1>1, <2>1, CurrentType DEF IInv, TypeOK, Scoped, Entries, Current
  <2> QED
    BY <1>3, <2>1, <2>2 DEF AtPending, Outcomes, Flagged
<1>4. step \in {"replicas", "replica_wait", "delete", "wait"} => AtPending
  BY DEF IInv, Control, AtPending
<1>5. UNCHANGED outcome => Calm
  BY DEF GivesUp
<1>6. ASSUME AtPending, NEW how, Close(how), how # "failed"
      PROVE  Calm
  BY <1>1, <1>6, CloseGivesUp
<1>7. ASSUME step' \notin {"replicas", "replica_wait"}
      PROVE  ReplicasAtHand'
  BY <1>7 DEF ReplicasAtHand
<1>8. MovesOn => ReplicasAtHand'
  BY <1>7 DEF MovesOn
<1>9. phase' = phase => Entries' = Entries
  BY <1>1 DEF Entries
<1>10. ASSUME phase' = phase, pos' = pos
       PROVE  Current' = Current
  BY <1>9, <1>10 DEF Current
<1>11. CASE SkipEntry
  <2>1. pos \in 1 .. Len(Entries) /\ MovesOn /\ UNCHANGED outcome
    BY <1>2, <1>11 DEF SkipEntry, Advance, MovesOn, tests
  <2> QED
    BY <1>1, <1>5, <1>8, <2>1
<1>12. CASE PassEnds
  <2>1. MovesOn /\ ~Clearing' /\ UNCHANGED outcome
    BY <1>12 DEF PassEnds, Leave, MovesOn, tests, Clearing
  <2> QED
    BY <1>1, <1>5, <1>8, <2>1
<1>13. CASE BeginEntry
  <2>1. step = "entry" /\ step' = "delete" /\ UNCHANGED <<outcome, phase, pos>>
    BY <1>13 DEF BeginEntry, AtEntry, tests
  <2>2. Further /\ pos \in 1 .. Len(Entries)
    BY <1>2, <1>13, <2>1 DEF Further, Rank, BeginEntry
  <2> QED
    BY <1>1, <1>5, <1>7, <2>1, <2>2
<1>14. CASE BeginUnsupported
  <2>1. AtPending /\ Close("skipped") /\ MovesOn
    BY <1>3, <1>14 DEF BeginUnsupported, Advance, MovesOn
  <2> QED
    BY <1>1, <1>6, <1>8, <2>1 DEF AtPending
<1>15. CASE BeginShareType
  <2>1. AtPending
    BY <1>3, <1>15 DEF BeginShareType
  <2>2. CASE Close("skipped") /\ Advance
    <3>1. MovesOn
      BY <2>2 DEF Advance, MovesOn
    <3> QED
      BY <1>1, <1>6, <1>8, <2>1, <2>2, <3>1 DEF AtPending
  <2>3. CASE step' = "delete" /\ UNCHANGED <<outcome, phase, pos, todo, awaited>>
    <3>1. Further
      BY <1>15, <2>3 DEF Further, Rank, BeginShareType, AtEntry
    <3> QED
      BY <1>1, <1>5, <1>7, <2>1, <2>3, <3>1 DEF AtPending
  <2> QED
    BY <1>15, <2>2, <2>3 DEF BeginShareType
<1>16. CASE BeginShare
  <2>1. AtPending /\ step = "entry"
    BY <1>3, <1>16 DEF BeginShare, AtEntry
  <2>2. CASE Raise("Fault")
    BY <1>1, <1>8, <2>1, <2>2, RaiseMovesOn DEF AtPending
  <2>3. CASE ~Raise("Fault")
    <3>1. /\ UNCHANGED <<outcome, phase, pos>> /\ step' = "replicas"
          /\ todo' = {c \in Resources : /\ Kind[c] = "share_replica"
                                        /\ Current \in Needs[c] /\ Alive(c)}
      BY <1>16, <2>3 DEF BeginShare
    <3>2. Further /\ ReplicasAtHand'
      BY <1>10, <2>1, <3>1 DEF Further, Rank, ReplicasAtHand
    <3> QED
      BY <1>1, <1>5, <2>1, <3>1, <3>2 DEF AtPending
  <2> QED
    BY <2>2, <2>3
<1>17. CASE ReplicasDone
  <2>1. /\ step = "replicas" /\ step' = "delete"
        /\ UNCHANGED <<outcome, phase, pos>>
    BY <1>17 DEF ReplicasDone, tests
  <2>2. Further
    BY <2>1 DEF Further, Rank
  <2> QED
    BY <1>1, <1>4, <1>5, <1>7, <2>1, <2>2 DEF AtPending
<1>18. CASE RequestDelete
  <2>1. AtPending /\ step = "delete"
    BY <1>4, <1>18 DEF RequestDelete
  <2>2. PICK reply \in {"accepted", "NotFound", "Forbidden", "Conflict",
                        "Fault"} :
          \/ step' = "wait" /\ UNCHANGED <<outcome, phase, pos, todo, awaited>>
          \/ Close("deleted") /\ Advance
          \/ Raise(reply)
    BY <1>18 DEF RequestDelete
  <2>3. CASE step' = "wait" /\ UNCHANGED <<outcome, phase, pos, todo, awaited>>
    <3>1. Further
      BY <2>1, <2>3 DEF Further, Rank
    <3> QED
      BY <1>1, <1>5, <1>7, <2>1, <2>3, <3>1 DEF AtPending
  <2>4. CASE Close("deleted") /\ Advance
    <3>1. MovesOn
      BY <2>4 DEF Advance, MovesOn
    <3> QED
      BY <1>1, <1>6, <1>8, <2>1, <2>4, <3>1 DEF AtPending
  <2>5. CASE Raise(reply)
    BY <1>1, <1>8, <2>1, <2>5, RaiseMovesOn DEF AtPending
  <2> QED
    BY <2>2, <2>3, <2>4, <2>5
<1>19. CASE Await
  <2>1. AtPending
    BY <1>4, <1>19 DEF Await
  <2>2. CASE Close("deleted") /\ Advance
    <3>1. MovesOn
      BY <2>2 DEF Advance, MovesOn
    <3> QED
      BY <1>1, <1>6, <1>8, <2>1, <2>2, <3>1 DEF AtPending
  <2>3. CASE WaitFails(Current)
    BY <1>1, <1>8, <2>1, <2>3, WaitFailsMovesOn DEF AtPending
  <2> QED
    BY <1>19, <2>2, <2>3 DEF Await
<1>20. ASSUME NEW c \in Resources, DeleteReplica(c)
       PROVE  /\ pos \in 1 .. Len(Entries) /\ (MovesOn \/ Further)
              /\ Calm /\ ReplicasAtHand'
  <2>1. AtPending /\ step = "replicas" /\ c \in todo
    BY <1>4, <1>20 DEF DeleteReplica
  <2>2. PICK reply \in {"accepted", "NotFound", "Forbidden", "Conflict",
                        "Fault"} :
          \/ /\ step' = "replica_wait" /\ awaited' = {c}
             /\ UNCHANGED <<outcome, phase, pos, todo>>
          \/ /\ todo' = todo \ {c}
             /\ UNCHANGED <<outcome, phase, pos, step, awaited>>
          \/ Raise(reply)
    BY <1>20 DEF DeleteReplica
  <2>3. CASE /\ step' = "replica_wait" /\ awaited' = {c}
             /\ UNCHANGED <<outcome, phase, pos, todo>>
    <3>1. Further
      BY <2>1, <2>3 DEF Further, Rank
    <3>2. ReplicasAtHand'
      BY <1>10, <2>1, <2>3 DEF ReplicasAtHand
    <3> QED
      BY <1>5, <2>1, <2>3, <3>1, <3>2 DEF AtPending
  <2>4. CASE /\ todo' = todo \ {c}
             /\ UNCHANGED <<outcome, phase, pos, step, awaited>>
    <3>1. Further
      BY <2>1, <2>4 DEF Further, Rank
    <3>2. ReplicasAtHand'
      BY <1>10, <2>1, <2>4 DEF ReplicasAtHand
    <3> QED
      BY <1>5, <2>1, <2>4, <3>1, <3>2 DEF AtPending
  <2>5. CASE Raise(reply)
    BY <1>1, <1>8, <2>1, <2>5, RaiseMovesOn DEF AtPending
  <2> QED
    BY <2>2, <2>3, <2>4, <2>5
<1>21. ASSUME NEW c \in Resources, AwaitReplica(c)
       PROVE  /\ pos \in 1 .. Len(Entries) /\ (MovesOn \/ Further)
              /\ \A r \in Resources : GivesUp(r) => ThroughReplica(r)
              /\ ReplicasAtHand'
  <2>1. /\ AtPending /\ step = "replica_wait" /\ c \in todo
        /\ Kind[c] = "share_replica" /\ Current \in Needs[c]
    BY <1>4, <1>21 DEF AwaitReplica, ReplicasAtHand
  <2>2. CASE WaitFails(c)
    BY <1>1, <1>8, <2>1, <2>2, WaitFailsMovesOn DEF AtPending, ThroughReplica
  <2>3. CASE ~WaitFails(c)
    <3>1. /\ step' = "replicas" /\ todo' = todo \ {c}
          /\ UNCHANGED <<outcome, phase, pos>>
      BY <1>21, <2>3 DEF AwaitReplica
    <3>2. Further
      BY <2>1, <3>1 DEF Further, Rank
    <3>3. ReplicasAtHand'
      BY <1>10, <2>1, <3>1 DEF ReplicasAtHand
    <3> QED
      BY <1>5, <2>1, <3>1, <3>2, <3>3 DEF AtPending
  <2> QED
    BY <2>2, <2>3
<1> QED
  BY <1>1, <1>11, <1>12, <1>13, <1>14, <1>15, <1>16, <1>17, <1>18, <1>19,
     <1>20, <1>21 DEF Clear

\* The tests and the runner do nothing while a list is being cleared, and leave
\* the cleaner at the beginning of a pass if they leave it in one.
LEMMA RunnerWaits ==
  ASSUME IInv, Runner
  PROVE  ~Clearing /\ step' \in {"idle", "entry"}
<1>1. ~Clearing
  BY DEF Runner, NextTest, TestEnds, ClassEnds, MembersEntered, MembersLost,
         Create, CreateGroup, EnterMember, CreateWithoutCleanup, CreateLost,
         TestDeletes, ResetState, Creatable, Clearing
<1>2. step = "idle"
  BY <1>1 DEF IInv, Control
<1>3. step' = step \/ step' = "entry"
  BY DEF Runner, NextTest, TestEnds, ClassEnds, MembersEntered, MembersLost,
         Create, CreateGroup, EnterMember, CreateWithoutCleanup, CreateLost,
         TestDeletes, ResetState, StartClear, cleaner
<1> QED
  BY <1>1, <1>2, <1>3

\* No test gives an entry up.
LEMMA RunnerGivesNothingUp ==
  ASSUME IInv, Runner, NEW r \in Resources
  PROVE  ~GivesUp(r)
<1>1. ASSUME NEW x \in Resources, Enter(x)
      PROVE  ~GivesUp(r)
  BY <1>1 DEF Enter, GivesUp, IInv, TypeOK
<1>2. UNCHANGED tests => ~GivesUp(r)
  BY DEF tests, GivesUp
<1> QED
  BY <1>1, <1>2
     DEF Runner, NextTest, TestEnds, ClassEnds, MembersEntered, MembersLost,
         Create, CreateGroup, EnterMember, CreateWithoutCleanup, CreateLost,
         TestDeletes, ResetState

LEMMA ManilaMoves ==
  ASSUME Manila \/ UNCHANGED vars
  PROVE  UNCHANGED <<tests, cleaner>>
BY DEF Manila, FinishCreate, FinishDelete, vars, tests, cleaner

LEMMA StepReplicasAtHand ==
  IInv /\ ReplicasAtHand /\ [Next]_vars => ReplicasAtHand'
<1> SUFFICES ASSUME IInv, ReplicasAtHand, [Next]_vars
             PROVE  ReplicasAtHand'
  OBVIOUS
<1>1. CASE Clear
  BY <1>1, ClearMoves
<1>2. CASE Runner
  BY <1>2, RunnerWaits DEF ReplicasAtHand
<1>3. CASE Manila \/ UNCHANGED vars
  <2>1. UNCHANGED <<tests, cleaner>>
    BY <1>3, ManilaMoves
  <2> QED
    BY <2>1 DEF ReplicasAtHand, Current, Entries, tests, cleaner
<1> QED
  BY <1>1, <1>2, <1>3 DEF Next

LEMMA AlwaysAtHand == Spec => [](IInv /\ ReplicasAtHand)
<1>1. Init => ReplicasAtHand
  BY DEF Init, ReplicasAtHand
<1> QED
  BY <1>1, InitIInv, NextIInv, StepReplicasAtHand, PTL DEF Spec

\* A pass never turns back: while a list is being cleared it stays as it is,
\* and each step of clear_resources ends the pass, comes to the next entry, or
\* takes the one at hand further, through its replicas and to its own deletion.
\* So a pass has no more steps than the list has entries and replicas to allow,
\* which is the part of ClearEnds that needs no fairness.
Progress ==
  Clearing =>
    \/ UNCHANGED <<tests, cleaner>>
    \/ /\ UNCHANGED <<classList, methodList>>
       /\ ~Clearing' \/ (pos \in 1 .. Len(Entries) /\ (MovesOn \/ Further))

THEOREM NeverTurnsBack == Spec => [][Progress]_vars
<1>1. IInv /\ ReplicasAtHand /\ [Next]_vars => [Progress]_vars
  <2> SUFFICES ASSUME IInv, ReplicasAtHand, Next PROVE Progress
    BY DEF vars
  <2>1. CASE Clear
    BY <2>1, ClearMoves DEF Progress
  <2>2. CASE Runner
    BY <2>2, RunnerWaits DEF Progress
  <2>3. CASE Manila
    BY <2>3, ManilaMoves DEF Progress
  <2> QED
    BY <2>1, <2>2, <2>3 DEF Next
<1> QED
  BY <1>1, AlwaysAtHand, PTL DEF Spec

LEMMA GivingUp ==
  ASSUME IInv, ReplicasAtHand, [Next]_vars, NEW r \in Resources, GivesUp(r)
  PROVE  InError(r) \/ ThroughReplica(r)
<1>1. CASE Clear
  BY <1>1, ClearMoves
<1>2. CASE Runner
  BY <1>2, RunnerGivesNothingUp
<1>3. CASE Manila \/ UNCHANGED vars
  BY <1>3, ManilaMoves DEF tests, GivesUp
<1> QED
  BY <1>1, <1>2, <1>3 DEF Next

\* What clear_resources gives up is in an error state, or has a replica that
\* is: the finding on GivenUpInErrorState is the whole of what is wrong there.
THEOREM GivenUpForAReason ==
  Spec => [][\A r \in Resources :
               GivesUp(r) => InError(r) \/ ThroughReplica(r)]_vars
<1>1. IInv /\ ReplicasAtHand /\ [Next]_vars =>
        [\A r \in Resources : GivesUp(r) => InError(r) \/ ThroughReplica(r)]_vars
  BY GivingUp
<1> QED
  BY <1>1, AlwaysAtHand, PTL DEF Spec

\* Where no share is replicated, what the comment on ResourceReleaseFailed says
\* is true: only a resource in an error state is given up.
THEOREM GivenUpInErrorUnlessReplicated ==
  ASSUME \A c \in Resources : Kind[c] # "share_replica"
  PROVE  Spec => GivenUpInErrorState
<1>1. IInv /\ ReplicasAtHand /\ [Next]_vars =>
        [\A r \in Resources :
           outcome[r] # "failed" /\ outcome'[r] = "failed" =>
             server[r] \in {"error", "error_deleting"}]_vars
  BY GivingUp DEF GivesUp, InError, ThroughReplica
<1> QED
  BY <1>1, AlwaysAtHand, PTL DEF Spec, GivenUpInErrorState
=============================================================================

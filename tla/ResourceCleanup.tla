-------------------------- MODULE ResourceCleanup --------------------------
(***************************************************************************)
(* The life of the resources of one test worker: BaseSharesTest (tests/    *)
(* api/base.py) enters every resource it creates in class_resources or in  *)
(* method_resources, and clear_resources deletes the entries of a list     *)
(* after each test, and those of the class after its last test.  Both      *)
(* lists are attributes of BaseSharesTest itself: all the test classes a   *)
(* worker runs share them, and what one cleanup leaves pending the next    *)
(* one finds.                                                              *)
(*                                                                         *)
(* Manila answers requests, and creates and deletes resources behind them, *)
(* at its own pace; what it may answer is taken from how the plugin calls  *)
(* it and from the negative tests (external).                              *)
(***************************************************************************)
EXTENDS Naturals, Sequences

CONSTANTS
  Resources,      \* the resources the tests of the worker may create
  Kind,           \* res['type'], folded to what clear_resources tells apart
  Needs,          \* Needs[r]: the resources without which r cannot exist
  Members,        \* Members[r]: the shares Manila creates with r, a share
                  \* group made from a share group snapshot
  ClassScope,     \* the resources created with cleanup_in_class=True
  SuppressErrors  \* CONF.share.suppress_errors_in_cleanup

VARIABLES
  server,       \* what Manila knows of each resource
  classList,    \* class_resources, the latest entry first
  methodList,   \* method_resources
  outcome,      \* res['deleted'], with the reason it was set
  phase,        \* what the test runner is doing
  pos,          \* index of the entry clear_resources is at; 0 outside it
  step,         \* what clear_resources does next with that entry
  todo,         \* the replicas clear_share_replicas has still to delete
  awaited       \* the replica among them whose deletion is waited for, if any

vars == <<server, classList, methodList, outcome, phase, pos, step, todo,
          awaited>>
tests == <<classList, methodList, outcome>>
cleaner == <<phase, pos, step, todo, awaited>>

-----------------------------------------------------------------------------
(* "waited" stands for the types that are deleted and waited for in the    *)
(* same way (snapshot, share_group, share_group_snapshot, share_backup);   *)
(* "plain" for those Manila deletes at once (share_network, its subnets,   *)
(* security_service, share_group_type); "lock" for those with no wait      *)
(* (resource_lock, dissociate_security_service, quotas); "unsupported" for *)
(* the types clear_resources does not know, and the share network that the *)
(* configuration provides.                                                 *)

Kinds == {"share", "share_replica", "share_type", "waited", "plain", "lock",
          "unsupported"}

\* Kinds whose deletion goes on in Manila after the request is accepted.
AsyncKinds == {"share", "share_replica", "waited"}

Statuses == {"unborn", "busy", "available", "error", "deleting",
             "error_deleting", "gone"}

Closings == {"deleted", "suppressed", "failed", "skipped"}
Outcomes == {"unregistered", "pending"} \cup Closings

Phases == {"setup", "between", "test", "members", "clear_method",
           "clear_class", "done"}
Steps  == {"idle", "entry", "replicas", "replica_wait", "delete", "wait"}

ASSUME CleanupAssumption ==
  /\ Kind \in [Resources -> Kinds]
  /\ Needs \in [Resources -> SUBSET Resources]
  /\ Members \in [Resources -> SUBSET Resources]
  /\ \A r, p \in Resources : p \in Needs[r] => r \notin Needs[p]
  /\ \A g \in Resources : \A m \in Members[g] :
       g \in Needs[m] /\ Needs[m] \subseteq Needs[g] \cup {g}
  /\ ClassScope \subseteq Resources
  /\ SuppressErrors \in BOOLEAN

Alive(r) == server[r] \notin {"unborn", "gone"}

InUse(r) == \E c \in Resources : r \in Needs[c] /\ Alive(c)

Flagged(r) == outcome[r] \in Closings

Clearing == phase \in {"clear_method", "clear_class"}

\* The list being cleared, and the entry of it that is being handled.
Entries == IF phase = "clear_class" THEN classList ELSE methodList
Current == Entries[pos]

-----------------------------------------------------------------------------
(* Manila (external).                                                      *)

\* The answers to a request to delete r, and what the request does.  A fault
\* (a server error, a connection that breaks) may hit before or after Manila
\* has taken the request.
DeleteCall(r, reply) ==
  \/ /\ reply = "NotFound" /\ server[r] = "gone"
     /\ UNCHANGED server
  \/ /\ reply \in {"Forbidden", "Conflict"} /\ Alive(r)
     /\ InUse(r) \/ server[r] \notin {"available", "error"}
     /\ UNCHANGED server
  \/ /\ reply \in {"accepted", "Fault"}
     /\ server[r] \in {"available", "error"} /\ ~InUse(r)
     /\ server' = [server EXCEPT ![r] = IF Kind[r] \in AsyncKinds
                                        THEN "deleting" ELSE "gone"]
  \/ /\ reply = "Fault"
     /\ UNCHANGED server

FinishCreate(r) ==
  /\ server[r] = "busy"
  /\ \E s \in {"available", "error"} : server' = [server EXCEPT ![r] = s]
  /\ UNCHANGED <<tests, cleaner>>

FinishDelete(r) ==
  /\ server[r] = "deleting"
  /\ \E s \in {"gone", "error_deleting"} :
       server' = [server EXCEPT ![r] = s]
  /\ UNCHANGED <<tests, cleaner>>

-----------------------------------------------------------------------------
(* The tests.                                                              *)

\* A test, or the set-up of a class, can ask for r.
Creatable(r) ==
  /\ server[r] = "unborn" /\ \A g \in Resources : r \notin Members[g]
  /\ \A p \in Needs[r] : server[p] = "available"
  /\ IF r \in ClassScope THEN phase \in {"setup", "test"} ELSE phase = "test"

Born(r) ==
  server' = [x \in Resources |->
               IF x = r /\ Kind[r] \notin AsyncKinds THEN "available"
               ELSE IF x = r \/ x \in Members[r] THEN "busy"
               ELSE server[x]]

\* Mutant: the entry is appended, not inserted in front.
EnterLast(r) ==
  /\ outcome' = [outcome EXCEPT ![r] = "pending"]
  /\ IF r \in ClassScope
     THEN classList' = Append(classList, r) /\ UNCHANGED methodList
     ELSE methodList' = Append(methodList, r) /\ UNCHANGED classList

\* insert(0, resource) in the list that cleanup_in_class names.
Enter(r) ==
  /\ outcome' = [outcome EXCEPT ![r] = "pending"]
  /\ IF r \in ClassScope
     THEN classList' = <<r>> \o classList /\ UNCHANGED methodList
     ELSE methodList' = <<r>> \o methodList /\ UNCHANGED classList

\* The create_* helpers: the request, and the entry, before any waiting.  (The
\* wait that follows changes nothing here: the test goes on, or it ends.)
Create(r) ==
  /\ Creatable(r) /\ Members[r] = {}
  /\ Born(r) /\ Enter(r)
  /\ UNCHANGED cleaner

\* A share group made from a snapshot comes with its shares: the group is
\* entered, then the shares are listed and entered in front of it.
CreateGroup(g) ==
  /\ phase = "test"
  /\ Creatable(g) /\ Members[g] # {}
  /\ Born(g) /\ Enter(g)
  /\ phase' = "members" /\ todo' = Members[g]
  /\ UNCHANGED <<pos, step, awaited>>

EnterMember(m) ==
  /\ phase = "members" /\ m \in todo
  /\ Enter(m)
  /\ todo' = todo \ {m}
  /\ UNCHANGED <<server, phase, pos, step, awaited>>

MembersEntered ==
  /\ phase = "members" /\ todo = {}
  /\ phase' = "test"
  /\ UNCHANGED <<server, tests, pos, step, todo, awaited>>

StartClear(p) ==
  /\ phase' = p /\ pos' = 1 /\ step' = "entry" /\ todo' = {} /\ awaited' = {}

\* The shares of the group cannot be listed: they exist, no list has them.
MembersLost ==
  /\ phase = "members" /\ todo # {}
  /\ StartClear("clear_method")
  /\ UNCHANGED <<server, tests>>

\* A replica or a backup created with cleanup=False, which the test deletes
\* itself, or does not.
CreateWithoutCleanup(r) ==
  /\ phase = "test" /\ Kind[r] \in {"share_replica", "waited"}
  /\ Creatable(r) /\ Members[r] = {} /\ Born(r)
  /\ UNCHANGED <<tests, cleaner>>

\* The answer to the request is lost: Manila has the resource, no list has it,
\* and the exception ends the test or the set-up of the class.
CreateLost(r) ==
  /\ Creatable(r) /\ Born(r)
  /\ IF phase = "setup" THEN StartClear("clear_class")
                        ELSE StartClear("clear_method")
  /\ UNCHANGED tests

\* A test deletes a resource itself; it may wait for the end of it, or not.
TestDeletes(r) ==
  /\ phase = "test"
  /\ DeleteCall(r, "accepted")
  /\ UNCHANGED <<tests, cleaner>>

\* An admin test sets the status by hand (reset_state).
ResetState(r) ==
  /\ phase = "test" /\ Kind[r] \in AsyncKinds
  /\ server[r] \in {"available", "error", "error_deleting"}
  /\ \E s \in {"available", "error", "error_deleting"} \ {server[r]} :
       server' = [server EXCEPT ![r] = s]
  /\ UNCHANGED <<tests, cleaner>>

\* The class is set up and its tests begin; one of them starts.
NextTest ==
  /\ phase \in {"setup", "between"}
  /\ phase' = "test"
  /\ UNCHANGED <<server, tests, pos, step, todo, awaited>>

\* A test ends, well or not: its first cleanup runs last.
TestEnds ==
  /\ phase = "test"
  /\ StartClear("clear_method")
  /\ UNCHANGED <<server, tests>>

\* The class has no test left, or its set-up failed: resource_cleanup.
ClassEnds ==
  /\ phase \in {"setup", "between"}
  /\ StartClear("clear_class")
  /\ UNCHANGED <<server, tests>>

-----------------------------------------------------------------------------
(* clear_resources.                                                        *)

\* clear_resources returns, or an exception leaves it; the runner goes on.
Leave ==
  /\ phase' \in IF phase = "clear_method" THEN {"between"} ELSE {"setup", "done"}
  /\ pos' = 0 /\ step' = "idle" /\ todo' = {} /\ awaited' = {}

Advance ==
  /\ pos' = pos + 1 /\ step' = "entry" /\ todo' = {} /\ awaited' = {}
  /\ UNCHANGED phase

\* res["deleted"] = True.
Close(how) == outcome' = [outcome EXCEPT ![Current] = how]

\* handle_cleanup_exceptions.
Suppressed(exc) == exc \in {"NotFound", "Forbidden"} \/ SuppressErrors

\* Mutant: an entry that is refused is tried again at once.
RaiseRetries(exc) ==
  \/ /\ Suppressed(exc)
     /\ Close(IF exc = "NotFound" THEN "deleted" ELSE "suppressed")
     /\ Advance
  \/ /\ ~Suppressed(exc) /\ exc = "ResourceReleaseFailed"
     /\ Close("failed") /\ Leave
  \/ /\ ~Suppressed(exc) /\ exc # "ResourceReleaseFailed"
     /\ step' = "entry" /\ todo' = {} /\ awaited' = {}
     /\ UNCHANGED <<outcome, phase, pos>>

\* Mutant: an entry whose error is suppressed is tried again at once.
RaiseSuppressedRetries(exc) ==
  \/ /\ Suppressed(exc)
     /\ step' = "entry" /\ todo' = {} /\ awaited' = {}
     /\ UNCHANGED <<outcome, phase, pos>>
  \/ ~Suppressed(exc) /\ Leave /\ UNCHANGED outcome

\* Mutant: the entry is marked with the exception.
RaiseMarksException(exc) ==
  \/ Suppressed(exc) /\ Close(exc) /\ Advance
  \/ /\ ~Suppressed(exc) /\ exc = "ResourceReleaseFailed"
     /\ Close("failed") /\ Leave
  \/ /\ ~Suppressed(exc) /\ exc # "ResourceReleaseFailed"
     /\ Leave /\ UNCHANGED outcome

\* Mutant: an entry that is not released stays pending in a cleanup that goes
\* on to the next.
RaiseGoesOn(exc) ==
  \/ /\ Suppressed(exc)
     /\ Close(IF exc = "NotFound" THEN "deleted" ELSE "suppressed")
     /\ Advance
  \/ /\ ~Suppressed(exc) /\ exc = "ResourceReleaseFailed"
     /\ Close("failed") /\ Leave
  \/ /\ ~Suppressed(exc) /\ exc # "ResourceReleaseFailed"
     /\ Advance /\ UNCHANGED outcome

\* An exception in the handling of an entry: suppressed, and the entry is
\* closed all the same; or it ends the cleanup, the entry closed if it is
\* ResourceReleaseFailed and pending otherwise.
Raise(exc) ==
  \/ /\ Suppressed(exc)
     /\ Close(IF exc = "NotFound" THEN "deleted" ELSE "suppressed")
     /\ Advance
  \/ /\ ~Suppressed(exc) /\ exc = "ResourceReleaseFailed"
     /\ Close("failed") /\ Leave
  \/ /\ ~Suppressed(exc) /\ exc # "ResourceReleaseFailed"
     /\ Leave /\ UNCHANGED outcome

AtEntry == Clearing /\ step = "entry" /\ pos <= Len(Entries)

SkipEntry ==
  /\ AtEntry /\ Flagged(Current)
  /\ Advance
  /\ UNCHANGED <<server, tests>>

PassEnds ==
  /\ Clearing /\ step = "entry" /\ pos > Len(Entries)
  /\ Leave
  /\ UNCHANGED <<server, tests>>

\* What clear_resources does first with a pending entry, by its type.
BeginEntry ==
  /\ AtEntry /\ ~Flagged(Current)
  /\ Kind[Current] \in {"share_replica", "waited", "plain", "lock"}
  /\ step' = "delete"
  /\ UNCHANGED <<server, tests, phase, pos, todo, awaited>>

BeginUnsupported ==
  /\ AtEntry /\ ~Flagged(Current) /\ Kind[Current] = "unsupported"
  /\ Close("skipped") /\ Advance
  /\ UNCHANGED <<server, classList, methodList>>

\* A share type some share still uses is left alone; when the shares cannot be
\* listed, the deletion is tried.
BeginShareType ==
  /\ AtEntry /\ ~Flagged(Current) /\ Kind[Current] = "share_type"
  /\ \/ InUse(Current) /\ Close("skipped") /\ Advance
     \/ step' = "delete" /\ UNCHANGED <<outcome, phase, pos, todo, awaited>>
  /\ UNCHANGED <<server, classList, methodList>>

\* clear_share_replicas takes the list of the share's replicas.
BeginShare ==
  /\ AtEntry /\ ~Flagged(Current) /\ Kind[Current] = "share"
  /\ \/ /\ todo' = {c \in Resources : /\ Kind[c] = "share_replica"
                                      /\ Current \in Needs[c] /\ Alive(c)}
        /\ step' = "replicas"
        /\ UNCHANGED <<outcome, phase, pos, awaited>>
     \/ Raise("Fault")
  /\ UNCHANGED <<server, classList, methodList>>

ReplicasDone ==
  /\ step = "replicas" /\ todo = {}
  /\ step' = "delete"
  /\ UNCHANGED <<server, tests, phase, pos, todo, awaited>>

\* Mutant: delete_share_replica lets NotFound out.
DeleteReplicaUncaught(c) ==
  /\ step = "replicas" /\ c \in todo
  /\ \E reply \in {"accepted", "NotFound", "Forbidden", "Conflict", "Fault"} :
       /\ DeleteCall(c, reply)
       /\ \/ /\ reply = "accepted" /\ step' = "replica_wait" /\ awaited' = {c}
             /\ UNCHANGED <<outcome, phase, pos, todo>>
          \/ reply # "accepted" /\ Raise(reply)
  /\ UNCHANGED <<classList, methodList>>

\* delete_share_replica of the next replica on that list, which may have gone
\* since.  (The active replica, refused with BadRequest, is passed over: it
\* goes with the share, and is not a resource of its own here.)
DeleteReplica(c) ==
  /\ step = "replicas" /\ c \in todo
  /\ \E reply \in {"accepted", "NotFound", "Forbidden", "Conflict", "Fault"} :
       /\ DeleteCall(c, reply)
       /\ \/ /\ reply = "accepted" /\ step' = "replica_wait" /\ awaited' = {c}
             /\ UNCHANGED <<outcome, phase, pos, todo>>
          \/ /\ reply = "NotFound" /\ todo' = todo \ {c}
             /\ UNCHANGED <<outcome, phase, pos, step, awaited>>
          \/ reply \notin {"accepted", "NotFound"} /\ Raise(reply)
  /\ UNCHANGED <<classList, methodList>>

\* How wait_for_resource_deletion of r ends without finding it gone: a status
\* it takes for a failed release, its time limit, or a request that fails.
WaitFails(r) ==
  \/ server[r] \in {"error", "error_deleting"} /\ Raise("ResourceReleaseFailed")
  \/ server[r] \in {"busy", "available", "deleting"} /\ Raise("TimeoutException")
  \/ Raise("Fault")

AwaitReplica(c) ==
  /\ step = "replica_wait" /\ awaited = {c}
  /\ \/ /\ server[c] = "gone"
        /\ step' = "replicas" /\ todo' = todo \ {c} /\ awaited' = {}
        /\ UNCHANGED <<outcome, phase, pos>>
     \/ WaitFails(c)
  /\ UNCHANGED <<server, classList, methodList>>

\* Mutant: the deletion of an entry is taken for done once it is accepted.
RequestDeleteNoWait ==
  /\ step = "delete"
  /\ \E reply \in {"accepted", "NotFound", "Forbidden", "Conflict", "Fault"} :
       /\ DeleteCall(Current, reply)
       /\ \/ reply = "accepted" /\ Close("deleted") /\ Advance
          \/ reply # "accepted" /\ Raise(reply)
  /\ UNCHANGED <<classList, methodList>>

\* The request to delete the entry itself.
RequestDelete ==
  /\ step = "delete"
  /\ \E reply \in {"accepted", "NotFound", "Forbidden", "Conflict", "Fault"} :
       /\ DeleteCall(Current, reply)
       /\ \/ /\ reply = "accepted" /\ Kind[Current] # "lock"
             /\ step' = "wait"
             /\ UNCHANGED <<outcome, phase, pos, todo, awaited>>
          \/ /\ reply = "accepted" /\ Kind[Current] = "lock"
             /\ Close("deleted") /\ Advance
          \/ reply # "accepted" /\ Raise(reply)
  /\ UNCHANGED <<classList, methodList>>

\* wait_for_resource_deletion of the entry.
Await ==
  /\ step = "wait"
  /\ \/ server[Current] = "gone" /\ Close("deleted") /\ Advance
     \/ WaitFails(Current)
  /\ UNCHANGED <<server, classList, methodList>>

Clear ==
  \/ SkipEntry \/ PassEnds
  \/ BeginEntry \/ BeginUnsupported \/ BeginShareType \/ BeginShare
  \/ ReplicasDone \/ RequestDelete \/ Await
  \/ \E c \in Resources : DeleteReplica(c) \/ AwaitReplica(c)

Runner ==
  \/ NextTest \/ TestEnds \/ ClassEnds \/ MembersEntered \/ MembersLost
  \/ \E r \in Resources :
       \/ Create(r) \/ CreateGroup(r) \/ EnterMember(r)
       \/ CreateWithoutCleanup(r) \/ CreateLost(r)
       \/ TestDeletes(r) \/ ResetState(r)

Manila == \E r \in Resources : FinishCreate(r) \/ FinishDelete(r)

-----------------------------------------------------------------------------
Init ==
  /\ server = [r \in Resources |-> "unborn"]
  /\ classList = <<>> /\ methodList = <<>>
  /\ outcome = [r \in Resources |-> "unregistered"]
  /\ phase = "setup" /\ pos = 0 /\ step = "idle"
  /\ todo = {} /\ awaited = {}

Next == Clear \/ Runner \/ Manila

\* clear_resources always takes its next step: each of its waits ends, if
\* only by the time limit.  Nothing is asked of Manila, or of the tests.
Spec == Init /\ [][Next]_vars /\ WF_vars(Clear)

-----------------------------------------------------------------------------
TypeOK ==
  /\ server \in [Resources -> Statuses]
  /\ classList \in Seq(Resources) /\ methodList \in Seq(Resources)
  /\ outcome \in [Resources -> Outcomes]
  /\ phase \in Phases /\ step \in Steps /\ pos \in Nat
  /\ todo \in SUBSET Resources /\ awaited \in SUBSET Resources

\* An entry closed as deleted is off the server, whatever was interleaved with
\* its deletion: replicas that vanish under the cleaner, requests whose answer
\* was lost, retries of earlier attempts, tests that deleted it themselves.
DeletedIsGone ==
  \A r \in Resources : outcome[r] = "deleted" => server[r] = "gone"

\* Entries of r's own list that need r.
Dependents(r) ==
  {c \in Resources : r \in Needs[c] /\ (c \in ClassScope <=> r \in ClassScope)}

\* "It is expected, that all resources were added as LIFO due to restriction of
\* deletion": when the cleaner asks for the deletion of an entry, whatever of
\* the same list still stands in its way was given up before (its own error
\* suppressed, its release failed, its type skipped) or never got into the
\* list.  The cleaner never provokes a refusal by its own order.
NoSelfInflictedRefusal ==
  step = "delete" =>
    \A c \in Dependents(Current) :
      Alive(c) => outcome[c] \in {"unregistered", "suppressed", "failed",
                                  "skipped"}

\* The lists keep the promise of the abstract ledger.
Ledger ==
  INSTANCE CleanupLedger WITH
    book <- [r \in Resources |-> IF Flagged(r) THEN "closed" ELSE outcome[r]]

LedgerSpec == Ledger!Spec

\* A cleanup that has begun comes to an end.
ClearEnds == Clearing ~> ~Clearing

\* NOT a property of the code (see README): "Resource is on error deleting
\* state, so we remove it from the list to delete".  What is given up is in an
\* error state at that moment.
GivenUpInErrorState ==
  [][\A r \in Resources :
       outcome[r] # "failed" /\ outcome'[r] = "failed" =>
         server[r] \in {"error", "error_deleting"}]_vars
=============================================================================

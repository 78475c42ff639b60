-------------------------- MODULE ScenarioCleanup --------------------------
(***************************************************************************)
(* The cleanup of one scenario test (tests/scenario/manager_share.py).     *)
(* The helpers that create something push callbacks with addCleanup, and   *)
(* after the test the runner calls them in reverse order, each of them     *)
(* whatever the others raised; what they raise is the error of the test.   *)
(* One of them, cleanup_share_attachment, raises nothing: it logs.         *)
(*                                                                         *)
(* Manila creates and deletes its resources at its own pace and refuses to *)
(* delete what something else needs; Nova starts and stops the virtual     *)
(* machines and keeps a share locked while it is attached to one.  Both,   *)
(* like the runner, are external: their answers are taken from how the     *)
(* plugin calls them.                                                      *)
(***************************************************************************)
EXTENDS Naturals, Sequences

CONSTANTS
  Resources,    \* share networks, share servers, shares, snapshots of a test
  Attachments,  \* of shares to virtual machines
  Vms,          \* the virtual machines
  Kind,         \* "network", "share_server", "share" or "snapshot"
  Needs,        \* Needs[r]: what r cannot exist without, with multitenancy
  ShareOf,      \* the share of an attachment
  VmOf          \* the machine of an attachment

\* What a share server is on, the shares it serves are on as well.
ASSUME ScenarioAssumption ==
  /\ Kind \in [Resources -> {"network", "share_server", "share", "snapshot"}]
  /\ Needs \in [Resources -> SUBSET Resources]
  /\ \A r, p \in Resources : p \in Needs[r] => r \notin Needs[p]
  /\ \A r, s \in Resources :
       s \in Needs[r] /\ Kind[s] = "share_server" => Needs[s] \subseteq Needs[r]
  /\ ShareOf \in [Attachments -> {r \in Resources : Kind[r] = "share"}]
  /\ VmOf \in [Attachments -> Vms]
  /\ Resources \cap Attachments = {}

VARIABLES
  multitenancy,  \* CONF.share.multitenancy_enabled, the same throughout
  manila,      \* the status of each resource
  attachment,  \* that of each attachment
  vm,          \* that of each machine
  stack,       \* the callbacks, <<what, of what>>, the latest first
  phase,       \* "test", "cleanup" or "done"
  step,        \* where the running callback is; "call" between callbacks
  todo,        \* the share servers it has still to delete
  listed,      \* those it has still to wait for
  registered,  \* history: what callbacks were pushed for
  errors,      \* history: what had a callback that raised
  logged       \* history: the attachments whose cleanup only logged an error,
               \* "refused" for the state of the machine, or "failed"

vars == <<multitenancy, manila, attachment, vm, stack, phase, step, todo,
          listed, registered, errors, logged>>
services == <<multitenancy, manila, attachment, vm>>
runner == <<stack, phase, step, todo, listed>>
history == <<registered, errors, logged>>

Statuses == {"unborn", "busy", "available", "error", "deleting",
             "error_deleting", "gone"}

Callbacks ==
  {"delete", "await", "servers"} \X Resources \cup {"detach"} \X Attachments

\* A machine reports its old status while it stops or starts.
VmStatuses == {"active", "stopping", "shutoff", "starting", "gone"}
Reported(v) ==
  CASE vm[v] \in {"active", "stopping"}  -> "ACTIVE"
    [] vm[v] \in {"shutoff", "starting"} -> "SHUTOFF"
    [] OTHER -> "none"

\* Without it there are no share networks and no share servers.
Tenancy == {"network", "share_server"}

Required(r) ==
  IF multitenancy THEN Needs[r] ELSE {p \in Needs[r] : Kind[p] \notin Tenancy}

Alive(r) == manila[r] \notin {"unborn", "gone"}

Attached(a) == attachment[a] \in {"attached", "detaching"}

\* What Manila sees in the way of r's deletion: the last is a resource lock.
InUse(r) == \/ \E c \in Resources : r \in Required(c) /\ Alive(c)
            \/ \E a \in Attachments : ShareOf[a] = r /\ Attached(a)

-----------------------------------------------------------------------------
(* The services (external).                                                *)

\* The answers to a request to delete r.
DeleteCall(r, reply) ==
  \/ /\ reply = "NotFound" /\ manila[r] = "gone"
     /\ UNCHANGED manila
  \/ /\ reply = "refused" /\ Alive(r)
     /\ InUse(r) \/ manila[r] \notin {"available", "error"}
     /\ UNCHANGED manila
  \/ /\ reply \in {"accepted", "fault"}
     /\ manila[r] \in {"available", "error"} /\ ~InUse(r)
     /\ manila' = [manila EXCEPT ![r] = IF Kind[r] = "network" THEN "gone"
                                        ELSE "deleting"]
  \/ reply = "fault" /\ UNCHANGED manila

Replies == {"accepted", "NotFound", "refused", "fault"}

\* Manila ends a creation or a deletion; a share server nobody uses goes by
\* itself.
Manila(r) ==
  /\ \/ /\ manila[r] = "busy"
        /\ \E s \in {"available", "error"} : manila' = [manila EXCEPT ![r] = s]
     \/ /\ manila[r] = "deleting"
        /\ \E s \in {"gone", "error_deleting"} :
             manila' = [manila EXCEPT ![r] = s]
     \/ /\ Kind[r] = "share_server" /\ Alive(r) /\ ~InUse(r)
        /\ manila' = [manila EXCEPT ![r] = "gone"]
  /\ UNCHANGED <<multitenancy, attachment, vm, runner, history>>

\* Nova ends, or gives up, what it was asked to do with a machine.
NovaMoves(v) ==
  /\ vm[v] \in {"stopping", "starting"}
  /\ \E s \in {"active", "shutoff"} : vm' = [vm EXCEPT ![v] = s]
  /\ UNCHANGED <<multitenancy, manila, attachment, runner, history>>

NovaDetaches(a) ==
  /\ attachment[a] = "detaching"
  /\ \E s \in {"gone", "attached"} :
       attachment' = [attachment EXCEPT ![a] = s]
  /\ UNCHANGED <<multitenancy, manila, vm, runner, history>>

\* A machine disappears, and its attachments with it.
NovaLoses(v) ==
  /\ vm[v] # "gone"
  /\ vm' = [vm EXCEPT ![v] = "gone"]
  /\ attachment' = [a \in Attachments |->
                      IF VmOf[a] = v /\ Attached(a) THEN "gone"
                      ELSE attachment[a]]
  /\ UNCHANGED <<multitenancy, manila, runner, history>>

-----------------------------------------------------------------------------
(* The test.                                                               *)

\* Manila makes the share server itself, for the share that needs it.
Creatable(r) ==
  /\ phase = "test" /\ Kind[r] # "share_server" /\ manila[r] = "unborn"
  /\ Kind[r] = "network" => multitenancy
  /\ \A p \in Required(r) :
       \/ manila[p] = "available"
       \/ Kind[p] = "share_server" /\ manila[p] = "unborn"

Born(r) ==
  manila' = [x \in Resources |->
               IF x = r THEN IF Kind[r] = "network" THEN "available" ELSE "busy"
               ELSE IF x \in Required(r) /\ Kind[x] = "share_server"
                       /\ manila[x] = "unborn" THEN "available"
               ELSE manila[x]]

\* Mutant: the end of a deletion is not waited for.
PushedNoAwait(r) ==
  (IF Kind[r] = "network" THEN << <<"servers", r>> >> ELSE <<>>)
    \o << <<"delete", r>> >>

\* What the helper that creates r pushes, the last callback first: deletion
\* comes before the wait for its end, the share servers before their network.
Pushed(r) ==
  (IF Kind[r] = "network" THEN << <<"servers", r>> >> ELSE <<>>)
    \o << <<"delete", r>>, <<"await", r>> >>

EndTest == phase' = "cleanup" /\ UNCHANGED <<step, todo, listed>>

\* Mutant: callbacks are put below those already there.
CreateBelow(r) ==
  /\ Creatable(r)
  /\ Born(r)
  /\ stack' = stack \o Pushed(r) /\ registered' = registered \cup {r}
  /\ UNCHANGED <<multitenancy, phase, step, todo, listed, attachment, vm, errors,
                 logged>>

\* _create_share_network, _create_share and _create_snapshot: the callbacks are
\* pushed once Manila has answered, before the wait; or none is (cleanup=False
\* of a share); or the answer is lost and the test is over.
Create(r) ==
  /\ Creatable(r)
  /\ Born(r)
  /\ \/ /\ stack' = Pushed(r) \o stack /\ registered' = registered \cup {r}
        /\ UNCHANGED <<phase, step, todo, listed>>
     \/ Kind[r] = "share" /\ UNCHANGED <<runner, registered>>
     \/ EndTest /\ UNCHANGED <<stack, registered>>
  /\ UNCHANGED <<multitenancy, attachment, vm, errors, logged>>

\* Mutant: the callback is given the share for the machine.
AttachSwapped(a) ==
  /\ phase = "test" /\ attachment[a] = "unborn"
  /\ vm[VmOf[a]] = "shutoff" /\ manila[ShareOf[a]] = "available"
  /\ attachment' = [attachment EXCEPT ![a] = "attached"]
  /\ stack' = << <<"detach", ShareOf[a]>> >> \o stack
  /\ registered' = registered \cup {a}
  /\ UNCHANGED <<multitenancy, phase, step, todo, listed, manila, vm, errors,
                 logged>>

\* attach_share_to_server, of a machine that has been stopped and waited for:
\* the callback is pushed before the wait for the attachment; or none is
\* (cleanup=False); or the answer is lost.
Attach(a) ==
  /\ phase = "test" /\ attachment[a] = "unborn"
  /\ vm[VmOf[a]] = "shutoff" /\ manila[ShareOf[a]] = "available"
  /\ attachment' = [attachment EXCEPT ![a] = "attached"]
  /\ \/ /\ stack' = << <<"detach", a>> >> \o stack
        /\ registered' = registered \cup {a}
        /\ UNCHANGED <<phase, step, todo, listed>>
     \/ UNCHANGED <<runner, registered>>
     \/ EndTest /\ UNCHANGED <<stack, registered>>
  /\ UNCHANGED <<multitenancy, manila, vm, errors, logged>>

\* detach_share_from_running_server, once the machine has stopped.
TestDetaches(a) ==
  /\ phase = "test" /\ attachment[a] = "attached" /\ vm[VmOf[a]] = "shutoff"
  /\ attachment' = [attachment EXCEPT ![a] = "detaching"]
  /\ UNCHANGED <<multitenancy, manila, vm, runner, history>>

\* stop_server and start_server, around both.
TestSwitches(v) ==
  /\ phase = "test"
  /\ \/ vm[v] = "active"  /\ vm' = [vm EXCEPT ![v] = "stopping"]
     \/ vm[v] = "shutoff" /\ vm' = [vm EXCEPT ![v] = "starting"]
  /\ UNCHANGED <<multitenancy, manila, attachment, runner, history>>

\* The test ends, at any point of it, well or not.
TestEnds ==
  /\ phase = "test" /\ EndTest
  /\ UNCHANGED <<services, stack, history>>

Test ==
  \/ TestEnds
  \/ \E r \in Resources : Create(r)
  \/ \E a \in Attachments : Attach(a) \/ TestDetaches(a)
  \/ \E v \in Vms : TestSwitches(v)

-----------------------------------------------------------------------------
(* The runner and its callbacks.                                           *)

Calling(what) ==
  phase = "cleanup" /\ step = "call" /\ stack # <<>> /\ Head(stack)[1] = what

Subject == Head(stack)[2]

\* The callback ends, well or with an exception; the next one is called.
Pop ==
  /\ stack' = Tail(stack) /\ step' = "call" /\ todo' = {} /\ listed' = {}
  /\ UNCHANGED <<phase, registered>>

Return == Pop /\ UNCHANGED <<errors, logged>>

Raise == Pop /\ errors' = errors \cup {Subject} /\ UNCHANGED logged

\* "except NotFound: pass", and "except Exception: LOG.exception".
Pass == Return
Log(why) ==
  Pop /\ logged' = logged \cup {<<Subject, why>>} /\ UNCHANGED errors

Go(next) ==
  /\ step' = next
  /\ UNCHANGED <<stack, phase, todo, listed, history>>

\* client.delete_share, delete_snapshot or delete_share_network.
Delete ==
  /\ Calling("delete")
  /\ \E reply \in Replies :
       /\ DeleteCall(Subject, reply)
       /\ \/ reply = "accepted" /\ Return
          \/ reply # "accepted" /\ Raise
  /\ UNCHANGED <<multitenancy, attachment, vm>>

\* client.wait_for_resource_deletion: gone; a failed release, the time limit or
\* a request that fails.
Await ==
  /\ Calling("await")
  /\ (manila[Subject] = "gone" /\ Return) \/ Raise
  /\ UNCHANGED services

\* _wait_for_share_server_deletion lists the share servers of the network, asks
\* for the deletion of each, then waits for each.
ListServers ==
  /\ Calling("servers")
  /\ \/ /\ listed' = {s \in Resources : /\ Kind[s] = "share_server" /\ Alive(s)
                                        /\ Subject \in Needs[s]}
        /\ todo' = listed' /\ step' = "servers"
        /\ UNCHANGED <<stack, phase, history>>
     \/ Raise
  /\ UNCHANGED services

DeleteServer(s) ==
  /\ step = "servers" /\ s \in todo
  /\ \E reply \in Replies :
       /\ DeleteCall(s, reply)
       /\ \/ /\ reply = "accepted" /\ todo' = todo \ {s}
             /\ UNCHANGED <<stack, phase, step, listed, history>>
          \/ reply # "accepted" /\ Raise
  /\ UNCHANGED <<multitenancy, attachment, vm>>

AwaitServer(s) ==
  /\ step = "servers" /\ todo = {} /\ s \in listed
  /\ \/ /\ manila[s] = "gone" /\ listed' = listed \ {s}
        /\ UNCHANGED <<stack, phase, step, todo, history>>
     \/ Raise
  /\ UNCHANGED services

ServersDone ==
  /\ step = "servers" /\ listed = {}
  /\ Return
  /\ UNCHANGED services

\* cleanup_share_attachment looks at the machine; it stops one that says it is
\* active.
LookAtServer ==
  /\ Calling("detach")
  /\ LET v == VmOf[Subject] IN
     \/ vm[v] = "gone" /\ Pass
     \/ Log("failed")
     \/ Reported(v) = "ACTIVE"  /\ Go("stop")
     \/ Reported(v) = "SHUTOFF" /\ Go("detach")
  /\ UNCHANGED services

\* Nova refuses to stop a machine that is busy, or stopped by now.
StopServer ==
  /\ step = "stop"
  /\ LET v == VmOf[Subject] IN
     \/ /\ vm[v] = "active" /\ vm' = [vm EXCEPT ![v] = "stopping"]
        /\ Go("await_stop")
     \/ vm[v] = "gone" /\ Pass /\ UNCHANGED vm
     \/ vm[v] \notin {"active", "gone"} /\ Log("refused") /\ UNCHANGED vm
     \/ Log("failed") /\ UNCHANGED vm
  /\ UNCHANGED <<multitenancy, manila, attachment>>

\* Mutant: the wait for the machine to stop has no limit.
AwaitStopForEver ==
  /\ step = "await_stop"
  /\ LET v == VmOf[Subject] IN
     \/ vm[v] = "shutoff" /\ Go("detach")
     \/ vm[v] = "gone" /\ Pass
  /\ UNCHANGED services

AwaitStop ==
  /\ step = "await_stop"
  /\ LET v == VmOf[Subject] IN
     \/ vm[v] = "shutoff" /\ Go("detach")
     \/ vm[v] = "gone" /\ Pass
     \/ Log("failed")
  /\ UNCHANGED services

\* Nova detaches from a stopped machine only.
DetachShare ==
  /\ step = "detach"
  /\ LET a == Subject IN
     \/ /\ attachment[a] = "attached" /\ vm[VmOf[a]] = "shutoff"
        /\ attachment' = [attachment EXCEPT ![a] = "detaching"]
        /\ Go("await_detach")
     \/ attachment[a] = "gone" /\ Pass /\ UNCHANGED attachment
     \/ /\ Attached(a) /\ vm[VmOf[a]] # "shutoff" /\ Log("refused")
        /\ UNCHANGED attachment
     \/ Log("failed") /\ UNCHANGED attachment
  /\ UNCHANGED <<multitenancy, manila, vm>>

AwaitDetach ==
  /\ step = "await_detach"
  /\ (attachment[Subject] = "gone" /\ Pass) \/ Log("failed")
  /\ UNCHANGED services

CleanupDone ==
  /\ phase = "cleanup" /\ step = "call" /\ stack = <<>>
  /\ phase' = "done"
  /\ UNCHANGED <<services, stack, step, todo, listed, history>>

Cleanup ==
  \/ Delete \/ Await \/ ListServers \/ ServersDone \/ CleanupDone
  \/ \E s \in Resources : DeleteServer(s) \/ AwaitServer(s)
  \/ LookAtServer \/ StopServer \/ AwaitStop \/ DetachShare \/ AwaitDetach

Services ==
  \/ \E r \in Resources : Manila(r)
  \/ \E a \in Attachments : NovaDetaches(a)
  \/ \E v \in Vms : NovaMoves(v) \/ NovaLoses(v)

-----------------------------------------------------------------------------
Init ==
  /\ multitenancy \in BOOLEAN
  /\ manila = [r \in Resources |-> "unborn"]
  /\ attachment = [a \in Attachments |-> "unborn"]
  /\ vm = [v \in Vms |-> "active"]
  /\ stack = <<>> /\ phase = "test" /\ step = "call"
  /\ todo = {} /\ listed = {}
  /\ registered = {} /\ errors = {} /\ logged = {}

Next == Test \/ Cleanup \/ Services

\* The runner takes its next step: every wait of a callback ends, if only by
\* its time limit.  Nothing is asked of Manila or Nova.
Spec == Init /\ [][Next]_vars /\ WF_vars(Cleanup)

-----------------------------------------------------------------------------
TypeOK ==
  /\ multitenancy \in BOOLEAN
  /\ manila \in [Resources -> Statuses]
  /\ attachment \in [Attachments -> {"unborn", "attached", "detaching", "gone"}]
  /\ vm \in [Vms -> VmStatuses]
  /\ stack \in Seq(Callbacks)
  /\ phase \in {"test", "cleanup", "done"}
  /\ step \in {"call", "servers", "stop", "await_stop", "detach",
               "await_detach"}
  /\ todo \subseteq Resources /\ listed \subseteq Resources
  /\ registered \subseteq Resources \cup Attachments
  /\ errors \subseteq Resources \cup Attachments
  /\ logged \subseteq Attachments \X {"refused", "failed"}

\* When the deletion of a resource is asked for, what still holds it was never
\* registered, or its own cleanup raised an error or logged one: the order of
\* the callbacks by itself never provokes a refusal.
DependentsFirst ==
  Calling("delete") =>
    /\ \A c \in Resources : Subject \in Required(c) /\ Alive(c) =>
         c \notin registered \/ c \in errors
    /\ \A a \in Attachments : ShareOf[a] = Subject /\ Attached(a) =>
         a \notin registered \/ \E entry \in logged : entry[1] = a

\* No leak without an error.  A cleanup in which no callback raised has left
\* nothing that was registered, and nothing that needs it: neither a resource
\* whose creation was never answered, nor an attachment whose own cleanup kept
\* its failure to itself.
NoSilentLeak ==
  phase = "done" /\ errors = {} =>
    /\ \A r \in Resources :
         Alive(r) => r \notin registered /\ Required(r) \cap registered = {}
    /\ \A a \in Attachments : Attached(a) => ShareOf[a] \notin registered

\* The cleanup comes to an end, past whatever its callbacks raise, with every
\* callback called.
EveryCallbackCalled == phase = "cleanup" ~> phase = "done" /\ stack = <<>>

\* NOT a property of the code (see README).  "This method ensures the share is
\* detached even if the server is running, which is necessary to remove
\* resource locks before share deletion": after it, the share is detached,
\* except where a request has failed by itself or has run out of time.
DetachmentEnsured ==
  \A a \in registered \cap Attachments :
    phase = "cleanup" /\ Attached(a) =>
      \/ \E i \in DOMAIN stack : stack[i] = <<"detach", a>>
      \/ <<a, "failed">> \in logged
=============================================================================

------------------------------ MODULE Waiters ------------------------------
(***************************************************************************)
(* The polling loops of the plugin: a test asks Manila for the state of a  *)
(* resource, sleeps build_interval seconds, asks again, and gives up after *)
(* a time limit.  The waiters of common/waiters.py and the deletion waiter *)
(* of shares_client.py are the same loop under different policies; the     *)
(* resource itself (world) changes whenever Manila likes.  The two waiters *)
(* of scenario/manager_share.py poll an attachment at an interval of their *)
(* own and examine the limit where the others do not.                      *)
(*                                                                         *)
(* Time is counted in ticks, TicksPerSecond to the second, because the     *)
(* code compares times it has truncated to whole seconds.                  *)
(***************************************************************************)
EXTENDS Integers, FiniteSets

CONSTANTS
  BuildTimeout,      \* client.build_timeout, in seconds
  MigrationTimeout,  \* CONF.share.migration_timeout, in seconds
  BuildInterval,     \* client.build_interval, in ticks
  AttachmentTimeout, \* the timeout of the attachment waiters, in seconds
  AttachmentInterval,\* what they sleep between two looks, in ticks
  TicksPerSecond,    \* ticks in a second
  MaxLatency,        \* longest time from sending a GET to handling its answer
  Horizon            \* bound of the model: the clock stops here, in ticks

ASSUME WaitersAssumption ==
  /\ BuildTimeout \in Nat /\ MigrationTimeout \in Nat
  /\ BuildInterval \in Nat \ {0} /\ TicksPerSecond \in Nat \ {0}
  /\ AttachmentTimeout \in Nat /\ AttachmentInterval \in Nat \ {0}
  /\ MaxLatency \in Nat /\ Horizon \in Nat

VARIABLES
  call,     \* the waiter that is running
  world,    \* what a GET would answer now
  pc,       \* "sent", "answered", "sleeping", or how the call ended
  seen,     \* the answer being handled
  first,    \* no answer has been handled yet
  now,      \* the clock
  start,    \* start = int(time.time()) of the code
  timer,    \* when the pending GET was sent, or when the sleep ends
  began,    \* when the function was called
  settled,  \* history: since when the world has been "wanted"; -1 if it is not
  lastGood  \* history: the last time at which the world was "wanted", or -1

vars == <<call, world, pc, seen, first, now, start, timer, began, settled,
          lastGood>>

-----------------------------------------------------------------------------
(* The waiters.  An answer is "wanted" (a status in exp_status, or what    *)
(* ends the loop well), "bad" (a status the loop gives up on), "gone" (the *)
(* lookup itself fails: NotFound, or an access rule missing from the       *)
(* list) or "other".                                                       *)
(*   opening: what the first answer decides: "all" of it, only "success",  *)
(*            or "nothing" when the loop sleeps before its first GET;      *)
(*   check:   the limit is examined "after" an answer that does not end    *)
(*            the loop, in whole seconds, or "before" each GET;            *)
(*   pause:   the sleep between two rounds, in ticks;                      *)
(*   onBad:   how a bad answer ends the call, or "ignored";                *)
(*   limit:   seconds after which the call times out;                      *)
(*   answers: what a GET can answer.                                       *)

Anything == {"wanted", "other", "bad", "gone"}

ResourceStatus ==
  [opening |-> "success", check |-> "after", limit |-> BuildTimeout,
   pause |-> BuildInterval, onBad |-> "build_error", answers |-> Anything]

\* The same with raise_rule_in_error_state=False.
ResourceStatusTolerant == [ResourceStatus EXCEPT !.onBad = "ignored"]

MigrationStatus == [ResourceStatus EXCEPT !.limit = MigrationTimeout]

SnapshotRuleDeletion ==
  [ResourceStatusTolerant EXCEPT !.answers = {"wanted", "other", "gone"}]

Message ==
  [ResourceStatusTolerant EXCEPT !.opening = "nothing",
                                 !.answers = {"wanted", "other"}]

SoftDelete ==
  [ResourceStatusTolerant EXCEPT !.answers = {"wanted", "other", "gone"}]

Restore ==
  [ResourceStatusTolerant EXCEPT !.answers = {"wanted", "other", "gone"}]

\* An answer that says compatible is False ends the call with the exception
\* of a timeout.
SubnetCreateCheck == [ResourceStatus EXCEPT !.onBad = "timed_out"]

\* NotFound is the wanted answer; 'error' and 'error_deleting' are bad.
ResourceDeletion ==
  [ResourceStatus EXCEPT !.opening = "all",
                         !.answers = {"wanted", "other", "bad"}]

\* Mutant: the exception is looked up under a name tempest.lib does not have.
AttachmentStatusUnknownException ==
  [opening |-> "nothing", check |-> "before", limit |-> AttachmentTimeout,
   pause |-> AttachmentInterval, onBad |-> "attribute_error",
   answers |-> Anything]

\* The state 'error' ends the wait; NotFound is not caught.
AttachmentStatus ==
  [opening |-> "nothing", check |-> "before", limit |-> AttachmentTimeout,
   pause |-> AttachmentInterval, onBad |-> "invalid_configuration",
   answers |-> Anything]

\* NotFound is the wanted answer and no state is bad.
Detachment == [AttachmentStatus EXCEPT !.answers = {"wanted", "other"}]

Policies ==
  [wait_for_resource_status               |-> ResourceStatus,
   wait_for_resource_status_tolerant      |-> ResourceStatusTolerant,
   wait_for_migration_status              |-> MigrationStatus,
   wait_for_snapshot_access_rule_deletion |-> SnapshotRuleDeletion,
   wait_for_message                       |-> Message,
   wait_for_soft_delete                   |-> SoftDelete,
   wait_for_restore                       |-> Restore,
   wait_for_subnet_create_check           |-> SubnetCreateCheck,
   wait_for_resource_deletion             |-> ResourceDeletion,
   wait_for_share_attachment_status       |-> AttachmentStatus,
   wait_for_share_detachment              |-> Detachment]

Policy == Policies[call]

\* int(time.time()) at tick t.
Seconds(t) == t \div TicksPerSecond

\* Mutant: the limit is examined for equality, which a round can step over.
LimitHit(t) == Seconds(t) - start = Policy.limit

\* Mutant: the limit is missed by one second.
LimitOffByOne(t) == Seconds(t) - start >= Policy.limit - 1

\* int(time.time()) - start >= timeout, or, with the limit examined before a
\* GET, not (time.time() - start_time < timeout).
OutOfTime(t) ==
  IF Policy.check = "before" THEN t - began >= Policy.limit * TicksPerSecond
                             ELSE Seconds(t) - start >= Policy.limit

Running == {"sent", "answered", "sleeping"}
Ended   == {"returned", "build_error", "timed_out", "lookup_error",
            "invalid_configuration"}

-----------------------------------------------------------------------------
(* A call begins at any fraction of a second, on a resource in any state.  *)

Init ==
  /\ call \in DOMAIN Policies
  /\ now \in 0 .. TicksPerSecond - 1
  /\ world \in Policy.answers
  /\ began = now
  /\ start = Seconds(now)
  /\ seen = world
  /\ settled = IF world = "wanted" THEN now ELSE -1
  /\ lastGood = settled
  /\ first = (Policy.opening # "nothing")
  /\ \/ first /\ pc = "sent" /\ timer = now
     \/ /\ ~first /\ pc = "sleeping"
        /\ timer = IF Policy.check = "before" THEN now ELSE now + Policy.pause

\* Manila takes the GET and forms its answer.
Answer ==
  /\ pc = "sent"
  /\ seen' = world
  /\ pc' = "answered"
  /\ UNCHANGED <<call, world, first, now, start, timer, began, settled,
                 lastGood>>

Finish(how) ==
  /\ pc' = how
  /\ UNCHANGED <<start, timer>>

Sleep ==
  /\ pc' = "sleeping"
  /\ timer' = now + Policy.pause

\* The first answer of a loop of the form "look; start the clock; while not
\* done": it can end the call well, or by a lookup that fails, but neither a
\* bad state nor the limit is examined.
HandleOpening ==
  /\ pc = "answered" /\ first /\ Policy.opening = "success"
  /\ first' = FALSE
  /\ \/ seen = "wanted" /\ Finish("returned")
     \/ seen = "gone"   /\ Finish("lookup_error")
     \/ seen \in {"other", "bad"} /\ Sleep /\ start' = Seconds(now)
  /\ UNCHANGED <<call, world, seen, now, began, settled, lastGood>>

\* Mutant: the limit is examined before the answer.
HandleAnswerLimitFirst ==
  /\ pc = "answered" /\ (first => Policy.opening = "all")
  /\ first' = FALSE
  /\ IF OutOfTime(now) THEN Finish("timed_out")
     ELSE \/ seen = "wanted" /\ Finish("returned")
          \/ seen = "gone"   /\ Finish("lookup_error")
          \/ seen = "bad" /\ Policy.onBad # "ignored" /\ Finish(Policy.onBad)
          \/ /\ seen = "other" \/ (seen = "bad" /\ Policy.onBad = "ignored")
             /\ Sleep /\ UNCHANGED start
  /\ UNCHANGED <<call, world, seen, now, began, settled, lastGood>>

\* Every later answer, and the first of the deletion waiter: success, then the
\* bad state, then the limit, then another round.
HandleAnswer ==
  /\ pc = "answered" /\ (first => Policy.opening = "all")
  /\ first' = FALSE
  /\ \/ seen = "wanted" /\ Finish("returned")
     \/ seen = "gone"   /\ Finish("lookup_error")
     \/ seen = "bad" /\ Policy.onBad # "ignored" /\ Finish(Policy.onBad)
     \/ /\ seen = "other" \/ (seen = "bad" /\ Policy.onBad = "ignored")
        /\ LET out == Policy.check = "after" /\ OutOfTime(now)
           IN  \/ out  /\ Finish("timed_out")
               \/ ~out /\ Sleep /\ UNCHANGED start
  /\ UNCHANGED <<call, world, seen, now, began, settled, lastGood>>

\* Mutant: after the sleep the answer at hand is looked at once more.
WakeUpWithoutGet ==
  /\ pc = "sleeping" /\ now >= timer
  /\ pc' = "answered"
  /\ timer' = now
  /\ UNCHANGED <<call, world, seen, first, now, start, began, settled,
                 lastGood>>

\* The next GET, unless the loop examines its limit here.
WakeUp ==
  /\ pc = "sleeping" /\ now >= timer
  /\ IF Policy.check = "before" /\ OutOfTime(now)
       THEN pc' = "timed_out" /\ UNCHANGED timer
       ELSE pc' = "sent" /\ timer' = now
  /\ UNCHANGED <<call, world, seen, first, now, start, began, settled,
                 lastGood>>

Worker == Answer \/ HandleOpening \/ HandleAnswer \/ WakeUp

\* Manila changes the resource.
Change ==
  /\ pc \in Running
  /\ world' \in Policy.answers \ {world}
  /\ settled' = IF world' = "wanted" THEN now ELSE -1
  /\ lastGood' = IF world' = "wanted" THEN now ELSE lastGood
  /\ UNCHANGED <<call, pc, seen, first, now, start, timer, began>>

\* Time passes while the worker sleeps or waits for an answer; its own
\* computation takes none.
Tick ==
  /\ now < Horizon
  /\ \/ pc = "sleeping" /\ now < timer
     \/ pc \in {"sent", "answered"} /\ now < timer + MaxLatency
  /\ now' = now + 1
  /\ lastGood' = IF world = "wanted" THEN now' ELSE lastGood
  /\ UNCHANGED <<call, world, pc, seen, first, start, timer, began, settled>>

Next == Worker \/ Change \/ Tick

\* The worker is never stopped for good, and the clock advances.
Fairness == WF_vars(Worker) /\ WF_vars(Tick)

Spec == Init /\ [][Next]_vars /\ Fairness

-----------------------------------------------------------------------------
TypeOK ==
  /\ call \in DOMAIN Policies
  /\ world \in Policy.answers /\ seen \in Policy.answers
  /\ pc \in Running \cup Ended
  /\ first \in BOOLEAN
  /\ now \in Nat /\ start \in Nat /\ timer \in Nat /\ began \in Nat
  /\ settled \in Nat \cup {-1} /\ lastGood \in Nat \cup {-1}

\* Success is never stale by more than one request: when a waiter returns, the
\* resource was in the wanted state at some moment since the last GET was
\* sent, however it changed while the worker slept.
FreshSuccess ==
  pc = "returned" => lastGood >= timer

\* The call has ended by its limit.  (The subnet check uses the exception of a
\* timeout for a negative answer as well.)
TimedOut == pc = "timed_out" /\ Policy.onBad # "timed_out"

\* A resource that reaches the wanted state in time and stays there is never
\* reported as timed out: in time means a second (which truncation may cost)
\* and one request before the limit.  The attachment waiters never look again
\* once the limit is reached: for them it means the last pause and the request
\* before it.
NoTimeoutOnceSettled ==
  TimedOut /\ settled >= 0 =>
    IF Policy.check = "before"
      THEN settled >= began + Policy.limit * TicksPerSecond
                        - (Policy.pause + MaxLatency)
      ELSE /\ settled >= timer
           /\ settled > began + (Policy.limit - 1) * TicksPerSecond - MaxLatency

\* A call that times out has waited: the attachment waiters for the whole of
\* their limit; truncating both ends of the interval to whole seconds can cut
\* the other waits short, by less than one second.
NoEarlyTimeout ==
  TimedOut =>
    IF Policy.check = "before"
      THEN now - began >= Policy.limit * TicksPerSecond
      ELSE now - began > (Policy.limit - 1) * TicksPerSecond

\* No wait outlives its limit by more than the round under way: one pause and
\* one request, on top of the opening request.
BoundedWait ==
  pc \in Running =>
    now - began <= Policy.limit * TicksPerSecond + Policy.pause
                     + 2 * MaxLatency

\* Every wait ends, whatever the resource does.
Terminates == <>(pc \in Ended)

-----------------------------------------------------------------------------
(* Seen from its caller, a wait is atomic.  Its result is settled with the *)
(* answer that decides it, before the answer has even arrived, or with the *)
(* decision to give up; the first answer of a loop that only looks for     *)
(* success does not decide a bad state.                                    *)

Verdicts ==
  [c \in DOMAIN Policies |->
    [wanted |-> "returned", gone |-> "lookup_error", other |-> "none",
     bad |-> IF Policies[c].onBad = "ignored" THEN "none"
                                              ELSE Policies[c].onBad]]

Deciding ==
  pc = "answered" /\ ~(first /\ Policy.opening = "success" /\ seen = "bad")

Result ==
  IF pc \in Ended THEN pc
  ELSE IF Deciding THEN Verdicts[call][seen] ELSE "none"

Atomic ==
  INSTANCE AtomicWait
    WITH Waiters <- DOMAIN Policies, States <- Anything, Verdict <- Verdicts,
         waiter <- call, result <- Result

\* A polling loop implements the atomic wait: whatever a call returns or
\* raises, other than for time, was true of the resource at one instant of the
\* wait, and the answer that showed it is the one the call ends by.
AtomicWaitSpec == Atomic!Spec
=============================================================================

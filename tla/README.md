# A verification project for manila-tempest-plugin

The plugin is a test suite: it drives a running Manila (OpenStack's shared file
systems service) through its REST API. Its own program logic is what lies between
the tests and Manila: how it waits, how it creates things that may fail, how it
keeps account of what it has created and gets rid of it again. That logic is what
is modelled here. It runs against a service that works asynchronously, fails,
refuses and loses answers, and the plugin's own runs hardly ever take it through
the bad paths: on a healthy cloud nothing times out and nothing is refused.

All source paths below are relative to `src/manila_tempest_tests/`.

## 1. Inventory

| Component | State | Operations | Hard behaviour | What makes it correct | Modelled in |
|---|---|---|---|---|---|
| Waiters (`common/waiters.py`, `wait_for_resource_deletion` of the client, the two attachment waiters of `tests/scenario/manager_share.py`) | the last answer, the start of the wait | eleven polling loops | the resource changes during the sleep and during the request; time is truncated; the first answer is treated differently | success is fresh; no timeout on a settled resource; no early timeout; bounded, and it ends; what it comes to was true at one instant | `Waiters`, which implements `AtomicWait` |
| Cleanup of the API tests (`tests/api/base.py`) | `class_resources`, `method_resources`, `res["deleted"]` | the `create_*` helpers, `setUp`, `resource_cleanup`, `clear_resources`, `clear_share_replicas`, `delete_share_replica`, `handle_cleanup_exceptions` | lists shared by all classes; one failure ends a pass; retries of half-done deletions; lost answers; replicas that vanish | LIFO order of dependency; entries closed once; "deleted" means gone; nothing is given up without a reason; a pass ends | `ResourceCleanup`, which implements `CleanupLedger` |
| Creation with retries (`create_share`, `create_shares` in `tests/api/base.py`) | the shares of the call, retry counters | create, wait, replace | timeouts of shares that finish later; per-element budgets | what is returned is available; nothing is forgotten; the budget | `ShareCreation` |
| REST client (`services/share/v2/json/shares_client.py`, `utils.py`) | microversion, headers | one method per request | the header that is replaced instead of extended; gates on versions; the order of the tests in `is_resource_deleted` | the name, the fields, the headers and the version of a request agree; no lookup of a deletion is refused for its form | `Requests` (partly) |
| Scenario manager (`tests/scenario/manager_share.py`, `manager.py`) | the cleanup stack of one test, attachments, locks | allow/deny access, attach/detach, mount, share servers | cleanup in reverse order of registration, each step run whatever the others did | nothing is deleted while attached or locked; no leak without an error | `ScenarioCleanup` (partly) |
| RBAC base (`tests/rbac/base.py`) | the class's cleanup stack, users, projects | create_*, delete_resource, setup_user_client | registration after the wait; an error, or a skip, before the tests start | class cleanups come in order; what is lost is reported; the list stays a ledger from class to class | `ClassTeardown`, which implements `CleanupLedger` |
| Users and roles (`BaseSharesMixedTest`) | `class_project_users_created`, `CONF.auth.tempest_roles` | create_user_and_get_client, clear_project_users, resource_cleanup | a list shared by all classes and never emptied; users deleted before what they made | a user is deleted after what acts as it | `ClassTeardown` (partly: no roles) |
| Replication tests (`tests/api/test_replication.py`, `test_replication_snapshots.py`, `test_replication_export_locations.py`, `tests/api/admin/test_replication.py`) | replica states, both cleanup lists, callbacks | create, promote, resync, reset, delete | promotion changes who is active while cleanup is disabled | the cleanup goes by the roles of the moment | `ReplicaPromotion` (partly) |
| Access rules and locks (`allow_access` in `tests/api/base.py`, `tests/api/test_rules.py`, `test_resource_locks.py`) | rules, locks | allow, deny, lock | cleanup of a locked rule | a rule is deleted before it is waited for | requests in `Requests`, waits in `Waiters`, lock entries in `ResourceCleanup` |
| Migration tests (`tests/api/admin/test_migration.py`, `test_share_servers_migration.py`) | task_state | start, complete, cancel | races of completion and cancellation | the protocol of task states, which is Manila's | not modelled |
| Configuration, plugin, client registration (`config.py`, `plugin.py`, `clients.py`) | options | registration | none | none of behaviour | not modelled |
| SSH and Barbican clients (`common/remote_client.py`, `common/barbican_client_mgr.py`) | connections | thin wrappers | I/O | none of behaviour | not modelled |
| API test bodies (`tests/api`, `tests/rbac`, `tests/scenario`) | the resources of one test | sequences of requests and assertions | they assert what Manila does | a matter of Manila, not of the plugin | not modelled |

Components meet in few places: the API tests create through the helpers of
`base.py`, which enter the resource in a list and then call a waiter; the runner
calls `clear_resources` through `addCleanup` and `resource_cleanup`; and
`clear_resources` calls the client's deletion requests and its deletion waiter.
`create_shares` calls `_create_share` (which enters) and the status waiter.
At the end of a class, `resource_cleanup` ties three registers together: the
users, the list, and the class cleanups of the runner.

`PROJECT.json` lists the hazards of this code one by one, each at its line, with
the properties that would catch it, or the reason why none does.

## 2. Plan

1. `AtomicWait` (abstract), `Waiters` (detailed), `WaitersProofs`: the loops, with
   time, their refinement and their proofs. Done.
2. `CleanupLedger` (abstract), `ResourceCleanup` (detailed), `ResourceCleanupProofs`:
   the cleanup, its refinement and its proofs. Done.
3. `ShareCreation`, `ShareCreationProofs`: the retries. Done.
4. `Requests`, `RequestsProofs`: microversions and headers of the REST client,
   and the dispatch of its deletion lookup. Done, for every method of the client.
5. `ScenarioCleanup`, `ScenarioCleanupProofs`: the cleanup callbacks of the
   scenario tests, with attachments, resource locks and share servers. Done.
6. `ClassTeardown`, `ClassTeardownProofs`: the end of a class, in which users, list
   and class cleanups compose, with the RBAC base and its registration after
   the wait, implementing `CleanupLedger` too. Done.
7. `ReplicaPromotion`, `ReplicaPromotionProofs`, `PromotionOutcomeProofs`: the tests
   that exchange the roles of two replicas, under the cleanup of `base.py`. Done.
8. Not begun: the task states of the migrations. They would be a model of
   Manila; section 7 says why.

## 3. The modules and the code

What is external (Manila, Nova, Keystone, the test runner) is marked so in the
modules and is as nondeterministic as the plugin's own handling of it demands: a
service may answer any request with a fault, before or after it has taken it, and
changes its resources at any time between two steps of the plugin.

### AtomicWait, Waiters

`AtomicWait` is the promise: a wait that has come to something comes to what one look
at the resource, at one instant of the wait, says; or it gives up. `Result` of
`Waiters` names the instant: the answer Manila forms (`Answer`), not the later
handling of it, so that what the call does with it may be stale by then, but never
was invented. This is what the other modules rest on where a wait is one of their
steps.


One waiter, chosen at the start, on one resource. The eleven loops have one shape
and differ in a policy: what the first answer decides, how a bad state ends the
call, which limit applies and when it is examined, what a GET may answer, how long
the loop sleeps. The constants of `Policies` are the eleven functions;
`HandleOpening` is the statement before `while`, `HandleAnswer` a round of it,
`Answer` the moment Manila forms its answer, and between that and the handling of
it time may pass and the resource may change (`Change`). Time runs in ticks,
several to a second, because the code compares `int(time.time())`: `start` and
`Seconds(now)` are truncated as in the code. `AttachmentStatus` and `Detachment` of
the scenario manager have a limit and an interval of their own, compare times
without truncating them, and examine the limit before a look instead of after it.

### CleanupLedger, ResourceCleanup

`CleanupLedger` is the promise: entries pending, closed once, dependents first
within one list. `ResourceCleanup` is the code. `classList` and `methodList` are
`class_resources` and `method_resources`, attributes of `BaseSharesTest` and so
shared by all the classes of a worker; `outcome` is `res["deleted"]` with the
reason it was set. The `create_*` helpers are `Create`, and `CreateGroup` with
`EnterMember` for a group that comes with its shares. `Clear` is
`clear_resources`, one step per request or decision: `BeginEntry`, `BeginShare`
(with `clear_share_replicas` in `DeleteReplica` and `AwaitReplica`),
`BeginShareType`, `RequestDelete`, `Await`. `Raise` is
`handle_cleanup_exceptions` and the two `except` clauses around it. The types of
resource are folded to the seven that `clear_resources` tells apart.

### ShareCreation

`create_shares`: `attempts` holds, for each element of `share_data_list`, the
shares made for it and their states; `cnt` and `available` are the keys of the
element's dictionary. The second loop is `AtShare`, `BecomesAvailable`,
`FailsToBuild` (both exceptions of the waiter) and `Recreate`; a fault of any request
ends the call. The branch for consistency groups is left out: nothing reaches it
(section 6).

### Requests

A request is a record of what Manila reads to understand it: the kind of API,
whether a renamed part has its old or new name, the optional fields, the version
header (or none) and the experimental header. There is one operator per group of
client methods with the same gates, and every method of the client belongs to
one; `Inject` is `inject_microversion_header`, `ExtraHeaders` is
`get_extra_headers`, `Name` the test for 2.6, `Discovery` is
`send_microversion_request`, which goes round the injection. `Since`, `Graduated`,
`Brought` and `Serves` are Manila's side, external; they were written from the
gates of the tests (`skip_if_microversion_not_supported`) and of the client, so
they cannot show that the plugin and Manila disagree on when something was
introduced. What they can show is that the many gates agree with each other.
`Chosen` is the order of the keywords in `is_resource_deleted`, `Lookup` the GET
each leads to; a subnet that comes without its network (`Unpaired`) leads to none,
but to a `KeyError`, as `vt_id` leads to an `AttributeError`.

### ScenarioCleanup

The stack of callbacks of one scenario test. `Pushed` is what a helper hands to
`addCleanup`, `Delete`, `Await`, `ListServers`/`DeleteServer`/`AwaitServer` are
the callbacks, and `LookAtServer`, `StopServer`, `AwaitStop`, `DetachShare`,
`AwaitDetach` the steps of `cleanup_share_attachment`, which logs where the
others raise. The runner calls every callback, whatever the ones before it
raised. A machine that is being started says `SHUTOFF`, one that is being stopped
`ACTIVE`: the status lags behind what it does. Deleting a machine, which the
tests register as a callback without a wait, is an event that may occur at any
time (`NovaLoses`). `multitenancy` is the configuration option, either way.

### ClassTeardown

The classes of one worker, one after the other, and the three registers in which
they keep what they have made: `list` is `class_resources`, `users` is
`class_project_users_created` (both shared by all classes), `stack` the class
cleanups of `addClassResourceCleanup`, which start empty with every class.
`Mixed` has the classes derived from `BaseSharesMixedTest`, the only ones that go through
`users` (`Cleared`). `Place` says which register a thing goes to, and whether it is entered before or
after the wait: "waited" is the RBAC base, whose `create_*` helpers register the
cleanup once the resource is available. `CreateFails` is every way a creation can
fail: refused, its answer lost, or its wait. In `setup_clients` that is the end of
the class without any teardown, elsewhere the end of a test or of the setup
(`After`). `SkipClass` is the `skipException` of `provide_share_network`, which finds no
network for the share network it is to make: raised in `setup_clients` it ends the
class without `resource_cleanup`, after whatever was made until then; raised later,
in `resource_setup`, it leads to the teardown, whose errors the runner only logs.
`failed` has the classes in which something went wrong or was not done, `skipped`
those the runner counts as skipped: `Reported` are the first without the second,
`Unheard` the failures of skipped classes. `DeleteUser` and `UsersDone` are `clear_project_users`; `SkipEntry`,
`DeleteEntry`, `AwaitEntry` and `ListDone` are `clear_resources`, with as much of it
as the order of the registers depends on (`ResourceCleanup` has the rest);
`CallBack`, `AwaitCallBack` and `StackDone` are the runner's class cleanups with
`delete_resource`. `Works` says whether the client that deletes a thing still has
good credentials. For list and stack it is the client that made the thing: its class
must be running, and its user and project must exist. For users it is the
administrator of the class at hand, so that a later class can delete what an earlier
one has left. With credentials that are no longer good a request may be refused, or
taken by a service that still remembers the token.

### ReplicaPromotion

`Script` has the tests that promote a replica, step by step: `promote_out_of_sync`
of `tests/api/admin/test_replication.py`, which first resets the state of the
replica (`Reset`); `test_promote_in_sync_share_replica` and
`test_promote_and_promote_back` of `tests/api/test_replication.py`, and the tests of
snapshots, export locations and life cycles under a replication policy. A step
sends a request (`CreateReplica`, `Promote`, `TestDeletes`) or registers a callback
(`RegisterDeletion`) and then waits (`WaitOfTest`); `AssertionFails` ends a test at
any of its steps, and so does every fault. Whether that is reported depends on the
test: `unstable_test` makes a skip of the failure of `promote_out_of_sync` (`Unstable`),
not of what its cleanup raises. Then come the callbacks of the test,
`clear_resources` over the method list, as often as tests follow, and over the
class list. `ListReplicas`, `ClearReplica` and `AwaitReplica` are
`clear_share_replicas`: the last active replica answers BadRequest, which is passed
over, and goes with its share. A `Forbidden`, for a replica as for the share, is
suppressed and closes the entry (`Suppressed`, `EntryEnds`), as in the other two
modules of a cleanup; `hushed` notes it for the share. `Job` is Manila: the end of a promotion exchanges
the roles.

## 4. The runs

| Run | What it shows | Bounds, and why they are enough |
|---|---|---|
| `waiters` | each waiter returns only on a state that held since its last GET, times out neither early nor late, implements the atomic wait, and ends | limits of 2 and 3 seconds, two ticks to a second, intervals of 3 ticks (longer than a second, and not a multiple of it) and 4, requests of up to 2 ticks. Every alignment of start, poll, answer and limit occurs. `Horizon` lies beyond the longest wait the limits permit, so a loop that misses its limit is seen to |
| `cleanup` | order, one closing per entry, no believed deletion that did not happen, an end; the ledger is implemented | both lists, two resources in each, a chain of three, two children of one share, one of them a replica. Errors are not suppressed |
| `cleanup_group` | the ledger is implemented and a pass ends, with suppressed errors | a share type, a group with its share, a lock, an unknown type: with `cleanup`, every kind of entry |
| `cleanup_given_up` | finding, below | a share and its replica |
| `creation` | what is returned is available, nothing is forgotten, the budget, an end | three elements, one of them not waited for, two retries. `MaxAttempts` is 4, one more than the budget allows: it never binds in the code's behaviour and lets a violation show |
| `requests` | the parts of every request agree; deletions are looked up where they happen | every gate of the client with the version before and after it, and the keyword sets of the callers, with those that lead to an error: `vt_id`, none at all, a subnet without its network |
| `scenario` | the callbacks' order provokes no refusal, no leak is silent, every callback is called | a chain of network, share server, share, snapshot and copy, an attachment to a machine; with and without multitenancy |
| `scenario_detach` | finding, below | one share, two machines |
| `teardown` | class cleanups come in order, a class that ends well, skipped or not, has left nothing, the list is a ledger from class to class, the worker ends | three classes: one with users of all roles, one of the RBAC base, which does not go through the users, and one with users again, which makes nothing and finds what is left; a thing in every register and every kind of dependency between them; two faults, so that a second one meets what the first has left |
| `teardown_users` | finding, below | the same classes, no fault |
| `promotion` | share and replicas go wherever a test fails, no leak is silent but by a `Forbidden`, no false alarm, an end | every test of `Script`; the method list is cleared twice (by the test and by the next one of the class); three faults: one in the test and two in its cleanup |
| `promotion_back` | finding, below | the one test that enters its replica in a list; one fault |

Deadlock is not checked where the program stops at its end (a wait that is over,
a worker that is done); the client of `Requests` never stops, and there it is.

Every property of a passing run has a mutant, most of them beside the definition
they change (`\* Mutant:`): a plausible bug, under which that property fails.

### Fairness

A test worker is one thread that is never stopped for good, and each of its
waits ends by a time limit if by nothing else (this is `Terminates` of
`Waiters`). Hence `WF_vars(Worker)` and `WF_vars(Tick)` in `Waiters`, and weak
fairness of `Clear`, `CreateShares` and `Cleanup` in the modules in which a wait
is one step that can always fail. There Manila, Nova and the tests are given no
fairness beyond this: a request is answered or fails (the HTTP client's own limit;
`Answer` is part of `Worker`), and these liveness properties hold with a service
that never finishes anything. `ClassTeardown` and `ReplicaPromotion` count faults,
and a wait that runs out of time is one; their waits can therefore end only
with Manila's help, and they have `WF_vars(Manila)` beside `WF_vars(Worker)`: Manila
ends what it has accepted, well or badly. Without the bound on faults the worker
alone would do, as it does in the other modules. `Requests` has safety properties
only.

## 5. What is proved

All proofs are for any values of the constants that satisfy the assumption named
in the module. In each proof module `IInv` is the inductive invariant, `InitIInv`
and `StepIInv` are its two facts, and the theorems follow from it.

**ResourceCleanupProofs**, from `CleanupAssumption` (the dependency relation is
antisymmetric; the shares of a group need the group, and otherwise nothing it
does not need). `NoSelfInflictedRefusal` is not inductive: nothing in it says why a
pending dependent cannot stand behind the entry at hand. The invariant `IInv`
says it in named parts. `Scoped` and `Listed`: each list holds exactly the
registered resources of its scope. `Ordered`: what needs another stands before
it, because entries are put in front and a resource is created after what it
needs (`BornFirst`, `Entering`). `Prefix`: what stands before the entry at hand
is closed. `Control`: past the first step on an entry, that entry is pending.
From these, whatever needs the entry at hand is before it and closed, or not in
the list. The steps of `Clear` are first reduced to three shapes (`ClearStep`: it
works on, advances or leaves), so that each part of the invariant is shown for three cases and
not for eleven actions. `TypeCorrect`, `DeletedGone`, `NoSelfRefusal` and
`Refinement` (the ledger is implemented) follow from `Inductive`.

Three more theorems are about the steps of a pass. `NeverTurnsBack`: every step ends
the pass, comes to the next entry, or takes the entry at hand further (`Rank` orders
the stages of one entry), and nothing the tests do interferes; with the fairness of
the worker this is `ClearEnds`, whose fairness part is left to the run. And the
finding `GivenUpInErrorState` is delimited: `GivenUpForAReason` (what is given up, or
a replica of it, is in an error state at that moment) and
`GivenUpInErrorUnlessReplicated` (where no share is replicated, the comment is right).

**RequestsProofs**, from `RequestsAssumption` (versions are pairs of naturals; the
least supported is at least 2.0, as there is no v1 API any more; the latest is
at least 2.7, as `list_availability_zones` defaults to the new name). Each method
has a lemma that its request is `Good`: understood if its optional access fields
exist in its version, dropping no field, and with the right version. `IInv` says
of a request under way what Manila will make of it, and of an answer what came of
it. `AlwaysUnderstood`, `NeverFalselyDeleted`, `AlwaysHonoured`, `VersionKept`,
`AlwaysInnermost` and `TypeCorrect` follow. They cover clouds the run does not, such
as those whose latest version lies before a graduation, where the lookups need the
experimental header.

**WaitersProofs**, from `WaitersAssumption` (limits are naturals, intervals and the
length of a second positive). `FreshSuccess` and the two properties of the limit
speak of a call that has ended; the invariant has to know what leads there.
`Rounds` is arithmetic over one round: where the clock can be, given when the GET
was sent or the sleep ends, and how far `start` is from the real beginning (up to a
second by truncation, up to a request where it is taken after the first GET).
`Known` ties the answer at hand to the history of the resource: an answer that is
not wanted dates from before the resource settled. `AlwaysBounded` follows from
`Rounds`. Since the products with `TicksPerSecond` are not linear, what is needed
of them is stated as lemmas (`TimesMonotone`, `SecondsOfTicks`).

`Linearized` shows that `Waiters` implements `AtomicWait`. The refinement mapping is
`Result`, which is decided as soon as an answer is under way that will end the call
(`Deciding`). The lemmas follow the life of an answer: `Undecided` until one is
formed, `VerdictOf` and `Answered` when it is, `HandlingKeepsResult` when the code
comes to it; time and the changes of the resource in between do not touch it.

**ShareCreationProofs**: `Counted` (a retry is counted before its share exists, so
the shares of an element are at most one more than its counter) is what makes
`RetryBudget` inductive, with `Retried` for the moment between the two; `FirstRound`
and `AvailableStays` lead to `ReturnedAreAvailable`.

**ScenarioCleanupProofs**: `Settled` is about the services (what something alive
needs is available), `Running` about the callback that is running, and `Tracked`
ties them to the stack: `Stacked` (no callback comes before those of the things
that need its own) and `Accounted` (what is registered and not yet gone has its
callback ahead of it, or an error behind it). `DependentsAlwaysFirst` and
`NeverSilentLeak` follow. `DetachedIfAtRest` delimits the finding on
`cleanup_share_attachment`: if each attachment is to a machine of its own and no test
ends while Nova is at work on a machine (`EndsAtRest`), Nova refuses nothing, and
`DetachmentEnsured` holds. Its invariant `Quiet` says that the machines of the
callbacks still to be called are at rest, and in which state the one at hand is when
something is asked of it. Both hypotheses are needed: a callback that runs out of time
leaves its machine stopping, for the next callback on the same machine to find.

**ClassTeardownProofs**, from `ClassTeardownAssumption`, which does not even ask that
`Needs` be acyclic: what is made after what it needs cannot be in a cycle.
`Accounted` says where everything alive is registered that nobody has reported or
suppressed, and that the teardown has still to come there (`Ahead`); `ListSeen` and
`UsersSeen` say what has been seen to by the time a stage is over; `Stacked` and
`Grounded` give the order. `AlwaysInOrder` and `NeverSilentLeak` follow.
`Refinement` shows that the class list implements `CleanupLedger` from class to class,
also where a cleanup is abandoned half way; it needs `Listing` beside `IInv` (an entry
stands before those whose things it needs, and only what is in the list is closed).
`CleanedUpUnlessMadeByAUser` delimits the finding on users: under `SelfContained`
(nothing in the list is made by a user of the users' register, nothing needs such a
user, nothing outside the list needs what is in it) every class leaves an empty list
if no request fails by itself and no class is skipped. Its invariant `Unfailing` says that, until a fault,
what is alive is pending and what is pending can be deleted; no entry is then refused
(`EntryAtHand`), because all that could be in its way stands before it.

**ReplicaPromotionProofs**, for any number of rounds and faults: `ShareListed` (as
long as nothing has been reported and no `Forbidden` has closed it, the share has an
entry in a list that is still to be cleared) and `ReplicasWithShare` (no replica outlives its share) give
`NeverSilentLeak`.

**PromotionOutcomeProofs**, on top of it: how the tests of promotion end.
`CleanedUpWhereverItFails` rests on an invariant of the cleanup alone: wherever the
test stopped, what is alive is of a form the cleanup can deal with, and its steps keep
that form whatever the roles. `NoFalseAlarm` needs to know what each statement of
`Script` finds: an outline in the manner of Hoare gives the condition that holds before
each step of each test, and another the conditions of the callbacks and of the passes
over the two lists. `CleanedUp` and `NeverFalseAlarm` follow for any number of rounds
and faults, and `ListedOnlyAfterAFault` delimits the finding on
`test_promote_and_promote_back`: no other test, and not this one when nothing fails,
has an entry for an active replica.

**Only model-checked**: liveness (the prover has no fairness and no ENABLED):
`Terminates`, `ClearEnds`, `EveryCallbackCalled`, `WorkerEnds`, `CleanupEnds`. Every safety
property of the passing runs, and every refinement, is a theorem.

## 6. Findings

Four properties are stated only to be refuted. Each is what a comment or a
docstring says; the run shows what the code does instead. For each of them a theorem
says how far the disagreement goes (section 5).

- `GivenUpInErrorState` (`cleanup_given_up`): at the moment at which a share is dropped
  from the cleanup as being in an error state, it is its replica that is in one.
- `DetachmentEnsured` (`scenario_detach`): a test that fails while its machine is being
  started leaves the share attached: the status read is `SHUTOFF`, the machine is not
  stopped, the detachment is refused, and the refusal is only logged.
- `CleanedUpInResourceCleanup` (`teardown_users`): an entry of `class_resources` made
  by a user of `create_user_and_get_client` is not cleaned up, because that user is
  deleted before the list is gone through: the deletion is not authorized, which ends
  `resource_cleanup` with an error and leaves the entry pending.
- `ActiveReplicaNotListed` (`promotion_back`): `test_promote_and_promote_back` leaves
  the cleanup of the replica it promotes enabled; if it fails between its two
  promotions, the list has an entry that Manila refuses to delete.

Modelling met some more places where the code does not do what its text says or a
caller may expect. They need no run: each can be seen at its line.

- `Forbidden` closes an entry for good, as `NotFound` does, although the resource is
  still there (`tests/api/base.py:89`, `:994`).
- A class that `provide_share_network` skips in `setup_clients` (`tests/api/base.py:317`,
  called at `:170`, `:1337`, `:1342`) leaves the user, or the share network of the client
  before, that was made until then: the runner does not call `resource_cleanup`, and has
  no error. `tests/api/base.py:105` and `:1294` say "Will be cleaned up in
  resource_cleanup". `SkipClass` of `ClassTeardown` has the step, and `NoSilentLeak` says
  that such classes, and those whose teardown raises after a skip (`Unheard`), are the
  only ones to leave something unheard of.
- A retry in a consistency group cannot happen (`tests/api/base.py:479-487`):
  `_create_share` passes `consistency_group_id` on to the client's `create_share`, which
  has no such parameter (`shares_client.py:445-451`), and ends with a `TypeError`.
- `is_resource_deleted` with `share_network_subnet_id` and without `sn_id` ends with a
  `KeyError` (`shares_client.py:398`); every caller passes both.
- `create_shares` returns elements with `wait_for_status=False` in any state
  (`tests/api/base.py:420`, `:461`).
- `clear_share_replicas` is not given the client of the entry whose share it clears
  (`tests/api/base.py:878`).
- `create_subnet` and `reset_state_share_backup` take a version and do not send it
  (`shares_client.py:2396`, `:2223`); no caller passes another than the latest.
- The keyword `vt_id` of `is_resource_deleted` leads to `get_volume_type`, which
  does not exist (`shares_client.py:427`).
- `create_access_rule` with an optional field below 2.7 ends with a `KeyError`, as
  the body has the old name (`shares_client.py:1040`; `AccessRuleCrashes`).
- `except exceptions.Conflict or exceptions.ServerFault` catches `Conflict` only
  (`tests/api/admin/test_share_servers_migration.py:209`).
- `create_user_and_get_client` appends to the list of an option, for good
  (`tests/api/base.py:1372`).
- The download loop of the CentOS image compares bytes with a string
  (`tests/scenario/manager_share.py:690`).
- `tests/api/admin/test_replication.py:149` asks for the share of the class where
  the test has made one of its own.

## 7. What is not modelled

- What is left pending when a worker has run its last class: nobody looks at the
  lists again, so there is no step to check. `NoSilentLeak` of `ClassTeardown` says
  that the runner has heard of it.
- Refusals across the two lists: a class resource that a leftover of a test still
  needs. The code promises no order between the lists; the model reaches such
  states, and neither the ledger nor the properties speak of them.
- Migrations of shares and share servers. The sequence of task states, the races of
  completion and cancellation and the change of host are Manila's; on the plugin's
  side there are the wait (`MigrationStatus` of `Waiters`), the requests
  (`Migration`, `ServerMigration` of `Requests`) and a share that stays in its entry.
- The snapshots of the promotion tests, which go with their share, and the tests of
  replication that promote nothing: they are creations and deletions, which
  `ResourceCleanup` has.
- The formatting of URLs and bodies, random data, logging, and the helpers of
  `utils.py` that make up names or read the configuration.
- When Manila introduced an API: that is Manila's history, taken as given.
- SSH, mounting, images and floating IPs in the scenario tests; test bodies, which
  assert what Manila does; configuration, plugin registration, SSH and Barbican
  wrappers.
- Which roles a user is given, and what Manila's policies make of them.

--------------------------- MODULE ShareCreation ---------------------------
(***************************************************************************)
(* BaseSharesTest.create_shares (tests/api/base.py): several shares are    *)
(* asked for at once and then waited for one by one, over and over; one    *)
(* that fails to be built, or in time, is replaced by another, at most     *)
(* share_creation_retry_number times for each share asked for.             *)
(***************************************************************************)
EXTENDS Naturals, Sequences, FiniteSets

CONSTANTS
  N,            \* length of share_data_list
  Waited,       \* the elements without wait_for_status=False
  RetryNumber,  \* CONF.share.share_creation_retry_number
  MaxAttempts   \* bound of the model on the shares created for an element

Slots == 1 .. N

ASSUME CreationAssumption ==
  /\ N \in Nat /\ RetryNumber \in Nat /\ MaxAttempts \in Nat
  /\ Waited \subseteq Slots

VARIABLES
  attempts,   \* attempts[d]: the statuses in Manila of the shares created for
              \* d; d["share"] is the last of them
  entered,    \* entered[d]: which of them are in the cleanup list
  cnt,        \* d["cnt"]
  available,  \* d["available"]
  pc,         \* where create_shares is
  idx         \* the element of data it is at

vars == <<attempts, entered, cnt, available, pc, idx>>

Statuses == {"busy", "available", "error"}

Ended == {"returned", "raised"}

Share(d) == attempts[d][Len(attempts[d])]

Init ==
  /\ attempts = [d \in Slots |-> <<>>]
  /\ entered = [d \in Slots |-> {}]
  /\ cnt = [d \in Slots |-> 0]
  /\ available = [d \in Slots |-> FALSE]
  /\ pc = "creating" /\ idx = 1

Raised ==
  /\ pc' = "raised"
  /\ UNCHANGED idx

Born(d) ==
  /\ Len(attempts[d]) < MaxAttempts
  /\ attempts' = [attempts EXCEPT ![d] = Append(@, "busy")]

\* Mutant: the replacement of a share is not entered.
CreateShareUnentered(d, next) ==
  \/ /\ Born(d)
     /\ entered' = [entered EXCEPT ![d] = @ \cup {1}]
     /\ pc' = next /\ idx' = idx + 1
  \/ Raised /\ UNCHANGED <<attempts, entered>>

\* _create_share for element d: the share is entered as soon as Manila has
\* answered; or Manila refuses (a quota, a fault); or its answer is lost.
CreateShare(d, next) ==
  \/ /\ Born(d)
     /\ entered' = [entered EXCEPT ![d] = @ \cup {Len(attempts[d]) + 1}]
     /\ pc' = next /\ idx' = idx + 1
  \/ Raised /\ UNCHANGED <<attempts, entered>>
  \/ Born(d) /\ Raised /\ UNCHANGED entered

\* The first loop: a share for every element.
CreateFirst ==
  /\ pc = "creating" /\ idx \in Slots
  /\ CreateShare(idx, "creating")
  /\ UNCHANGED <<cnt, available>>

\* Mutant: the elements are counted from zero.
StartWaitingAtZero ==
  /\ pc = "creating" /\ idx = N + 1
  /\ pc' = "waiting" /\ idx' = 0
  /\ UNCHANGED <<attempts, entered, cnt, available>>

StartWaiting ==
  /\ pc = "creating" /\ idx = N + 1
  /\ pc' = "waiting" /\ idx' = 1
  /\ UNCHANGED <<attempts, entered, cnt, available>>

\* Mutant: an element that is not to be waited for is only passed over.
PassOverUnmarked ==
  /\ pc = "waiting" /\ idx \in Slots
  /\ idx \notin Waited \/ available[idx]
  /\ idx' = idx + 1
  /\ UNCHANGED <<attempts, entered, cnt, available, pc>>

\* An element that is not to be waited for, or has been.
PassOver ==
  /\ pc = "waiting" /\ idx \in Slots
  /\ idx \notin Waited \/ available[idx]
  /\ available' = [available EXCEPT ![idx] = TRUE]
  /\ idx' = idx + 1
  /\ UNCHANGED <<attempts, entered, cnt, pc>>

AtShare == pc = "waiting" /\ idx \in Waited /\ ~available[idx]

\* wait_for_resource_status returns.
BecomesAvailable ==
  /\ AtShare /\ Share(idx) = "available"
  /\ available' = [available EXCEPT ![idx] = TRUE]
  /\ idx' = idx + 1
  /\ UNCHANGED <<attempts, entered, cnt, pc>>

\* Mutant: the last replacement is allowed once too often.
FailsToBuildOffByOne ==
  /\ AtShare /\ Share(idx) \in {"error", "busy"}
  /\ \/ /\ RetryNumber >= cnt[idx]
        /\ cnt' = [cnt EXCEPT ![idx] = @ + 1]
        /\ pc' = "recreating" /\ UNCHANGED idx
     \/ /\ RetryNumber < cnt[idx]
        /\ Raised /\ UNCHANGED cnt
  /\ UNCHANGED <<attempts, entered, available>>

\* ShareBuildErrorException, or TimeoutException on a share that is still being
\* created and may yet become available.
FailsToBuild ==
  /\ AtShare /\ Share(idx) \in {"error", "busy"}
  /\ \/ /\ RetryNumber > cnt[idx]
        /\ cnt' = [cnt EXCEPT ![idx] = @ + 1]
        /\ pc' = "recreating" /\ UNCHANGED idx
     \/ /\ RetryNumber <= cnt[idx]
        /\ Raised /\ UNCHANGED cnt
  /\ UNCHANGED <<attempts, entered, available>>

\* Any other exception of a request: a fault, a share deleted by someone else.
RequestFails ==
  /\ AtShare /\ Raised
  /\ UNCHANGED <<attempts, entered, cnt, available>>

Recreate ==
  /\ pc = "recreating"
  /\ CreateShare(idx, "waiting")
  /\ UNCHANGED <<cnt, available>>

\* Mutant: one round over the elements is enough.
RoundEndsAtOnce ==
  /\ pc = "waiting" /\ idx = N + 1
  /\ pc' = "returned" /\ UNCHANGED idx
  /\ UNCHANGED <<attempts, entered, cnt, available>>

\* while not all(d["available"] for d in data)
RoundEnds ==
  /\ pc = "waiting" /\ idx = N + 1
  /\ \/ /\ \A d \in Slots : available[d]
        /\ pc' = "returned" /\ UNCHANGED idx
     \/ /\ \E d \in Slots : ~available[d]
        /\ idx' = 1 /\ UNCHANGED pc
  /\ UNCHANGED <<attempts, entered, cnt, available>>

CreateShares ==
  \/ CreateFirst \/ StartWaiting \/ PassOver \/ BecomesAvailable
  \/ FailsToBuild \/ RequestFails \/ Recreate \/ RoundEnds

\* Manila ends the creation of a share (external).
Manila(d, a) ==
  /\ a \in DOMAIN attempts[d] /\ attempts[d][a] = "busy"
  /\ \E s \in {"available", "error"} :
       attempts' = [attempts EXCEPT ![d][a] = s]
  /\ UNCHANGED <<entered, cnt, available, pc, idx>>

Next == CreateShares \/ \E d \in Slots, a \in 1 .. MaxAttempts : Manila(d, a)

\* The test thread runs on; every wait it makes ends (see Waiters).
Spec == Init /\ [][Next]_vars /\ WF_vars(CreateShares)

-----------------------------------------------------------------------------
TypeOK ==
  /\ attempts \in [Slots -> Seq(Statuses)]
  /\ entered \in [Slots -> SUBSET Nat]
  /\ cnt \in [Slots -> Nat] /\ available \in [Slots -> BOOLEAN]
  /\ pc \in {"creating", "waiting", "recreating"} \cup Ended
  /\ idx \in 1 .. N + 1

\* The shares returned for the elements that are waited for are available, and
\* are the ones the last retry made, whatever failed on the way.
ReturnedAreAvailable ==
  pc = "returned" =>
    \A d \in Waited : attempts[d] # <<>> /\ Share(d) = "available"

\* Every share Manila has made for the call, the failed, the superseded and the
\* unfinished ones included, is in the cleanup list at all times; the one it
\* can miss is the share whose very creation ended the call.
NoneForgotten ==
  \A d \in Slots : \A a \in DOMAIN attempts[d] :
    \/ a \in entered[d]
    \/ pc = "raised" /\ d = idx /\ a = Len(attempts[d])

\* The retries of one element are its own: the others' failures do not use
\* them up, and no more than 1 + share_creation_retry_number are made.
RetryBudget ==
  \A d \in Slots : Len(attempts[d]) <= RetryNumber + 1

\* The call comes to an end.
Terminates == <>(pc \in Ended)
=============================================================================

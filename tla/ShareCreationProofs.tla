------------------------ MODULE ShareCreationProofs ------------------------
(***************************************************************************)
(* However many shares are asked for and however often they may be         *)
(* retried: what create_shares promises of its retries, of the cleanup     *)
(* list and of what it returns.  The invariant adds to the promises that a *)
(* retry is counted before its share exists, which element it belongs to,  *)
(* and what "available" stands for until the call returns.                 *)
(***************************************************************************)
EXTENDS ShareCreation, SequenceTheorems, TLAPS

\* Until every element has its first share nothing has been waited for.
FirstRound ==
  pc = "creating" =>
    /\ \A d \in Slots : cnt[d] = 0 /\ ~available[d]
    /\ \A d \in Slots : d >= idx => attempts[d] = <<>>
    /\ \A d \in Slots : d < idx => Len(attempts[d]) = 1

\* A retry is counted before its share exists.
Counted ==
  /\ \A d \in Slots : cnt[d] <= RetryNumber /\ Len(attempts[d]) <= cnt[d] + 1
  /\ pc \in {"waiting", "returned"} \cup {"recreating"} =>
       \A d \in Slots : Len(attempts[d]) > 0
  /\ pc = "recreating" => Len(attempts[idx]) <= cnt[idx]

\* The element that is retried is one that is waited for, in vain so far.
Retried == pc = "recreating" => idx \in Waited /\ ~available[idx]

AvailableStays ==
  \A d \in Waited : available[d] => attempts[d] # <<>> /\ Share(d) = "available"

ReturnedAll == pc = "returned" => \A d \in Slots : available[d]

IInv ==
  /\ TypeOK /\ FirstRound /\ Counted /\ Retried /\ AvailableStays
  /\ ReturnedAll /\ NoneForgotten

Moves(d, a, s) == attempts' = [attempts EXCEPT ![d][a] = s]

Untouched == attempts' = attempts /\ entered' = entered

-----------------------------------------------------------------------------
(* What a step does to the shares of an element.                           *)

LEMMA BornFacts ==
  ASSUME TypeOK, NEW d \in Slots, Born(d)
  PROVE  /\ attempts' \in [Slots -> Seq(Statuses)]
         /\ Len(attempts'[d]) = Len(attempts[d]) + 1
         /\ attempts'[d] # <<>>
         /\ \A a \in 1 .. Len(attempts[d]) : attempts'[d][a] = attempts[d][a]
         /\ \A e \in Slots : e # d => attempts'[e] = attempts[e]
<1>1. attempts[d] \in Seq(Statuses) /\ "busy" \in Statuses
  BY DEF TypeOK, Statuses
<1>2. attempts' = [attempts EXCEPT ![d] = Append(attempts[d], "busy")]
  BY DEF Born
<1>3. Append(attempts[d], "busy") \in Seq(Statuses)
  BY <1>1
<1>4. attempts'[d] = Append(attempts[d], "busy")
  BY <1>2 DEF TypeOK
<1>5. \A e \in Slots : e # d => attempts'[e] = attempts[e]
  BY <1>2 DEF TypeOK
<1>6. attempts' \in [Slots -> Seq(Statuses)]
  BY <1>2, <1>3 DEF TypeOK
<1>7. /\ Len(attempts'[d]) = Len(attempts[d]) + 1
      /\ attempts'[d] # <<>>
      /\ \A a \in 1 .. Len(attempts[d]) : attempts'[d][a] = attempts[d][a]
  BY <1>1, <1>4
<1> QED
  BY <1>5, <1>6, <1>7

LEMMA SetFacts ==
  ASSUME TypeOK, NEW d \in Slots, NEW a \in 1 .. Len(attempts[d]),
         NEW s \in Statuses,
         Moves(d, a, s)
  PROVE  /\ attempts' \in [Slots -> Seq(Statuses)]
         /\ \A e \in Slots : /\ Len(attempts'[e]) = Len(attempts[e])
                             /\ DOMAIN attempts'[e] = DOMAIN attempts[e]
         /\ \A e \in Slots : \A b \in 1 .. Len(attempts[e]) :
              attempts'[e][b] = IF e = d /\ b = a THEN s ELSE attempts[e][b]
<1> DEFINE t == [attempts[d] EXCEPT ![a] = s]
<1>1. attempts[d] \in Seq(Statuses)
  BY DEF TypeOK
<1>2. t \in Seq(Statuses) /\ Len(t) = Len(attempts[d])
  BY <1>1, ExceptSeq
<1>3. \A b \in 1 .. Len(attempts[d]) :
        t[b] = IF b = a THEN s ELSE attempts[d][b]
  BY <1>1, ExceptSeq
<1>4. attempts' = [attempts EXCEPT ![d] = t]
  BY DEF Moves
<1> HIDE DEF t
<1>5. /\ attempts'[d] = t
      /\ \A e \in Slots : e # d => attempts'[e] = attempts[e]
  BY <1>4 DEF TypeOK
<1>6. attempts' \in [Slots -> Seq(Statuses)]
  BY <1>2, <1>4 DEF TypeOK
<1>7. \A e \in Slots : Len(attempts'[e]) = Len(attempts[e])
  BY <1>2, <1>5
<1>8. \A e \in Slots : DOMAIN attempts'[e] = DOMAIN attempts[e]
  <2>1. SUFFICES ASSUME NEW e \in Slots
                 PROVE  DOMAIN attempts'[e] = DOMAIN attempts[e]
    OBVIOUS
  <2>2. attempts'[e] \in Seq(Statuses) /\ attempts[e] \in Seq(Statuses)
    BY <1>6 DEF TypeOK
  <2> QED
    BY <1>7, <2>2
<1>9. \A e \in Slots : \A b \in 1 .. Len(attempts[e]) :
        attempts'[e][b] = IF e = d /\ b = a THEN s ELSE attempts[e][b]
  BY <1>3, <1>5
<1> QED
  BY <1>6, <1>7, <1>8, <1>9

\* The indices of the shares of an element.
LEMMA Indices ==
  ASSUME TypeOK, NEW d \in Slots
  PROVE  /\ DOMAIN attempts[d] = 1 .. Len(attempts[d])
         /\ Len(attempts[d]) \in Nat
         /\ attempts[d] = <<>> <=> Len(attempts[d]) = 0
<1>1. attempts[d] \in Seq(Statuses)
  BY DEF TypeOK
<1> QED
  BY <1>1

-----------------------------------------------------------------------------
(* The steps.                                                              *)

LEMMA InitIInv == Init => IInv
<1> SUFFICES ASSUME Init PROVE IInv
  OBVIOUS
<1>1. TypeOK
  BY CreationAssumption DEF Init, TypeOK, Ended
<1>2. \A d \in Slots : attempts[d] = <<>>
  BY DEF Init
<1>3. FirstRound
  BY <1>2 DEF Init, FirstRound, Slots
<1>4. Counted
  BY <1>2, CreationAssumption DEF Init, Counted
<1>5. Retried /\ ReturnedAll
  BY DEF Init, Retried, ReturnedAll
<1>6. AvailableStays
  BY CreationAssumption DEF Init, AvailableStays
<1>7. NoneForgotten
  BY <1>2, CreationAssumption DEF NoneForgotten
<1> QED
  BY <1>1, <1>3, <1>4, <1>5, <1>6, <1>7 DEF IInv

\* A share is asked for, for an element that has none that is available.
LEMMA CreateShareKeeps ==
  ASSUME IInv, idx \in Slots, pc \notin Ended, ~available[idx],
         NEW next \in {"creating", "waiting"}, CreateShare(idx, next),
         UNCHANGED <<cnt, available>>
  PROVE  TypeOK' /\ NoneForgotten' /\ AvailableStays'
<1>1. TypeOK /\ NoneForgotten /\ AvailableStays
  BY DEF IInv
<1>2. pc # "raised"
  BY DEF Ended
<1>3. \A d \in Slots : \A a \in DOMAIN attempts[d] : a \in entered[d]
  BY <1>1, <1>2 DEF NoneForgotten
<1>4. CASE UNCHANGED attempts
  <2>1. UNCHANGED entered /\ Raised
    <3>1. ~Born(idx)
      BY <1>1, <1>4, Indices, BornFacts
    <3> QED
      BY <3>1 DEF CreateShare
  <2> QED
    BY <1>1, <1>3, <1>4, <2>1, CreationAssumption
    DEF TypeOK, NoneForgotten, AvailableStays, Raised, Ended,
        Share
<1>5. CASE Born(idx)
  <2> DEFINE l == Len(attempts[idx])
  <2>1. /\ attempts' \in [Slots -> Seq(Statuses)]
        /\ Len(attempts'[idx]) = l + 1
        /\ attempts'[idx] # <<>>
        /\ \A a \in 1 .. l : attempts'[idx][a] = attempts[idx][a]
        /\ \A e \in Slots : e # idx => attempts'[e] = attempts[e]
    BY <1>1, <1>5, BornFacts
  <2>2. \/ /\ entered' = [entered EXCEPT ![idx] = @ \cup {l + 1}]
           /\ pc' = next /\ idx' = idx + 1
        \/ entered' = entered /\ Raised
    BY <1>5 DEF CreateShare
  <2>3. DOMAIN attempts'[idx] = 1 .. l + 1 /\ l \in Nat
    BY <1>1, <2>1, Indices
  <2> HIDE DEF l
  <2>4. TypeOK'
    <3>1. entered' \in [Slots -> SUBSET Nat]
      BY <1>1, <2>2, <2>3 DEF TypeOK
    <3>2. idx' \in 1 .. N + 1 /\ pc' \in {"creating", "waiting", "raised"}
      BY <1>1, <2>2, CreationAssumption DEF TypeOK, Raised, Slots
    <3> QED
      BY <1>1, <2>1, <3>1, <3>2 DEF TypeOK, Ended
  <2>5. NoneForgotten'
    <3>1. SUFFICES ASSUME NEW d \in Slots, NEW a \in DOMAIN attempts'[d]
                   PROVE  \/ a \in entered'[d]
                          \/ pc' = "raised" /\ d = idx' /\ a = Len(attempts'[d])
      BY DEF NoneForgotten
    <3>2. CASE d # idx
      BY <1>1, <1>3, <2>1, <2>2, <3>2 DEF TypeOK
    <3>3. CASE d = idx /\ a # l + 1
      <4>1. a \in DOMAIN attempts[idx]
        BY <1>1, <2>3, <3>3, Indices DEF l
      <4> QED
        BY <1>1, <1>3, <2>2, <3>3, <4>1 DEF TypeOK
    <3>4. CASE d = idx /\ a = l + 1
      BY <1>1, <2>1, <2>2, <3>4 DEF TypeOK, Raised
    <3> QED
      BY <3>2, <3>3, <3>4
  <2>6. AvailableStays'
    BY <1>1, <2>1, CreationAssumption DEF AvailableStays, Share
  <2> QED
    BY <2>4, <2>5, <2>6
<1> QED
  BY <1>4, <1>5 DEF CreateShare

\* A step that leaves the shares and the cleanup list alone.
LEMMA QuietKeeps ==
  ASSUME IInv, pc \notin Ended, Untouched
  PROVE  NoneForgotten'
BY DEF IInv, NoneForgotten, Untouched, Ended

LEMMA CreateFirstKeeps == ASSUME IInv, CreateFirst PROVE IInv'
<1>1. /\ pc = "creating" /\ idx \in Slots
      /\ CreateShare(idx, "creating") /\ cnt' = cnt /\ available' = available
  BY DEF CreateFirst
<1>2. TypeOK /\ FirstRound /\ Counted
  BY DEF IInv
<1>3. attempts[idx] = <<>> /\ ~available[idx] /\ cnt[idx] = 0
  BY <1>1, <1>2 DEF FirstRound, TypeOK, Slots
<1>4. TypeOK' /\ NoneForgotten' /\ AvailableStays'
  <2>1. pc \notin Ended
    BY <1>1 DEF Ended
  <2> QED
    BY <1>1, <1>3, <2>1, CreateShareKeeps
<1>5. /\ Len(attempts'[idx]) \in {0, 1}
      /\ pc' = "creating" => Len(attempts'[idx]) = 1
      /\ \A e \in Slots : e # idx => attempts'[e] = attempts[e]
  <2>1. Len(attempts[idx]) = 0
    BY <1>3
  <2>2. CASE Born(idx)
    <3>1. TypeOK /\ idx \in Slots
      BY <1>1, <1>2
    <3>2. /\ Len(attempts'[idx]) = Len(attempts[idx]) + 1
          /\ \A e \in Slots : e # idx => attempts'[e] = attempts[e]
      BY <2>2, <3>1, BornFacts
    <3> QED
      BY <2>1, <3>2
  <2>3. CASE ~Born(idx)
    BY <1>1, <2>1, <2>3 DEF CreateShare, Raised
  <2> QED
    BY <2>2, <2>3
<1>6. FirstRound'
  <2>1. SUFFICES ASSUME pc' = "creating" PROVE FirstRound'
    BY DEF FirstRound
  <2>2. idx' = idx + 1
    BY <1>1, <2>1 DEF CreateShare, Raised
  <2> QED
    BY <1>1, <1>2, <1>5, <2>1, <2>2 DEF FirstRound, TypeOK, Slots
<1>7. Counted'
  <2>1. pc' \in {"creating", "raised"}
    BY <1>1 DEF CreateShare, Raised
  <2>2. \A d \in Slots : cnt'[d] <= RetryNumber /\ Len(attempts'[d]) <= cnt'[d] + 1
    <3>1. cnt'[idx] = 0 /\ RetryNumber >= 0
      BY <1>1, <1>3, CreationAssumption
    <3>2. cnt'[idx] <= RetryNumber /\ Len(attempts'[idx]) <= cnt'[idx] + 1
      <4>1. Len(attempts'[idx]) = 0 \/ Len(attempts'[idx]) = 1
        BY <1>5
      <4>2. cnt'[idx] + 1 = 1
        BY <3>1
      <4>3. CASE Len(attempts'[idx]) = 0
        BY <3>1, <4>2, <4>3
      <4>4. CASE Len(attempts'[idx]) = 1
        BY <3>1, <4>2, <4>4
      <4> QED
        BY <4>1, <4>3, <4>4
    <3>3. \A d \in Slots : d # idx =>
            cnt'[d] <= RetryNumber /\ Len(attempts'[d]) <= cnt'[d] + 1
      BY <1>1, <1>2, <1>5 DEF Counted
    <3> QED
      BY <3>2, <3>3
  <2> QED
    BY <2>1, <2>2 DEF Counted
<1>8. Retried' /\ ReturnedAll'
  <2>1. pc' \in {"creating", "raised"}
    BY <1>1 DEF CreateShare, Raised
  <2> QED
    BY <2>1 DEF Retried, ReturnedAll
<1> QED
  BY <1>4, <1>6, <1>7, <1>8 DEF IInv

LEMMA RecreateKeeps == ASSUME IInv, Recreate PROVE IInv'
<1>1. /\ pc = "recreating" /\ CreateShare(idx, "waiting")
      /\ UNCHANGED <<cnt, available>>
  BY DEF Recreate
<1>2. TypeOK /\ Counted /\ Retried
  BY DEF IInv
<1>3. idx \in Slots /\ ~available[idx]
  BY <1>1, <1>2, CreationAssumption DEF Retried
<1>4. TypeOK' /\ NoneForgotten' /\ AvailableStays'
  <2>1. pc \notin Ended
    BY <1>1 DEF Ended
  <2> QED
    BY <1>1, <1>3, <2>1, CreateShareKeeps
<1>5. pc' \in {"waiting", "raised"}
  BY <1>1 DEF CreateShare, Raised
<1>6. /\ Len(attempts[idx]) \in Nat /\ Len(attempts[idx]) > 0
      /\ Len(attempts[idx]) <= cnt[idx]
      /\ cnt[idx] \in Nat
  BY <1>1, <1>2, <1>3, Indices DEF Counted, TypeOK
<1>7. /\ Len(attempts'[idx]) \in {Len(attempts[idx]), Len(attempts[idx]) + 1}
      /\ \A e \in Slots : e # idx => attempts'[e] = attempts[e]
  <2>1. CASE Born(idx)
    BY <1>2, <1>3, <2>1, BornFacts
  <2>2. CASE ~Born(idx)
    BY <1>1, <2>2 DEF CreateShare
  <2> QED
    BY <2>1, <2>2
<1>8. Counted'
  <2>1. /\ Len(attempts'[idx]) > 0
        /\ cnt'[idx] <= RetryNumber /\ Len(attempts'[idx]) <= cnt'[idx] + 1
    BY <1>1, <1>2, <1>3, <1>6, <1>7 DEF Counted
  <2>2. \A d \in Slots : d # idx =>
          /\ Len(attempts'[d]) > 0
          /\ cnt'[d] <= RetryNumber /\ Len(attempts'[d]) <= cnt'[d] + 1
    BY <1>1, <1>2, <1>7 DEF Counted
  <2> QED
    BY <1>5, <2>1, <2>2 DEF Counted
<1>9. FirstRound' /\ Retried' /\ ReturnedAll'
  BY <1>5 DEF FirstRound, Retried, ReturnedAll
<1> QED
  BY <1>4, <1>8, <1>9 DEF IInv

LEMMA StartWaitingKeeps == ASSUME IInv, StartWaiting PROVE IInv'
<1>1. /\ pc = "creating" /\ idx = N + 1 /\ pc' = "waiting" /\ idx' = 1
      /\ UNCHANGED <<attempts, entered, cnt, available>>
  BY DEF StartWaiting
<1>2. TypeOK /\ FirstRound /\ Counted /\ AvailableStays
  BY DEF IInv
<1>3. TypeOK'
  BY <1>1, <1>2, CreationAssumption DEF TypeOK
<1>4. Counted'
  <2>1. \A d \in Slots : Len(attempts[d]) = 1
    BY <1>1, <1>2, CreationAssumption DEF FirstRound, Slots
  <2> QED
    BY <1>1, <1>2, <2>1 DEF Counted
<1>5. FirstRound' /\ Retried' /\ ReturnedAll'
  BY <1>1 DEF FirstRound, Retried, ReturnedAll
<1>6. AvailableStays'
  BY <1>1, <1>2 DEF AvailableStays, Share
<1>7. NoneForgotten'
  BY <1>1, QuietKeeps DEF Untouched, Ended
<1> QED
  BY <1>3, <1>4, <1>5, <1>6, <1>7 DEF IInv

\* An element is passed over, or its share has become available.
LEMMA AvailableKeeps ==
  ASSUME IInv, PassOver \/ BecomesAvailable
  PROVE  IInv'
<1>1. /\ pc = "waiting" /\ idx \in Slots /\ pc' = pc /\ idx' = idx + 1
      /\ available' = [available EXCEPT ![idx] = TRUE]
      /\ UNCHANGED <<attempts, entered, cnt>>
  BY CreationAssumption DEF PassOver, BecomesAvailable, AtShare
<1>2. idx \in Waited => available[idx] \/ Share(idx) = "available"
  BY DEF PassOver, BecomesAvailable
<1>3. TypeOK /\ Counted /\ AvailableStays
  BY DEF IInv
<1>4. TypeOK'
  BY <1>1, <1>3, CreationAssumption DEF TypeOK, Slots
<1>5. AvailableStays'
  <2>1. attempts[idx] # <<>>
    BY <1>1, <1>3, Indices DEF Counted
  <2> QED
    BY <1>1, <1>2, <1>3, <2>1 DEF AvailableStays, Share, TypeOK
<1>6. Counted'
  BY <1>1, <1>3 DEF Counted
<1>7. FirstRound' /\ Retried' /\ ReturnedAll'
  BY <1>1 DEF FirstRound, Retried, ReturnedAll
<1>8. NoneForgotten'
  BY <1>1, QuietKeeps DEF Untouched, Ended
<1> QED
  BY <1>4, <1>5, <1>6, <1>7, <1>8 DEF IInv

\* The call raises, or a request of it does.
LEMMA RaisedKeeps ==
  ASSUME IInv, pc \notin Ended, Raised,
         UNCHANGED <<attempts, entered, cnt, available>>
  PROVE  IInv'
<1>1. pc' = "raised" /\ idx' = idx
  BY DEF Raised
<1>2. TypeOK' /\ Counted' /\ AvailableStays'
  BY <1>1 DEF IInv, TypeOK, Ended, Counted, AvailableStays, Share
<1>3. FirstRound' /\ Retried' /\ ReturnedAll'
  BY <1>1 DEF FirstRound, Retried, ReturnedAll
<1>4. NoneForgotten'
  BY QuietKeeps DEF Untouched
<1> QED
  BY <1>2, <1>3, <1>4 DEF IInv

LEMMA FailsToBuildKeeps == ASSUME IInv, FailsToBuild PROVE IInv'
<1>1. /\ pc = "waiting" /\ idx \in Waited /\ ~available[idx]
      /\ UNCHANGED <<attempts, entered, available>>
  BY DEF FailsToBuild, AtShare
<1>2. pc \notin Ended
  BY <1>1 DEF Ended
<1>3. CASE Raised /\ UNCHANGED cnt
  BY <1>1, <1>2, <1>3, RaisedKeeps
<1>4. CASE /\ RetryNumber > cnt[idx]
           /\ cnt' = [cnt EXCEPT ![idx] = @ + 1]
           /\ pc' = "recreating" /\ UNCHANGED idx
  <2>1. TypeOK /\ Counted /\ AvailableStays /\ idx \in Slots
    BY <1>1, CreationAssumption DEF IInv
  <2>2. TypeOK'
    BY <1>1, <1>4, <2>1 DEF TypeOK
  <2>3. Counted'
    <3>1. \A d \in Slots :
            /\ Len(attempts[d]) \in Nat /\ Len(attempts[d]) > 0
            /\ cnt[d] \in Nat
            /\ cnt'[d] = IF d = idx THEN cnt[d] + 1 ELSE cnt[d]
      BY <1>1, <1>4, <2>1, Indices DEF Counted, TypeOK
    <3>2. \A d \in Slots : cnt'[d] <= RetryNumber /\ Len(attempts'[d]) <= cnt'[d] + 1
      BY <1>1, <1>4, <2>1, <3>1, CreationAssumption DEF Counted
    <3>3. Len(attempts'[idx]) <= cnt'[idx]
      BY <1>1, <2>1, <3>1 DEF Counted
    <3> QED
      BY <1>1, <1>4, <3>1, <3>2, <3>3 DEF Counted
  <2>4. Retried' /\ FirstRound' /\ ReturnedAll'
    BY <1>1, <1>4 DEF Retried, FirstRound, ReturnedAll
  <2>5. AvailableStays'
    BY <1>1, <2>1 DEF AvailableStays, Share
  <2>6. NoneForgotten'
    BY <1>1, <1>2, QuietKeeps DEF Untouched
  <2> QED
    BY <2>2, <2>3, <2>4, <2>5, <2>6 DEF IInv
<1> QED
  BY <1>3, <1>4 DEF FailsToBuild

\* A share's status moves; one that was found available stays so.
LEMMA StatusKeeps ==
  ASSUME IInv, NEW d \in Slots, NEW a \in 1 .. Len(attempts[d]),
         NEW s \in Statuses, Moves(d, a, s),
         UNCHANGED <<entered, cnt, available>>,
         d \in Waited /\ available[d] => attempts[d][a] # "available",
         idx' = idx, pc' = pc
  PROVE  IInv'
<1>1. /\ TypeOK /\ FirstRound /\ Counted /\ Retried /\ AvailableStays
      /\ ReturnedAll /\ NoneForgotten
  BY DEF IInv
<1>2. /\ attempts' \in [Slots -> Seq(Statuses)]
      /\ \A e \in Slots : /\ Len(attempts'[e]) = Len(attempts[e])
                          /\ DOMAIN attempts'[e] = DOMAIN attempts[e]
      /\ \A e \in Slots : \A b \in 1 .. Len(attempts[e]) :
           attempts'[e][b] = IF e = d /\ b = a THEN s ELSE attempts[e][b]
  <2>1. TypeOK
    BY <1>1
  <2> QED
    BY <2>1, SetFacts
<1>3. TypeOK'
  BY <1>1, <1>2 DEF TypeOK
<1>4. \A e \in Slots : attempts'[e] = <<>> <=> attempts[e] = <<>>
  <2>1. SUFFICES ASSUME NEW e \in Slots
                 PROVE  attempts'[e] = <<>> <=> attempts[e] = <<>>
    OBVIOUS
  <2>2. attempts[e] \in Seq(Statuses) /\ attempts'[e] \in Seq(Statuses)
    BY <1>1, <1>2 DEF TypeOK
  <2> QED
    BY <1>2, <2>2, EmptySeq
<1>5. FirstRound'
  BY <1>1, <1>2, <1>4 DEF FirstRound
<1>6. Counted'
  BY <1>1, <1>2, CreationAssumption DEF Counted, Retried
<1>7. \A e \in Slots : attempts[e] # <<>> =>
        Share(e)' = IF e = d /\ a = Len(attempts[d]) THEN s ELSE Share(e)
  BY <1>1, <1>2, Indices DEF Share
<1>8. Retried'
  BY <1>1 DEF Retried
<1>9. AvailableStays'
  <2>1. SUFFICES ASSUME NEW e \in Waited, available[e]
                 PROVE  attempts'[e] # <<>> /\ Share(e)' = "available"
    BY DEF AvailableStays
  <2>2. e \in Slots /\ attempts[e] # <<>> /\ Share(e) = "available"
    BY <1>1, <2>1, CreationAssumption DEF AvailableStays
  <2> QED
    BY <1>4, <1>7, <2>1, <2>2 DEF Share
<1>10. ReturnedAll'
  BY <1>1 DEF ReturnedAll
<1>11. NoneForgotten'
  BY <1>1, <1>2 DEF NoneForgotten
<1> QED
  BY <1>3, <1>5, <1>6, <1>8, <1>9, <1>10, <1>11 DEF IInv

LEMMA RoundEndsKeeps == ASSUME IInv, RoundEnds PROVE IInv'
<1>1. /\ pc = "waiting" /\ pc \notin Ended
      /\ UNCHANGED <<attempts, entered, cnt, available>>
  BY DEF RoundEnds, Ended
<1>2. \/ (\A d \in Slots : available[d]) /\ pc' = "returned" /\ idx' = idx
      \/ idx' = 1 /\ pc' = pc
  BY DEF RoundEnds
<1>3. TypeOK' /\ Counted' /\ AvailableStays'
  BY <1>1, <1>2, CreationAssumption
  DEF IInv, TypeOK, Ended, Counted, AvailableStays, Share
<1>4. Retried' /\ FirstRound' /\ ReturnedAll'
  BY <1>1, <1>2 DEF Retried, FirstRound, ReturnedAll
<1>5. NoneForgotten'
  BY <1>1, QuietKeeps DEF Untouched
<1> QED
  BY <1>3, <1>4, <1>5 DEF IInv

LEMMA ManilaKeeps ==
  ASSUME IInv, NEW d \in Slots, NEW a \in 1 .. MaxAttempts, Manila(d, a)
  PROVE  IInv'
<1>1. TypeOK /\ AvailableStays
  BY DEF IInv
<1>2. a \in 1 .. Len(attempts[d]) /\ attempts[d][a] = "busy"
  BY <1>1, Indices DEF Manila
<1>3. PICK s \in Statuses : Moves(d, a, s)
  BY DEF Manila, Moves, Statuses
<1>4. /\ UNCHANGED <<entered, cnt, available>>
      /\ attempts[d][a] # "available" /\ idx' = idx /\ pc' = pc
  BY <1>2 DEF Manila
<1> QED
  BY <1>2, <1>3, <1>4, StatusKeeps

LEMMA StepIInv == IInv /\ [Next]_vars => IInv'
<1> SUFFICES ASSUME IInv, [Next]_vars PROVE IInv'
  OBVIOUS
<1>1. CASE CreateFirst \/ Recreate \/ StartWaiting
  BY <1>1, CreateFirstKeeps, RecreateKeeps, StartWaitingKeeps
<1>2. CASE PassOver \/ BecomesAvailable
  BY <1>2, AvailableKeeps
<1>3. CASE FailsToBuild \/ RoundEnds
  BY <1>3, FailsToBuildKeeps, RoundEndsKeeps
<1>4. CASE RequestFails
  <2>1. pc \notin Ended
    BY <1>4 DEF RequestFails, AtShare, Ended
  <2> QED
    BY <1>4, <2>1, RaisedKeeps DEF RequestFails
<1>5. CASE \E d \in Slots, a \in 1 .. MaxAttempts : Manila(d, a)
  BY <1>5, ManilaKeeps
<1>6. CASE UNCHANGED vars
  BY <1>6
  DEF vars, IInv, TypeOK, FirstRound, Counted, Retried, AvailableStays,
      ReturnedAll, NoneForgotten, Share
<1> QED
  BY <1>1, <1>2, <1>3, <1>4, <1>5, <1>6 DEF Next, CreateShares

THEOREM Inductive == Spec => []IInv
BY InitIInv, StepIInv, PTL DEF Spec

-----------------------------------------------------------------------------
(* What follows from it.                                                   *)

\* The statuses, the counters and the index of create_shares stay in range.
THEOREM TypeCorrect == Spec => []TypeOK
<1>1. IInv => TypeOK
  BY DEF IInv
<1> QED
  BY <1>1, Inductive, PTL

\* Every share made for the call is in the cleanup list, but for one whose
\* creation ended it.
THEOREM NeverForgotten == Spec => []NoneForgotten
<1>1. IInv => NoneForgotten
  BY DEF IInv
<1> QED
  BY <1>1, Inductive, PTL

\* No element gets more than share_creation_retry_number replacements.
THEOREM WithinBudget == Spec => []RetryBudget
<1>1. IInv => RetryBudget
  <2>1. SUFFICES ASSUME IInv, NEW d \in Slots
                 PROVE  Len(attempts[d]) <= RetryNumber + 1
    BY DEF RetryBudget
  <2>2. /\ cnt[d] \in Nat /\ Len(attempts[d]) \in Nat
        /\ cnt[d] <= RetryNumber /\ Len(attempts[d]) <= cnt[d] + 1
    BY <2>1, Indices DEF IInv, TypeOK, Counted
  <2> QED
    BY <2>2, CreationAssumption
<1> QED
  BY <1>1, Inductive, PTL

\* The shares that are returned and were to be waited for are available.
THEOREM AvailableOnReturn == Spec => []ReturnedAreAvailable
<1>1. IInv => ReturnedAreAvailable
  BY CreationAssumption
  DEF IInv, ReturnedAll, AvailableStays, ReturnedAreAvailable
<1> QED
  BY <1>1, Inductive, PTL
=============================================================================

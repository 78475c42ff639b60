--------------------------- MODULE WaitersProofs ---------------------------
(***************************************************************************)
(* What Waiters promises, for every limit, interval, latency and length of *)
(* a second: types, fresh success, and the two sides of the time limit.    *)
(* The argument is arithmetic over the instants of a round (Rounds) and    *)
(* over what is known of the resource since the last GET (Known).          *)
(***************************************************************************)
EXTENDS Waiters, TLAPS

\* The limit of the call, in ticks, and the instant it is counted from once it
\* has been truncated to a second.
Wait   == Policy.limit * TicksPerSecond
Origin == start * TicksPerSecond

\* When the GET at hand was sent, when a sleep ends, and from when the limit
\* counts.
Rounds ==
  /\ began <= now
  /\ began < Origin + TicksPerSecond /\ Origin <= began + MaxLatency
  /\ first => pc \in {"sent", "answered"} /\ timer = began
  /\ pc \in {"sent", "answered"} => timer <= now /\ now <= timer + MaxLatency
  /\ pc = "sleeping" => now <= timer /\ timer <= now + Policy.pause
  /\ pc \in Running => timer <= began + Wait + Policy.pause + MaxLatency
  /\ pc \in {"sent", "answered"} /\ Policy.check = "before" =>
       timer < began + Wait

\* What the state of the resource, and of the answer at hand, say of the time
\* since the last GET.
Known ==
  /\ world = "wanted" => settled >= 0 /\ lastGood = now
  /\ world # "wanted" => settled = -1
  /\ pc = "answered" /\ seen = "wanted" => lastGood >= timer
  /\ pc = "answered" /\ seen # "wanted" /\ settled >= 0 => settled >= timer
  /\ pc = "sleeping" /\ Policy.check = "before" /\ settled >= 0 =>
       settled >= timer - (Policy.pause + MaxLatency)

IInv ==
  /\ TypeOK
  /\ Rounds
  /\ Known
  /\ FreshSuccess /\ NoTimeoutOnceSettled /\ NoEarlyTimeout

-----------------------------------------------------------------------------
\* Multiplication by a natural number is monotone.
LEMMA TimesMonotone ==
  ASSUME NEW a \in Int, NEW b \in Int, NEW k \in Nat, a <= b
  PROVE  a * k <= b * k
OBVIOUS

\* A number of seconds, in ticks, is less than a second away from its instant.
LEMMA SecondsOfTicks ==
  ASSUME NEW t \in Nat
  PROVE  /\ Seconds(t) \in Nat
         /\ Seconds(t) * TicksPerSecond <= t
         /\ t < Seconds(t) * TicksPerSecond + TicksPerSecond
BY WaitersAssumption DEF Seconds

\* What the policies of all waiters have in common.
LEMMA PolicyFacts ==
  ASSUME call \in DOMAIN Policies
  PROVE  /\ Policy.limit \in Nat /\ Policy.pause \in Nat \ {0}
         /\ Policy.check \in {"after", "before"}
         /\ Policy.opening \in {"all", "success", "nothing"}
         /\ Policy.check = "before" => Policy.opening = "nothing"
         /\ Policy.onBad \in {"ignored", "build_error", "timed_out",
                              "invalid_configuration"}
         /\ Policy.answers \subseteq Anything
         /\ Wait \in Nat
         /\ (Policy.limit - 1) * TicksPerSecond = Wait - TicksPerSecond
<1> DEFINE Kind == [opening : {"all", "success", "nothing"},
                    check : {"after", "before"}, limit : Nat,
                    pause : Nat \ {0},
                    onBad : {"ignored", "build_error", "timed_out",
                             "invalid_configuration"},
                    answers : SUBSET Anything]
           Sound(p) == p \in Kind /\ (p.check = "before" => p.opening = "nothing")
<1>1. Sound(ResourceStatus) /\ Sound(AttachmentStatus)
  BY WaitersAssumption DEF ResourceStatus, AttachmentStatus, Anything
<1>2. Sound(ResourceStatusTolerant) /\ Sound(MigrationStatus)
  BY WaitersAssumption
  DEF ResourceStatus, ResourceStatusTolerant, MigrationStatus, Anything
<1>3. Sound(SnapshotRuleDeletion) /\ Sound(SoftDelete) /\ Sound(Restore)
  BY WaitersAssumption
  DEF ResourceStatus, ResourceStatusTolerant, SnapshotRuleDeletion,
      SoftDelete, Restore, Anything
<1>4. Sound(Message)
  BY WaitersAssumption
  DEF ResourceStatus, ResourceStatusTolerant, Message, Anything
<1>5. Sound(SubnetCreateCheck)
  BY WaitersAssumption DEF ResourceStatus, SubnetCreateCheck, Anything
<1>6. Sound(ResourceDeletion)
  BY WaitersAssumption DEF ResourceStatus, ResourceDeletion, Anything
<1>7. Sound(Detachment)
  BY WaitersAssumption DEF AttachmentStatus, Detachment, Anything
<1>8. Sound(Policy)
  <2> HIDE DEF Sound, Kind
  <2> QED
    BY <1>1, <1>2, <1>3, <1>4, <1>5, <1>6, <1>7 DEF Policy, Policies
<1>9. /\ Policy.limit \in Nat /\ Policy.pause \in Nat \ {0}
      /\ Policy.check \in {"after", "before"}
      /\ Policy.opening \in {"all", "success", "nothing"}
      /\ Policy.check = "before" => Policy.opening = "nothing"
      /\ Policy.onBad \in {"ignored", "build_error", "timed_out",
                           "invalid_configuration"}
      /\ Policy.answers \subseteq Anything
  BY <1>8
<1>10. Wait \in Nat /\ (Policy.limit - 1) * TicksPerSecond = Wait - TicksPerSecond
  BY <1>9, WaitersAssumption DEF Wait
<1> QED
  BY <1>9, <1>10
\* What examining the limit says of the clock.
LEMMA OutOfTimeFacts ==
  ASSUME TypeOK
  PROVE  /\ Policy.check = "before" =>
              (OutOfTime(now) <=> now - began >= Wait)
         /\ Policy.check = "after" /\ OutOfTime(now) => now >= Origin + Wait
         /\ Policy.check = "after" /\ ~OutOfTime(now) => now < Origin + Wait
<1>1. Policy.limit \in Nat /\ Wait \in Nat /\ call \in DOMAIN Policies
  BY PolicyFacts DEF TypeOK
<1> DEFINE s == Seconds(now)
           e == start + Policy.limit
<1>2. /\ s \in Nat /\ start \in Nat /\ TicksPerSecond \in Nat
      /\ s * TicksPerSecond <= now
      /\ now < s * TicksPerSecond + TicksPerSecond
  BY SecondsOfTicks, WaitersAssumption DEF TypeOK
<1>3. /\ e \in Nat /\ e = start + Policy.limit
      /\ e * TicksPerSecond = Origin + Wait
  BY <1>1, <1>2 DEF Origin, Wait
<1> HIDE DEF s, e
<1>4. ASSUME Policy.check = "after", OutOfTime(now)
      PROVE  now >= Origin + Wait
  <2>1. e <= s
    BY <1>1, <1>2, <1>3, <1>4 DEF OutOfTime, s
  <2>2. e * TicksPerSecond <= s * TicksPerSecond
    BY <1>2, <1>3, <2>1, TimesMonotone
  <2> QED
    BY <1>2, <1>3, <2>2 DEF TypeOK
<1>5. ASSUME Policy.check = "after", ~OutOfTime(now)
      PROVE  now < Origin + Wait
  <2>1. s + 1 <= e
    BY <1>1, <1>2, <1>3, <1>5 DEF OutOfTime, s
  <2>2. (s + 1) * TicksPerSecond <= e * TicksPerSecond
    BY <1>2, <1>3, <2>1, TimesMonotone
  <2>3. (s + 1) * TicksPerSecond = s * TicksPerSecond + TicksPerSecond
    BY <1>2
  <2> QED
    BY <1>2, <1>3, <2>2, <2>3 DEF TypeOK
<1>6. Policy.check = "before" => (OutOfTime(now) <=> now - began >= Wait)
  BY DEF OutOfTime, Wait
<1> QED
  BY <1>4, <1>5, <1>6

\* A call that begins satisfies the invariant.
LEMMA InitIInv == Init => IInv
<1> SUFFICES ASSUME Init
             PROVE  IInv
  OBVIOUS
<1>1. /\ call \in DOMAIN Policies /\ now \in Nat /\ began = now
      /\ start = Seconds(now) /\ MaxLatency \in Nat
      /\ TicksPerSecond \in Nat \ {0}
  BY WaitersAssumption DEF Init
<1>2. /\ Policy.pause \in Nat \ {0} /\ Wait \in Nat
      /\ Policy.check = "before" => Policy.opening = "nothing"
  BY <1>1, PolicyFacts
<1>3. TypeOK
  BY <1>1, <1>2, SecondsOfTicks DEF Init, TypeOK, Running, Ended
<1>4. start \in Nat /\ Origin <= now /\ now < Origin + TicksPerSecond
  BY <1>1, SecondsOfTicks DEF Origin
<1>5. Origin \in Nat
  BY <1>1, <1>4 DEF Origin
<1>6. Rounds
  <2>1. /\ first => pc = "sent" /\ timer = now
        /\ ~first => pc = "sleeping" /\ timer \in {now, now + Policy.pause}
        /\ first => Policy.check # "before"
    BY <1>2 DEF Init
  <2>2. pc \in {"sent", "answered"} => first
    BY <2>1
  <2> QED
    BY <1>1, <1>2, <1>4, <1>5, <2>1, <2>2 DEF Rounds, Running
<1>7. Known
  BY <1>1, <1>2 DEF Known, Init
<1>8. FreshSuccess /\ NoTimeoutOnceSettled /\ NoEarlyTimeout
  BY DEF Init, FreshSuccess, NoTimeoutOnceSettled, NoEarlyTimeout, TimedOut
<1> QED
  BY <1>3, <1>6, <1>7, <1>8 DEF IInv

\* The call, its policy and the length of a second never change.
LEMMA SamePolicy ==
  ASSUME [Next]_vars
  PROVE  call' = call /\ began' = began /\ Policy' = Policy /\ Wait' = Wait
<1>1. call' = call /\ began' = began
  BY DEF Next, Worker, Answer, HandleOpening, HandleAnswer, WakeUp, Change,
         Tick, vars
<1>2. Policy' = Policy
  BY <1>1 DEF Policy, Policies, ResourceStatus, ResourceStatusTolerant,
         MigrationStatus, SnapshotRuleDeletion, Message, SoftDelete, Restore,
         SubnetCreateCheck, ResourceDeletion, AttachmentStatus, Detachment
<1> QED
  BY <1>1, <1>2 DEF Wait

\* What handling an answer does: it ends the call, or puts the worker to sleep.
\* Only the opening moves the start of the clock.
LEMMA Handling ==
  ASSUME TypeOK, HandleOpening \/ HandleAnswer
  PROVE  /\ pc = "answered" /\ first' = FALSE
         /\ UNCHANGED <<call, world, seen, now, began, settled, lastGood>>
         /\ start' \in {start, Seconds(now)}
         /\ \/ pc' = "sleeping" /\ timer' = now + Policy.pause
               /\ seen \in {"other", "bad"}
            \/ pc' = "returned" /\ timer' = timer /\ seen = "wanted"
            \/ pc' = "lookup_error" /\ timer' = timer
            \/ pc' = Policy.onBad /\ pc' # "ignored" /\ timer' = timer
            \/ pc' = "timed_out" /\ timer' = timer /\ seen \in {"other", "bad"}
<1>1. ASSUME HandleOpening
      PROVE  /\ pc = "answered" /\ first' = FALSE
             /\ UNCHANGED <<call, world, seen, now, began, settled, lastGood>>
             /\ start' \in {start, Seconds(now)}
             /\ \/ pc' = "sleeping" /\ timer' = now + Policy.pause
                   /\ seen \in {"other", "bad"}
                \/ pc' = "returned" /\ timer' = timer /\ seen = "wanted"
                \/ pc' = "lookup_error" /\ timer' = timer
  BY <1>1 DEF HandleOpening, Finish, Sleep
<1>2. ASSUME HandleAnswer
      PROVE  /\ pc = "answered" /\ first' = FALSE /\ start' = start
             /\ UNCHANGED <<call, world, seen, now, began, settled, lastGood>>
             /\ \/ pc' = "sleeping" /\ timer' = now + Policy.pause
                   /\ seen \in {"other", "bad"}
                \/ pc' = "returned" /\ timer' = timer /\ seen = "wanted"
                \/ pc' = "lookup_error" /\ timer' = timer
                \/ pc' = Policy.onBad /\ pc' # "ignored" /\ timer' = timer
                \/ pc' = "timed_out" /\ timer' = timer
                   /\ seen \in {"other", "bad"}
  BY <1>2 DEF HandleAnswer, Finish, Sleep
<1> QED
  BY <1>1, <1>2

\* Every step keeps the types.
LEMMA StepTypeOK == TypeOK /\ [Next]_vars => TypeOK'
<1> SUFFICES ASSUME TypeOK, [Next]_vars
             PROVE  TypeOK'
  OBVIOUS
<1>1. call' = call /\ began' = began /\ Policy' = Policy
  BY SamePolicy
<1>2. /\ Policy.pause \in Nat
      /\ Policy.onBad \in {"ignored", "build_error", "timed_out",
                           "invalid_configuration"}
  BY PolicyFacts DEF TypeOK
<1>3. CASE Answer
  BY <1>1, <1>3 DEF Answer, TypeOK, Running
<1>4. Seconds(now) \in Nat
  BY SecondsOfTicks DEF TypeOK
<1>5. ASSUME HandleOpening \/ HandleAnswer
      PROVE  TypeOK'
  <2>1. pc' \in Running \cup Ended /\ timer' \in Nat /\ start' \in Nat
    <3>1. now + Policy.pause \in Nat /\ timer \in Nat /\ start \in Nat
      BY <1>2 DEF TypeOK
    <3>2. pc' \in {"sleeping", "returned", "lookup_error", "timed_out"}
            \/ (pc' = Policy.onBad /\ pc' # "ignored")
      BY <1>5, Handling
    <3>3. timer' \in {timer, now + Policy.pause} /\ start' \in {start, Seconds(now)}
      BY <1>5, Handling
    <3> QED
      BY <1>2, <1>4, <3>1, <3>2, <3>3 DEF Running, Ended
  <2>2. /\ call' = call /\ world' = world /\ seen' = seen /\ now' = now
        /\ settled' = settled /\ lastGood' = lastGood /\ first' = FALSE
    BY <1>5, Handling
  <2>3. call' \in DOMAIN Policies' /\ world' \in Policy'.answers
        /\ seen' \in Policy'.answers
    BY <1>1, <2>2 DEF TypeOK, Policies, ResourceStatus, ResourceStatusTolerant,
         MigrationStatus, SnapshotRuleDeletion, Message, SoftDelete, Restore,
         SubnetCreateCheck, ResourceDeletion, AttachmentStatus, Detachment
  <2> QED
    BY <1>1, <2>1, <2>2, <2>3 DEF TypeOK, Running, Ended
<1>7. CASE WakeUp
  BY <1>1, <1>7 DEF WakeUp, TypeOK, Running, Ended
<1>8. CASE Change
  BY <1>1, <1>8 DEF Change, TypeOK
<1>9. CASE Tick
  BY <1>1, <1>9 DEF Tick, TypeOK
<1>10. CASE UNCHANGED vars
  BY <1>1, <1>10 DEF vars, TypeOK
<1> QED
  BY <1>3, <1>5, <1>7, <1>8, <1>9, <1>10 DEF Next, Worker

\* Every step keeps the times of the rounds.
LEMMA StepRounds == TypeOK /\ Rounds /\ [Next]_vars => Rounds'
<1> SUFFICES ASSUME TypeOK, Rounds, [Next]_vars
             PROVE  Rounds'
  OBVIOUS
<1>1. call' = call /\ began' = began /\ Policy' = Policy /\ Wait' = Wait
  BY SamePolicy
<1>2. /\ Policy.pause \in Nat \ {0} /\ Wait \in Nat
      /\ Policy.check \in {"after", "before"}
      /\ Policy.onBad \in {"ignored", "build_error", "timed_out",
                           "invalid_configuration"}
      /\ TicksPerSecond \in Nat \ {0} /\ MaxLatency \in Nat
      /\ now \in Nat /\ timer \in Nat /\ began \in Nat /\ Origin \in Int
  BY PolicyFacts, WaitersAssumption DEF TypeOK, Origin
<1>3. start' = start => Origin' = Origin
  BY DEF Origin
<1>4. CASE Answer
  BY <1>1, <1>2, <1>3, <1>4 DEF Answer, Rounds, Running
<1>5. CASE HandleOpening
  <2>1. CASE pc' = "sleeping"
    <3>1. /\ start' = Seconds(now) /\ now' = now /\ ~first'
          /\ timer' = now + Policy.pause /\ timer = began /\ pc = "answered"
      <4>1. pc = "answered" /\ first /\ ~first' /\ now' = now
        BY <1>5 DEF HandleOpening
      <4>2. start' = Seconds(now) /\ timer' = now + Policy.pause
        BY <1>5, <2>1 DEF HandleOpening, Finish, Sleep
      <4> QED
        BY <4>1, <4>2 DEF Rounds
    <3>2. Origin' \in Int /\ Origin' <= now /\ now < Origin' + TicksPerSecond
      BY <1>2, <3>1, SecondsOfTicks DEF Origin
    <3>3. now <= began + MaxLatency
      BY <3>1 DEF Rounds
    <3>4. /\ first' = FALSE /\ now' <= timer'
          /\ timer' <= now' + Policy.pause
      BY <1>2, <1>5, <3>1 DEF HandleOpening
    <3>5. timer' <= began + Wait + Policy.pause + MaxLatency
      BY <1>2, <3>1, <3>3
    <3>6. began <= now' /\ began < Origin' + TicksPerSecond
          /\ Origin' <= began + MaxLatency
      <4>1. began <= now
        BY DEF Rounds
      <4>2. /\ now \in Int /\ began \in Int /\ TicksPerSecond \in Int
            /\ MaxLatency \in Int /\ now' = now
        BY <1>2, <3>1
      <4>3. began < Origin' + TicksPerSecond
        <5>1. Origin' + TicksPerSecond \in Int
          BY <3>2, <4>2
        <5>2. now < Origin' + TicksPerSecond
          BY <3>2
        <5> QED
          BY <4>1, <4>2, <5>1, <5>2
      <4>4. Origin' <= began + MaxLatency
        BY <3>2, <3>3, <4>2
      <4>5. began <= now'
        BY <4>1, <4>2
      <4> QED
        BY <4>3, <4>4, <4>5
    <3> QED
      <4>1. began' = began /\ Policy' = Policy /\ Wait' = Wait /\ ~first'
        BY <1>1, <3>4
      <4>2. pc' \notin {"sent", "answered"}
        BY <2>1
      <4> QED
        BY <3>4, <3>5, <3>6, <4>1, <4>2 DEF Rounds
  <2>2. CASE pc' # "sleeping"
    <3>1. /\ start' = start /\ now' = now /\ timer' = timer /\ ~first'
          /\ pc' \in {"returned", "lookup_error"}
      BY <1>5, <2>2 DEF HandleOpening, Finish, Sleep
    <3> QED
      BY <1>1, <1>2, <1>3, <3>1 DEF Rounds, Running
  <2> QED
    BY <2>1, <2>2
<1>6. CASE HandleAnswer
  <2>1. /\ start' = start /\ now' = now /\ ~first' /\ pc = "answered"
    BY <1>6 DEF HandleAnswer, Finish, Sleep
  <2>2. CASE pc' = "sleeping"
    <3>1. /\ timer' = now + Policy.pause
          /\ Policy.check = "before" \/ ~OutOfTime(now)
      BY <1>2, <1>6, <2>2 DEF HandleAnswer, Finish, Sleep
    <3>2. now <= began + Wait + MaxLatency
      BY <1>2, <2>1, <3>1, OutOfTimeFacts DEF Rounds
    <3> QED
      BY <1>1, <1>2, <1>3, <2>1, <2>2, <3>1, <3>2 DEF Rounds, Running
  <2>3. CASE pc' # "sleeping"
    <3>1. pc' \notin Running
      BY <1>2, <1>6, <2>3 DEF HandleAnswer, Finish, Sleep, Running
    <3> QED
      BY <1>1, <1>2, <1>3, <2>1, <3>1 DEF Rounds, Running
  <2> QED
    BY <2>2, <2>3
<1>7. CASE WakeUp
  <2>1. /\ start' = start /\ now' = now /\ first' = first
        /\ pc = "sleeping" /\ now = timer
    BY <1>2, <1>7 DEF WakeUp, Rounds
  <2>2. CASE pc' = "timed_out"
    BY <1>1, <1>2, <1>3, <2>1, <2>2 DEF Rounds, Running
  <2>3. CASE pc' # "timed_out"
    <3>1. /\ pc' = "sent" /\ timer' = now
          /\ Policy.check = "before" => now < began + Wait
      BY <1>2, <1>7, <2>3, OutOfTimeFacts DEF WakeUp
    <3> QED
      BY <1>1, <1>2, <1>3, <2>1, <3>1 DEF Rounds, Running
  <2> QED
    BY <2>2, <2>3
<1>8. CASE Change
  BY <1>1, <1>2, <1>3, <1>8 DEF Change, Rounds
<1>9. CASE Tick
  BY <1>1, <1>2, <1>3, <1>9 DEF Tick, Rounds, Running
<1>10. CASE UNCHANGED vars
  BY <1>1, <1>3, <1>10 DEF vars, Rounds
<1> QED
  BY <1>4, <1>5, <1>6, <1>7, <1>8, <1>9, <1>10 DEF Next, Worker

\* Every step keeps what is known of the resource.
LEMMA StepKnown == TypeOK /\ Rounds /\ Known /\ [Next]_vars => Known'
<1> SUFFICES ASSUME TypeOK, Rounds, Known, [Next]_vars
             PROVE  Known'
  OBVIOUS
<1>1. Policy' = Policy
  BY SamePolicy
<1>2. /\ Policy.pause \in Nat \ {0} /\ MaxLatency \in Nat
      /\ Policy.onBad \in {"ignored", "build_error", "timed_out",
                           "invalid_configuration"}
      /\ now \in Nat /\ timer \in Nat
      /\ settled \in Nat \cup {-1} /\ lastGood \in Nat \cup {-1}
  BY PolicyFacts, WaitersAssumption DEF TypeOK
<1>3. CASE Answer
  BY <1>1, <1>2, <1>3 DEF Answer, Rounds, Known
<1>4. CASE HandleOpening \/ HandleAnswer
  <2>1. /\ pc = "answered" /\ world' = world /\ now' = now
        /\ settled' = settled /\ lastGood' = lastGood
    BY <1>4, Handling
  <2>2. CASE pc' = "sleeping"
    <3>1. timer' = now + Policy.pause /\ seen # "wanted"
      BY <1>2, <1>4, <2>2, Handling
    <3>2. settled >= 0 => settled >= timer /\ now <= timer + MaxLatency
      BY <2>1, <3>1 DEF Known, Rounds
    <3> QED
      BY <1>1, <1>2, <2>1, <2>2, <3>1, <3>2 DEF Known
  <2>3. CASE pc' # "sleeping"
    <3>1. pc' \notin {"sleeping", "answered"}
      BY <1>2, <1>4, <2>3, Handling
    <3> QED
      BY <2>1, <3>1 DEF Known
  <2> QED
    BY <2>2, <2>3
<1>5. CASE WakeUp
  BY <1>1, <1>5 DEF WakeUp, Known
<1>6. CASE Change
  <2>1. /\ pc' = pc /\ seen' = seen /\ timer' = timer /\ now' = now
        /\ world' = "wanted" => settled' = now /\ lastGood' = now
        /\ world' # "wanted" => settled' = -1 /\ lastGood' = lastGood
    BY <1>6 DEF Change
  <2>2. /\ pc = "answered" => timer <= now
        /\ pc = "sleeping" => timer - (Policy.pause + MaxLatency) <= now
    BY <1>2 DEF Rounds
  <2>3. CASE world' = "wanted"
    BY <1>1, <1>2, <2>1, <2>2, <2>3 DEF Known
  <2>4. CASE world' # "wanted"
    BY <1>1, <1>2, <2>1, <2>4 DEF Known
  <2> QED
    BY <2>3, <2>4
<1>7. CASE Tick
  BY <1>1, <1>2, <1>7 DEF Tick, Known
<1>8. CASE UNCHANGED vars
  BY <1>1, <1>8 DEF vars, Known
<1> QED
  BY <1>3, <1>4, <1>5, <1>6, <1>7, <1>8 DEF Next, Worker

\* Every step keeps the three promises: a success and a timeout are decided
\* by what is known at that moment, and nothing moves once the call has ended.
LEMMA StepPromises ==
  IInv /\ [Next]_vars => (FreshSuccess /\ NoTimeoutOnceSettled /\ NoEarlyTimeout)'
<1> SUFFICES ASSUME IInv, [Next]_vars
             PROVE  (FreshSuccess /\ NoTimeoutOnceSettled /\ NoEarlyTimeout)'
  OBVIOUS
<1> USE DEF IInv
<1>1. began' = began /\ Policy' = Policy /\ Wait' = Wait
  BY SamePolicy
<1>2. /\ Policy.pause \in Nat \ {0} /\ MaxLatency \in Nat /\ Wait \in Nat
      /\ Policy.check \in {"after", "before"}
      /\ Policy.onBad \in {"ignored", "build_error", "timed_out",
                           "invalid_configuration"}
      /\ Policy.limit * TicksPerSecond = Wait
      /\ (Policy.limit - 1) * TicksPerSecond = Wait - TicksPerSecond
      /\ now \in Nat /\ timer \in Nat /\ began \in Nat
      /\ TicksPerSecond \in Nat /\ Origin \in Int
      /\ settled \in Nat \cup {-1} /\ lastGood \in Nat \cup {-1}
  BY PolicyFacts, WaitersAssumption DEF TypeOK, Wait, Origin
<1>3. CASE pc' \notin {"returned", "timed_out"}
  BY <1>3 DEF FreshSuccess, NoTimeoutOnceSettled, NoEarlyTimeout, TimedOut
<1>4. CASE (HandleOpening \/ HandleAnswer) /\ pc' = "returned"
  <2>1. /\ pc = "answered" /\ seen = "wanted"
        /\ lastGood' = lastGood /\ timer' = timer
    BY <1>2, <1>4, Handling
  <2> QED
    BY <1>4, <2>1
    DEF Known, FreshSuccess, NoTimeoutOnceSettled, NoEarlyTimeout, TimedOut
<1>5. CASE (HandleOpening \/ HandleAnswer) /\ pc' = "timed_out"
           /\ Policy.onBad # "timed_out"
  <2>1. /\ pc = "answered" /\ seen # "wanted" /\ timer' = timer
        /\ now' = now /\ settled' = settled
    BY <1>5, Handling
  <2>2. Policy.check = "after" /\ OutOfTime(now)
    BY <1>5 DEF HandleOpening, HandleAnswer, Finish, Sleep
  <2>3. now >= Origin + Wait
    BY <2>2, OutOfTimeFacts
  <2>4. now > began + (Wait - TicksPerSecond)
    BY <1>2, <2>3 DEF Rounds
  <2>5. settled >= 0 => settled >= timer /\ now <= timer + MaxLatency
    BY <2>1 DEF Known, Rounds
  <2>6. settled >= 0 => settled > began + (Wait - TicksPerSecond) - MaxLatency
    BY <1>2, <2>4, <2>5
  <2> QED
    BY <1>1, <1>2, <1>5, <2>1, <2>2, <2>4, <2>5, <2>6
    DEF FreshSuccess, NoTimeoutOnceSettled, NoEarlyTimeout
<1>6. CASE (HandleOpening \/ HandleAnswer) /\ pc' = "timed_out"
           /\ Policy.onBad = "timed_out"
  BY <1>1, <1>6 DEF FreshSuccess, NoTimeoutOnceSettled, NoEarlyTimeout, TimedOut
<1>7. CASE WakeUp /\ pc' = "timed_out"
  <2>1. /\ pc = "sleeping" /\ now = timer /\ now' = now /\ settled' = settled
        /\ Policy.check = "before" /\ OutOfTime(now)
    BY <1>2, <1>7 DEF WakeUp, Rounds
  <2>2. now - began >= Wait
    BY <2>1, OutOfTimeFacts
  <2>3. settled >= 0 => settled >= began + Wait - (Policy.pause + MaxLatency)
    BY <1>2, <2>1, <2>2 DEF Known
  <2> QED
    BY <1>1, <1>2, <1>7, <2>1, <2>2, <2>3
    DEF FreshSuccess, NoTimeoutOnceSettled, NoEarlyTimeout
<1>8. CASE UNCHANGED vars
  <2>1. /\ pc' = pc /\ now' = now /\ settled' = settled /\ timer' = timer
        /\ lastGood' = lastGood
    BY <1>8 DEF vars
  <2> QED
    BY <1>1, <2>1 DEF FreshSuccess, NoTimeoutOnceSettled, NoEarlyTimeout, TimedOut
<1> QED
  <2>1. CASE Answer \/ Change \/ Tick
    BY <1>3, <2>1 DEF Answer, Change, Tick, Running
  <2>2. CASE WakeUp
    BY <1>3, <1>7, <2>2 DEF WakeUp
  <2> QED
    BY <1>3, <1>4, <1>5, <1>6, <1>8, <2>1, <2>2 DEF Next, Worker

LEMMA Invariance == Spec => []IInv
<1>1. IInv /\ [Next]_vars => IInv'
  BY StepTypeOK, StepRounds, StepKnown, StepPromises DEF IInv
<1> QED
  BY <1>1, InitIInv, PTL DEF Spec

\* Every variable keeps its type, whatever the waiter and the resource do; in
\* particular a call ends in one of the ways its code names.
THEOREM TypeCorrect == Spec => []TypeOK
<1>1. IInv => TypeOK
  BY DEF IInv
<1> QED
  BY <1>1, Invariance, PTL

\* A waiter that returns has seen the wanted state no longer than one request
\* ago, for every interval, limit and latency.
THEOREM AlwaysFresh == Spec => []FreshSuccess
<1>1. IInv => FreshSuccess
  BY DEF IInv
<1> QED
  BY <1>1, Invariance, PTL

\* A resource that is ready in time is never reported as timed out.
THEOREM NeverTimedOutOnceSettled == Spec => []NoTimeoutOnceSettled
<1>1. IInv => NoTimeoutOnceSettled
  BY DEF IInv
<1> QED
  BY <1>1, Invariance, PTL

\* A call that times out has waited for its limit, less the second that
\* truncation may cost.
THEOREM NeverTimedOutEarly == Spec => []NoEarlyTimeout
<1>1. IInv => NoEarlyTimeout
  BY DEF IInv
<1> QED
  BY <1>1, Invariance, PTL

\* No wait outlives its limit by more than the round under way.
THEOREM AlwaysBounded == Spec => []BoundedWait
<1>1. IInv => BoundedWait
  <2> SUFFICES ASSUME IInv, pc \in Running
               PROVE  now - began <= Policy.limit * TicksPerSecond
                                       + Policy.pause + 2 * MaxLatency
    BY DEF BoundedWait
  <2>1. /\ Wait \in Nat /\ Policy.pause \in Nat /\ MaxLatency \in Nat
        /\ now \in Nat /\ began \in Nat /\ timer \in Nat
    BY PolicyFacts, WaitersAssumption DEF IInv, TypeOK
  <2>2. timer <= began + Wait + Policy.pause + MaxLatency
    BY DEF IInv, Rounds
  <2>3. now <= timer + MaxLatency
    BY <2>1 DEF IInv, Rounds, Running
  <2>4. now - began <= Wait + Policy.pause + 2 * MaxLatency
    BY <2>1, <2>2, <2>3
  <2> QED
    BY <2>4 DEF Wait
<1> QED
  BY <1>1, Invariance, PTL

-----------------------------------------------------------------------------
(* A wait is atomic.  The result is decided by Answer, and every later     *)
(* step of the call must come to that same result.                         *)

\* How an answer ends a call, waiter by waiter.
LEMMA VerdictOf ==
  ASSUME call \in DOMAIN Policies
  PROVE  /\ Verdicts[call]["wanted"] = "returned"
         /\ Verdicts[call]["gone"] = "lookup_error"
         /\ Verdicts[call]["other"] = "none"
         /\ Verdicts[call]["bad"] = IF Policy.onBad = "ignored" THEN "none"
                                                            ELSE Policy.onBad
<1> DEFINE V(c) == [wanted |-> "returned", gone |-> "lookup_error",
                    other |-> "none",
                    bad |-> IF Policies[c].onBad = "ignored" THEN "none"
                                                         ELSE Policies[c].onBad]
<1>1. Verdicts[call] = V(call)
  BY DEF Verdicts
<1> QED
  BY <1>1 DEF Policy

\* While the call is running and no answer decides it, the result is open.
LEMMA Undecided ==
  ASSUME pc \in {"sent", "sleeping"}
  PROVE  Result = "none"
BY DEF Result, Deciding, Ended

\* An opening that finds a bad state decides nothing; any other answer has the
\* verdict of its state.
LEMMA Answered ==
  ASSUME call \in DOMAIN Policies, pc = "answered", seen \in Anything
  PROVE  Result = IF first /\ Policy.opening = "success" /\ seen = "bad"
                    THEN "none" ELSE Verdicts[call][seen]
BY DEF Result, Deciding, Ended

\* Handling an answer ends the call as that answer decided, or gives up an open
\* call, or leaves it open.
LEMMA HandlingKeepsResult ==
  ASSUME TypeOK, [Next]_vars, HandleOpening \/ HandleAnswer
  PROVE  Result' = Result \/ (Result = "none" /\ Result' = "timed_out")
<1>1. /\ pc = "answered" /\ seen \in Anything /\ call \in DOMAIN Policies
  BY Handling, PolicyFacts DEF TypeOK
<1>2. Policy' = Policy /\ call' = call
  BY SamePolicy
<1>3. Policy.onBad \in {"ignored", "build_error", "timed_out",
                        "invalid_configuration"}
  BY <1>1, PolicyFacts
<1>4. pc' \in Ended => Result' = pc'
  BY DEF Result
<1>5. pc' = "sleeping" => Result' = "none"
  BY DEF Result, Deciding, Ended
<1>6. CASE HandleOpening
  <2>1. /\ first /\ Policy.opening = "success"
        /\ \/ seen = "wanted" /\ pc' = "returned"
           \/ seen = "gone" /\ pc' = "lookup_error"
           \/ seen \in {"other", "bad"} /\ pc' = "sleeping"
    BY <1>6 DEF HandleOpening, Finish, Sleep
  <2> QED
    BY <1>1, <1>4, <1>5, <2>1, Answered, VerdictOf DEF Ended
<1>7. CASE HandleAnswer
  <2>1. /\ first => Policy.opening = "all"
        /\ \/ seen = "wanted" /\ pc' = "returned"
           \/ seen = "gone" /\ pc' = "lookup_error"
           \/ seen = "bad" /\ Policy.onBad # "ignored" /\ pc' = Policy.onBad
           \/ /\ seen = "other" \/ (seen = "bad" /\ Policy.onBad = "ignored")
              /\ pc' \in {"timed_out", "sleeping"}
    BY <1>7 DEF HandleAnswer, Finish, Sleep
  <2>2. Result = Verdicts[call][seen]
    BY <1>1, <2>1, Answered
  <2> QED
    BY <1>1, <1>3, <1>4, <1>5, <2>1, <2>2, VerdictOf DEF Ended
<1> QED
  BY <1>6, <1>7

\* Every step is a step of the atomic wait: the answer concludes it, the limit
\* gives it up, Manila moves the resource, and the rest cannot be seen.
LEMMA AtomicStep == TypeOK /\ [Next]_vars => [Atomic!Next]_(Atomic!vars)
<1> SUFFICES ASSUME TypeOK, [Next]_vars
             PROVE  [Atomic!Next]_(Atomic!vars)
  OBVIOUS
<1>1. call' = call /\ Policy' = Policy
  BY SamePolicy
<1>2. Policy.answers \subseteq Anything /\ call \in DOMAIN Policies
  BY PolicyFacts DEF TypeOK
<1>3. ASSUME world' = world, Result' = Result
      PROVE  UNCHANGED Atomic!vars
  BY <1>1, <1>3 DEF Atomic!vars
<1>4. CASE Answer
  <2>1. Result = "none" /\ world' = world
    BY <1>4, Undecided DEF Answer
  <2>2. \/ Result' = "none"
        \/ Result' = Verdicts[call][world]
    <3>1. pc' = "answered" /\ seen' = world /\ Verdicts' = Verdicts
      BY <1>4 DEF Answer, Verdicts, Policies, ResourceStatus,
         ResourceStatusTolerant, MigrationStatus, SnapshotRuleDeletion,
         Message, SoftDelete, Restore, SubnetCreateCheck, ResourceDeletion,
         AttachmentStatus, Detachment
    <3> QED
      BY <1>1, <3>1 DEF Result, Ended
  <2>3. CASE Result' = "none"
    BY <1>3, <2>1, <2>3
  <2>4. CASE Result' = Verdicts[call][world]
    <3>1. Atomic!Conclude
      BY <1>1, <2>1, <2>4 DEF Atomic!Conclude
    <3> QED
      BY <3>1 DEF Atomic!Next
  <2> QED
    BY <2>2, <2>3, <2>4
<1>5. CASE HandleOpening \/ HandleAnswer
  <2>1. world' = world
    BY <1>5, Handling
  <2>2. CASE Result' = Result
    BY <1>3, <2>1, <2>2
  <2>3. CASE Result = "none" /\ Result' = "timed_out"
    BY <1>1, <2>1, <2>3 DEF Atomic!GiveUp, Atomic!Next
  <2> QED
    BY <1>5, <2>2, <2>3, HandlingKeepsResult
<1>6. CASE WakeUp
  <2>1. /\ Result = "none" /\ world' = world
        /\ pc' \in {"sent", "timed_out"}
    BY <1>6, Undecided DEF WakeUp
  <2>2. Result' \in {"none", "timed_out"}
    BY <2>1 DEF Result, Deciding, Ended
  <2>3. CASE Result' = "none"
    BY <1>3, <2>1, <2>3
  <2>4. CASE Result' = "timed_out"
    BY <1>1, <2>1, <2>4 DEF Atomic!GiveUp, Atomic!Next
  <2> QED
    BY <2>2, <2>3, <2>4
<1>7. ASSUME pc' = pc, seen' = seen, first' = first
      PROVE  Result' = Result
  <2>1. Verdicts' = Verdicts
    BY DEF Verdicts, Policies, ResourceStatus, ResourceStatusTolerant,
       MigrationStatus, SnapshotRuleDeletion, Message, SoftDelete, Restore,
       SubnetCreateCheck, ResourceDeletion, AttachmentStatus, Detachment
  <2> QED
    BY <1>1, <1>7, <2>1 DEF Result, Deciding
<1>8. CASE Change
  <2>1. world' \in Anything /\ Result' = Result
    BY <1>2, <1>7, <1>8 DEF Change
  <2> QED
    BY <1>1, <2>1 DEF Atomic!Move, Atomic!Next
<1>9. CASE Tick
  BY <1>3, <1>7, <1>9 DEF Tick
<1>10. CASE UNCHANGED vars
  BY <1>3, <1>7, <1>10 DEF vars
<1> QED
  BY <1>4, <1>5, <1>6, <1>8, <1>9, <1>10 DEF Next, Worker

\* The polling loops implement the atomic wait: what a call comes to is decided
\* by one answer, true when Manila gave it, or by giving up.
THEOREM Linearized == Spec => AtomicWaitSpec
<1>1. Init => Atomic!Init
  <2> SUFFICES ASSUME Init
               PROVE  Atomic!Init
    OBVIOUS
  <2>1. /\ call \in DOMAIN Policies /\ world \in Policy.answers
        /\ pc \in {"sent", "sleeping"}
    BY DEF Init
  <2> QED
    BY <2>1, PolicyFacts, Undecided DEF Atomic!Init
<1>2. TypeOK /\ [Next]_vars => [Atomic!Next]_(Atomic!vars)
  BY AtomicStep
<1> QED
  BY <1>1, <1>2, TypeCorrect, PTL DEF Spec, AtomicWaitSpec, Atomic!Spec
=============================================================================

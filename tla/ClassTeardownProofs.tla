------------------------ MODULE ClassTeardownProofs ------------------------
(***************************************************************************)
(* Whatever the classes of a worker make and whatever fails: a class       *)
(* cleanup is called only when nothing that is still registered needs its  *)
(* thing, and what a class leaves behind the runner has heard of, unless   *)
(* the class was skipped.  The invariant says where everything alive is    *)
(* registered, and how far the teardown has come with each of the three    *)
(* registers.                                                              *)
(***************************************************************************)
EXTENDS ClassTeardown, SequenceTheorems, TLAPS

Phases == {"clients", "tests", "users", "list", "stack", "end"}

\* What is registered has been made, and what it needs before it.
Grounded ==
  /\ \A x \in ToSet(stack) : \A y \in Needs[x] \cup Owners[x] :
       cloud[y] # "absent"
  /\ \A x \in ToSet(list) \cup closed : cloud[x] # "absent"
  /\ \A x \in ToSet(users) : Place[x] = "users"
  /\ \A x \in ToSet(list) : Place[x] = "list"

Stacked ==
  \A i, j \in 1 .. Len(stack) :
    i < j => stack[i] \notin Needs[stack[j]] \cup Owners[stack[j]]

\* Only the last two stages wait for anything: the second for its entry.
Waits ==
  /\ phase \notin {"list", "stack"} => waiting = Nothing
  /\ phase = "list" /\ waiting # Nothing =>
       pos \in 1 .. Len(list) /\ waiting = list[pos]

\* How far the list and the users have been gone through.
ListSeen ==
  /\ phase = "list" => \A i \in 1 .. Len(list) : i < pos => list[i] \in closed
  /\ phase = "stack" \/ (phase = "end" /\ class \notin failed) =>
       \A i \in 1 .. Len(list) : list[i] \in closed

Settled(r) == r \in hushed \/ ~Alive(r)

UsersSeen ==
  /\ phase = "users" =>
       \A i \in 1 .. Len(Cleared) : i < pos => Settled(Cleared[i])
  /\ phase \in {"list", "stack"} \/ (phase = "end" /\ class \notin failed) =>
       \A i \in 1 .. Len(Cleared) : Settled(Cleared[i])

\* The teardown has still to come to r.
Ahead(r) ==
  \/ phase \in {"clients", "tests", "users", "list"} /\ r \in Pending
  \/ phase \in {"clients", "tests"} /\ r \in ToSet(users)
  \/ phase = "users" /\ \E i \in 1 .. Len(Cleared) : i >= pos /\ Cleared[i] = r
  \/ phase # "end" /\ r \in ToSet(stack)
  \/ phase = "stack" /\ waiting = r

Accounted ==
  \A r \in Things \ hushed : Alive(r) =>
    ClassOf[r] \in failed \/ (ClassOf[r] = class /\ Ahead(r))

IInv ==
  /\ TypeOK /\ Grounded /\ Stacked /\ Waits /\ ListSeen /\ UsersSeen
  /\ Accounted

-----------------------------------------------------------------------------
(* Registers.                                                              *)

LEMMA RegisterFacts ==
  ASSUME NEW s \in Seq(Things)
  PROVE  /\ Len(s) \in Nat /\ DOMAIN s = 1 .. Len(s)
         /\ ToSet(s) = {s[i] : i \in 1 .. Len(s)}
         /\ ToSet(s) \subseteq Things
BY DEF ToSet

LEMMA PushFacts ==
  ASSUME NEW s \in Seq(Things), NEW r \in Things
  PROVE  /\ <<r>> \o s \in Seq(Things) /\ Len(<<r>> \o s) = Len(s) + 1
         /\ (<<r>> \o s)[1] = r
         /\ \A i \in 1 .. Len(s) : (<<r>> \o s)[i + 1] = s[i]
         /\ \A i \in 1 .. Len(<<r>> \o s) :
              i = 1 \/ (i - 1 \in 1 .. Len(s) /\ (<<r>> \o s)[i] = s[i - 1])
         /\ ToSet(<<r>> \o s) = {r} \cup ToSet(s)
<1> DEFINE t == <<r>> \o s
<1>1. /\ <<r>> \in Seq(Things) /\ Len(<<r>>) = 1 /\ <<r>>[1] = r
      /\ Len(s) \in Nat
  OBVIOUS
<1>2. /\ t \in Seq(Things) /\ Len(t) = 1 + Len(s)
      /\ \A i \in 1 .. 1 + Len(s) :
           t[i] = IF i <= 1 THEN <<r>>[i] ELSE s[i - 1]
  BY <1>1, ConcatProperties
<1> HIDE DEF t
<1>3. Len(t) = Len(s) + 1 /\ t[1] = r
  BY <1>1, <1>2
<1>4. \A i \in 1 .. Len(s) : t[i + 1] = s[i]
  BY <1>1, <1>2
<1>5. \A i \in 1 .. Len(t) :
        i = 1 \/ (i - 1 \in 1 .. Len(s) /\ t[i] = s[i - 1])
  BY <1>1, <1>2
<1>6. ToSet(t) = {r} \cup ToSet(s)
  <2>1. /\ ToSet(t) = {t[i] : i \in 1 .. Len(t)}
        /\ ToSet(s) = {s[i] : i \in 1 .. Len(s)}
    BY <1>2, RegisterFacts
  <2>2. 1 \in 1 .. Len(t) /\ \A i \in 1 .. Len(s) : i + 1 \in 1 .. Len(t)
    BY <1>1, <1>3
  <2> QED
    BY <1>3, <1>4, <1>5, <2>1, <2>2
<1> QED
  BY <1>2, <1>3, <1>4, <1>5, <1>6 DEF t

LEMMA AppendFacts ==
  ASSUME NEW s \in Seq(Things), NEW r \in Things
  PROVE  /\ Append(s, r) \in Seq(Things)
         /\ ToSet(Append(s, r)) = ToSet(s) \cup {r}
<1>1. /\ Append(s, r) \in Seq(Things) /\ Len(Append(s, r)) = Len(s) + 1
      /\ \A i \in 1 .. Len(s) : Append(s, r)[i] = s[i]
      /\ Append(s, r)[Len(s) + 1] = r /\ Len(s) \in Nat
  BY AppendProperties
<1>2. /\ ToSet(Append(s, r)) = {Append(s, r)[i] : i \in 1 .. Len(s) + 1}
      /\ ToSet(s) = {s[i] : i \in 1 .. Len(s)}
  BY <1>1, RegisterFacts
<1> QED
  BY <1>1, <1>2

LEMMA TailFacts ==
  ASSUME NEW s \in Seq(Things), s # <<>>
  PROVE  /\ Head(s) = s[1] /\ Head(s) \in Things
         /\ Tail(s) \in Seq(Things) /\ Len(Tail(s)) = Len(s) - 1
         /\ Len(s) \in Nat \ {0}
         /\ \A i \in 1 .. Len(Tail(s)) :
              Tail(s)[i] = s[i + 1] /\ i + 1 \in 1 .. Len(s)
         /\ ToSet(s) = {Head(s)} \cup ToSet(Tail(s))
<1>1. /\ Head(s) = s[1] /\ Head(s) \in Things
      /\ Tail(s) \in Seq(Things) /\ Len(Tail(s)) = Len(s) - 1
      /\ Len(s) \in Nat \ {0}
      /\ \A i \in 1 .. Len(Tail(s)) : Tail(s)[i] = s[i + 1]
  BY HeadTailProperties
<1>2. /\ ToSet(s) = {s[i] : i \in 1 .. Len(s)}
      /\ ToSet(Tail(s)) = {Tail(s)[i] : i \in 1 .. Len(Tail(s))}
  BY <1>1, RegisterFacts
<1>3. \A i \in 1 .. Len(Tail(s)) : i + 1 \in 1 .. Len(s)
  BY <1>1
<1>4. \A i \in 1 .. Len(s) : i = 1 \/ (i - 1 \in 1 .. Len(Tail(s)) /\ (i - 1) + 1 = i)
  BY <1>1
<1>5. ToSet(s) = {Head(s)} \cup ToSet(Tail(s))
  <2>1. ASSUME NEW x \in ToSet(s) PROVE x = Head(s) \/ x \in ToSet(Tail(s))
    <3>1. PICK i \in 1 .. Len(s) : x = s[i]
      BY <1>2, <2>1
    <3> QED
      BY <1>1, <1>2, <1>4, <3>1
  <2>2. Head(s) \in ToSet(s)
    BY <1>1, <1>2
  <2>3. ToSet(Tail(s)) \subseteq ToSet(s)
    BY <1>1, <1>2, <1>3
  <2> QED
    BY <2>1, <2>2, <2>3
<1> QED
  BY <1>1, <1>3, <1>5

-----------------------------------------------------------------------------
(* Types.                                                                  *)

LEMMA DeleteCallType ==
  ASSUME TypeOK, NEW r \in Things, NEW answer, DeleteCall(r, answer)
  PROVE  /\ cloud' \in [Things -> {"absent", "here", "deleting", "stuck", "gone"}]
         /\ faults' \in 0 .. MaxFaults
<1>1. /\ cloud' \in {cloud, [cloud EXCEPT ![r] = "gone"],
                       [cloud EXCEPT ![r] = "deleting"]}
      /\ faults' = faults \/ (faults < MaxFaults /\ faults' = faults + 1)
  BY DEF DeleteCall
<1>2. faults' \in 0 .. MaxFaults
  BY <1>1, ClassTeardownAssumption DEF TypeOK
<1> QED
  BY <1>1, <1>2 DEF TypeOK

LEMMA AwaitCallType ==
  ASSUME TypeOK, NEW r \in Things, NEW outcome, AwaitCall(r, outcome)
  PROVE  faults' \in 0 .. MaxFaults
BY ClassTeardownAssumption DEF TypeOK, AwaitCall

LEMMA EntryEndsType ==
  ASSUME TypeOK, NEW r \in Things, NEW exception, EntryEnds(r, exception)
  PROVE  /\ closed' \in SUBSET Things /\ hushed' \in SUBSET Things
         /\ pos' \in Nat \ {0}
         /\ phase' \in Phases /\ failed' \in SUBSET (1 .. NumClasses)
<1>1. /\ pos \in Nat \ {0} /\ pos + 1 \in Nat \ {0} /\ phase \in Phases
      /\ class \in 1 .. NumClasses /\ failed \in SUBSET (1 .. NumClasses)
      /\ closed \in SUBSET Things /\ hushed \in SUBSET Things
  BY DEF TypeOK, Phases
<1>2. CASE Suppressed(exception)
  BY <1>1, <1>2 DEF EntryEnds, Hush
<1>3. CASE ~Suppressed(exception)
  BY <1>1, <1>3 DEF EntryEnds, Abandon, Phases
<1> QED
  BY <1>2, <1>3

LEMMA RegisterType ==
  ASSUME TypeOK, NEW r \in Things, Register(r)
  PROVE  /\ list' \in Seq(Things) /\ users' \in Seq(Things)
         /\ stack' \in Seq(Things)
BY PushFacts, AppendFacts DEF TypeOK, Register, Push

LEMMA AtEntryFacts ==
  ASSUME TypeOK, NEW r, AtEntry(r)
  PROVE  /\ phase = "list" /\ waiting = Nothing
         /\ pos \in 1 .. Len(list) /\ r = list[pos] /\ r \in Things
         /\ pos + 1 \in Nat \ {0}
<1>1. list \in Seq(Things) /\ pos \in Nat \ {0} /\ Len(list) \in Nat
  BY DEF TypeOK
<1>2. pos \in 1 .. Len(list)
  BY <1>1 DEF AtEntry
<1> QED
  BY <1>1, <1>2 DEF AtEntry

\* The users a class goes through are all, or none.
LEMMA ClearedFacts ==
  ASSUME TypeOK
  PROVE  /\ Cleared \in Seq(Things) /\ Len(Cleared) \in Nat
         /\ ToSet(Cleared) \subseteq ToSet(users)
         /\ UNCHANGED <<class, users>> => Cleared' = Cleared
<1>1. /\ users \in Seq(Things) /\ <<>> \in Seq(Things)
      /\ Len(users) \in Nat /\ Len(<<>>) = 0 /\ ToSet(<<>>) = {}
  BY DEF TypeOK, ToSet
<1> QED
  BY <1>1 DEF Cleared

LEMMA UserFacts ==
  ASSUME TypeOK, pos <= Len(Cleared)
  PROVE  pos \in 1 .. Len(Cleared) /\ Cleared[pos] \in Things
<1>1. Cleared \in Seq(Things) /\ pos \in Nat \ {0} /\ Len(Cleared) \in Nat
  BY ClearedFacts DEF TypeOK
<1> QED
  BY <1>1

LEMMA StepTypeOK == TypeOK /\ [Next]_vars => TypeOK'
<1> SUFFICES ASSUME TypeOK, [Next]_vars PROVE TypeOK'
  OBVIOUS
<1>1. ASSUME NEW r \in Things, Create(r) PROVE TypeOK'
  BY <1>1, RegisterType DEF Create, TypeOK
<1>2. ASSUME NEW r \in Things, CreateFails(r) PROVE TypeOK'
  <2>1. faults' \in 0 .. MaxFaults
    BY <1>2, ClassTeardownAssumption DEF CreateFails, TypeOK
  <2>2. phase' \in Phases
    BY <1>2 DEF CreateFails, After, Phases
  <2>3. /\ list' \in Seq(Things) /\ users' \in Seq(Things)
        /\ stack' \in Seq(Things)
    BY <1>2, RegisterType DEF CreateFails, TypeOK
  <2>4. cloud' \in [Things -> {"absent", "here", "deleting", "stuck", "gone"}]
    BY <1>2 DEF CreateFails, TypeOK
  <2>5. /\ failed' \in SUBSET (1 .. NumClasses) /\ pos' = 1
        /\ UNCHANGED <<class, closed, waiting, skipped, hushed>>
    BY <1>2 DEF CreateFails, TypeOK
  <2> QED
    BY <2>1, <2>2, <2>3, <2>4, <2>5 DEF TypeOK, Phases
<1>3. CASE SetupDone \/ TestsEnd \/ UsersDone \/ ListDone \/ StackDone
  <2>1. /\ phase' \in Phases /\ pos' \in Nat \ {0}
        /\ UNCHANGED <<class, cloud, list, users, stack, closed, waiting,
                       failed, skipped, hushed, faults>>
    BY <1>3
    DEF SetupDone, TestsEnd, UsersDone, ListDone, StackDone, TypeOK, Phases
  <2> QED
    BY <2>1 DEF TypeOK, Phases
<1>4. CASE DeleteUser
  <2>1. Cleared[pos] \in Things
    BY <1>4, UserFacts DEF DeleteUser
  <2>2. PICK answer \in Harmless \cup Exceptions :
          /\ DeleteCall(Cleared[pos], answer)
          /\ IF Suppressed(answer)
               THEN /\ pos' = pos + 1 /\ Hush(Cleared[pos], answer)
                    /\ UNCHANGED <<phase, failed>>
               ELSE Abandon /\ UNCHANGED <<pos, hushed>>
    BY <1>4 DEF DeleteUser
  <2>3. /\ cloud' \in [Things -> {"absent", "here", "deleting", "stuck", "gone"}]
        /\ faults' \in 0 .. MaxFaults
    BY <2>1, <2>2, DeleteCallType
  <2>4. /\ pos' \in Nat \ {0} /\ phase' \in Phases
        /\ failed' \in SUBSET (1 .. NumClasses)
    <3>0. /\ pos \in Nat \ {0} /\ pos + 1 \in Nat \ {0} /\ phase \in Phases
          /\ class \in 1 .. NumClasses /\ failed \in SUBSET (1 .. NumClasses)
      BY DEF TypeOK, Phases
    <3>1. CASE Suppressed(answer)
      BY <2>2, <3>0, <3>1
    <3>2. CASE ~Suppressed(answer)
      BY <2>2, <3>0, <3>2 DEF Abandon, Phases
    <3> QED
      BY <3>1, <3>2
  <2>5. hushed' \in SUBSET Things
    BY <2>1, <2>2 DEF Hush, TypeOK
  <2> QED
    BY <1>4, <2>3, <2>4, <2>5 DEF DeleteUser, Phases, TypeOK
<1>5. CASE SkipEntry
  BY <1>5, AtEntryFacts DEF SkipEntry, TypeOK
<1>6. CASE DeleteEntry
  <2>1. PICK r \in Things \ closed, answer \in Harmless \cup Exceptions :
          /\ AtEntry(r) /\ DeleteCall(r, answer)
          /\ \/ /\ answer = "none" /\ waiting' = r
                /\ UNCHANGED <<phase, closed, pos, failed, hushed>>
             \/ /\ answer # "none" /\ EntryEnds(r, answer)
                /\ UNCHANGED waiting
    BY <1>6 DEF DeleteEntry
  <2>2. /\ cloud' \in [Things -> {"absent", "here", "deleting", "stuck", "gone"}]
        /\ faults' \in 0 .. MaxFaults
    BY <2>1, DeleteCallType
  <2>3. CASE EntryEnds(r, answer) /\ UNCHANGED waiting
    BY <1>6, <2>2, <2>3, EntryEndsType DEF DeleteEntry, TypeOK, Phases
  <2>4. CASE waiting' = r /\ UNCHANGED <<phase, closed, pos, failed, hushed>>
    BY <1>6, <2>2, <2>4 DEF DeleteEntry, TypeOK
  <2> QED
    BY <2>1, <2>3, <2>4
<1>7. CASE AwaitEntry
  <2>1. waiting \in Things
    BY <1>7 DEF AwaitEntry, TypeOK
  <2>2. PICK outcome \in Harmless \cup Exceptions :
          AwaitCall(waiting, outcome) /\ EntryEnds(waiting, outcome)
    BY <1>7 DEF AwaitEntry
  <2>3. faults' \in 0 .. MaxFaults
    BY <2>1, <2>2, AwaitCallType
  <2> QED
    BY <1>7, <2>1, <2>2, <2>3, EntryEndsType DEF AwaitEntry, TypeOK, Phases
<1>8. CASE CallBack
  <2>1. /\ Head(stack) \in Things /\ Tail(stack) \in Seq(Things)
        /\ stack' = Tail(stack)
    BY <1>8, TailFacts DEF CallBack, TypeOK
  <2>2. PICK answer \in Harmless \cup Exceptions :
          /\ DeleteCall(Head(stack), answer)
          /\ (waiting' = Head(stack) /\ UNCHANGED failed)
               \/ (Keep(answer) /\ UNCHANGED waiting)
    BY <1>8 DEF CallBack
  <2>3. /\ cloud' \in [Things -> {"absent", "here", "deleting", "stuck", "gone"}]
        /\ faults' \in 0 .. MaxFaults
    BY <2>1, <2>2, DeleteCallType
  <2> QED
    BY <1>8, <2>1, <2>2, <2>3 DEF CallBack, Keep, TypeOK
<1>9. CASE AwaitCallBack
  <2>1. PICK outcome \in Harmless \cup Exceptions :
          AwaitCall(waiting, outcome) /\ Keep(outcome)
    BY <1>9 DEF AwaitCallBack
  <2>2. waiting \in Things
    BY <1>9 DEF AwaitCallBack, TypeOK
  <2>3. faults' \in 0 .. MaxFaults
    BY <2>1, <2>2, AwaitCallType
  <2> QED
    BY <1>9, <2>1, <2>3 DEF AwaitCallBack, Keep, TypeOK
<1>10. CASE NextClass
  BY <1>10, ClassTeardownAssumption DEF NextClass, TypeOK
<1>11. CASE Manila
  <2>1. PICK r \in Things :
          /\ cloud' \in {[cloud EXCEPT ![r] = "gone"], [cloud EXCEPT ![r] = "stuck"]}
          /\ faults' = faults \/ (faults < MaxFaults /\ faults' = faults + 1)
    BY <1>11 DEF Manila
  <2>2. cloud' \in [Things -> {"absent", "here", "deleting", "stuck", "gone"}]
    BY <2>1 DEF TypeOK
  <2>3. faults' \in 0 .. MaxFaults
    BY <2>1, ClassTeardownAssumption DEF TypeOK
  <2> QED
    BY <1>11, <2>2, <2>3 DEF Manila, TypeOK
<1>12. CASE SkipClass
  <2>1. /\ phase' \in Phases /\ failed' \in SUBSET (1 .. NumClasses)
        /\ skipped' \in SUBSET (1 .. NumClasses) /\ pos' = 1
        /\ UNCHANGED <<class, cloud, list, users, stack, closed, waiting, hushed,
                       faults>>
    BY <1>12 DEF SkipClass, TypeOK, Phases
  <2> QED
    BY <2>1 DEF TypeOK, Phases
<1>13. CASE UNCHANGED vars
  BY <1>13 DEF vars, TypeOK
<1> QED
  BY <1>1, <1>2, <1>3, <1>4, <1>5, <1>6, <1>7, <1>8, <1>9, <1>10, <1>11,
     <1>12, <1>13
  DEF Next, Worker

-----------------------------------------------------------------------------
(* What the actions come to.                                               *)

AliveNext(x) == cloud'[x] \in {"here", "deleting", "stuck"}

\* Requests and time make nothing, and revive nothing.
Declines ==
  \A x \in Things : /\ cloud[x] # "absent" => cloud'[x] # "absent"
                    /\ AliveNext(x) => Alive(x)

LEMMA DeleteCallDeclines ==
  ASSUME TypeOK, NEW r \in Things, NEW answer, DeleteCall(r, answer)
  PROVE  /\ Declines
         /\ answer \in Harmless /\ Place[r] \in {"users", "raw"} => ~AliveNext(r)
         /\ answer = "not_found" => ~AliveNext(r)
<1>1. CASE Alive(r) /\ ~InUse(r) /\ answer = "none"
           /\ cloud' = [cloud EXCEPT ![r] =
                    IF Place[r] \in {"users", "raw"} THEN "gone" ELSE "deleting"]
  BY <1>1 DEF Declines, AliveNext, Alive, TypeOK
<1>2. CASE cloud' = cloud /\ (answer = "not_found" => ~Alive(r)) /\ answer # "none"
  BY <1>2 DEF Declines, AliveNext, Alive, Harmless
<1> QED
  BY <1>1, <1>2 DEF DeleteCall

LEMMA AwaitCallDeclines ==
  ASSUME TypeOK, NEW r \in Things, NEW outcome \in Harmless \cup Exceptions,
         AwaitCall(r, outcome), cloud' = cloud
  PROVE  Declines /\ (outcome \in Harmless => ~AliveNext(r))
BY DEF AwaitCall, Declines, AliveNext, Alive, Harmless, Exceptions

LEMMA ManilaDeclines ==
  ASSUME TypeOK, Manila
  PROVE  /\ Declines
         /\ UNCHANGED <<class, phase, list, users, stack, closed, pos, waiting,
                        failed, hushed>>
BY DEF Manila, Declines, AliveNext, Alive, TypeOK

LEMMA CreateFacts ==
  ASSUME TypeOK, NEW r \in Things, Create(r) \/ CreateFails(r)
  PROVE  /\ phase \in {"clients", "tests"}
         /\ cloud[r] = "absent" /\ ClassOf[r] = class
         /\ \A y \in Needs[r] \cup Owners[r] : cloud[y] # "absent"
         /\ \A y \in Things : y # r => cloud'[y] = cloud[y]
         /\ UNCHANGED <<class, closed, waiting, hushed>>
         /\ \/ UNCHANGED <<list, users, stack>>
            \/ cloud'[r] = "here" /\ Register(r)
<1>1. /\ Creatable(r) /\ UNCHANGED <<class, closed, waiting, hushed>>
      /\ cloud' \in {cloud, [cloud EXCEPT ![r] = "here"]}
      /\ \/ UNCHANGED <<list, users, stack>>
         \/ cloud' = [cloud EXCEPT ![r] = "here"] /\ Register(r)
  BY DEF Create, CreateFails
<1> QED
  BY <1>1 DEF TypeOK, Creatable, Here

LEMMA DeleteUserFacts ==
  ASSUME TypeOK, Grounded, DeleteUser
  PROVE  /\ phase = "users" /\ pos \in 1 .. Len(Cleared) /\ Declines
         /\ UNCHANGED <<class, list, users, stack, closed, waiting>>
         /\ hushed \subseteq hushed' /\ failed \subseteq failed'
         /\ \/ /\ phase' = "users" /\ pos' = pos + 1
               /\ Cleared[pos] \in hushed' \/ ~AliveNext(Cleared[pos])
            \/ phase' = "end" /\ class \in failed'
<1>1. pos \in 1 .. Len(Cleared) /\ Cleared[pos] \in Things
  BY UserFacts DEF DeleteUser
<1>2. PICK answer \in Harmless \cup Exceptions :
        /\ DeleteCall(Cleared[pos], answer)
        /\ IF Suppressed(answer)
             THEN /\ pos' = pos + 1 /\ Hush(Cleared[pos], answer)
                  /\ UNCHANGED <<phase, failed>>
             ELSE Abandon /\ UNCHANGED <<pos, hushed>>
  BY DEF DeleteUser
<1>3. Place[Cleared[pos]] = "users"
  BY <1>1, ClearedFacts, RegisterFacts DEF Grounded
<1>4. Declines /\ (answer \in Harmless => ~AliveNext(Cleared[pos]))
  BY <1>1, <1>2, <1>3, DeleteCallDeclines
<1>5. /\ phase = "users"
      /\ UNCHANGED <<class, list, users, stack, closed, waiting>>
  BY DEF DeleteUser
<1>6. CASE Suppressed(answer)
  BY <1>1, <1>2, <1>4, <1>5, <1>6 DEF Hush
<1>7. CASE ~Suppressed(answer)
  BY <1>1, <1>2, <1>4, <1>5, <1>7 DEF Abandon
<1> QED
  BY <1>6, <1>7

LEMMA EntryEndsFacts ==
  ASSUME NEW r \in Things, NEW exception, EntryEnds(r, exception),
         exception \in Harmless => ~AliveNext(r)
  PROVE  /\ hushed \subseteq hushed' /\ failed \subseteq failed'
         /\ closed' \in {closed, closed \cup {r}}
         /\ \/ /\ phase' = phase /\ pos' = pos + 1 /\ closed' = closed \cup {r}
               /\ r \in hushed' \/ ~AliveNext(r)
            \/ phase' = "end" /\ class \in failed'
<1>1. CASE Suppressed(exception)
  BY <1>1 DEF EntryEnds, Hush
<1>2. CASE ~Suppressed(exception)
  BY <1>2 DEF EntryEnds, Abandon
<1> QED
  BY <1>1, <1>2

LEMMA EntryFacts ==
  ASSUME TypeOK, Waits, DeleteEntry \/ AwaitEntry
  PROVE  /\ phase = "list" /\ pos \in 1 .. Len(list) /\ list[pos] \in Things
         /\ Declines
         /\ UNCHANGED <<class, list, users, stack>>
         /\ hushed \subseteq hushed' /\ failed \subseteq failed'
         /\ closed' \in {closed, closed \cup {list[pos]}}
         /\ \/ waiting' = list[pos] /\ UNCHANGED <<phase, pos, closed>>
            \/ /\ waiting' = Nothing /\ phase' = phase /\ pos' = pos + 1
               /\ closed' = closed \cup {list[pos]}
               /\ list[pos] \in hushed' \/ ~AliveNext(list[pos])
            \/ waiting' = Nothing /\ phase' = "end" /\ class \in failed'
<1>1. CASE DeleteEntry
  <2>1. PICK r \in Things \ closed, answer \in Harmless \cup Exceptions :
          /\ AtEntry(r) /\ DeleteCall(r, answer)
          /\ \/ /\ answer = "none" /\ waiting' = r
                /\ UNCHANGED <<phase, closed, pos, failed, hushed>>
             \/ /\ answer # "none" /\ EntryEnds(r, answer)
                /\ UNCHANGED waiting
    BY <1>1 DEF DeleteEntry
  <2>2. /\ phase = "list" /\ waiting = Nothing
        /\ pos \in 1 .. Len(list) /\ r = list[pos]
    BY <2>1, AtEntryFacts
  <2>3. Declines /\ (answer = "not_found" => ~AliveNext(r))
    BY <2>1, DeleteCallDeclines
  <2>4. UNCHANGED <<class, list, users, stack>>
    BY <1>1 DEF DeleteEntry
  <2>5. CASE answer = "none"
    BY <2>1, <2>2, <2>3, <2>4, <2>5
  <2>6. CASE answer # "none"
    <3>1. answer \in Harmless => ~AliveNext(r)
      BY <2>3, <2>6 DEF Harmless
    <3>2. EntryEnds(r, answer) /\ waiting' = Nothing
      BY <2>1, <2>2, <2>6
    <3> QED
      BY <2>1, <2>2, <2>3, <2>4, <3>1, <3>2, EntryEndsFacts
  <2> QED
    BY <2>5, <2>6
<1>2. CASE AwaitEntry
  <2>1. /\ phase = "list" /\ waiting # Nothing /\ waiting' = Nothing
        /\ UNCHANGED <<class, cloud, list, users, stack>>
    BY <1>2 DEF AwaitEntry
  <2>2. pos \in 1 .. Len(list) /\ waiting = list[pos] /\ waiting \in Things
    BY <2>1 DEF Waits, TypeOK
  <2>3. PICK outcome \in Harmless \cup Exceptions :
          AwaitCall(waiting, outcome) /\ EntryEnds(waiting, outcome)
    BY <1>2 DEF AwaitEntry
  <2>4. Declines /\ (outcome \in Harmless => ~AliveNext(waiting))
    BY <2>1, <2>2, <2>3, AwaitCallDeclines
  <2> QED
    BY <2>1, <2>2, <2>3, <2>4, EntryEndsFacts
<1> QED
  BY <1>1, <1>2

LEMMA CallBackFacts ==
  ASSUME TypeOK, CallBack \/ AwaitCallBack
  PROVE  /\ phase = "stack" /\ Declines
         /\ UNCHANGED <<class, phase, list, users, closed, pos, hushed>>
         /\ failed' \in {failed, failed \cup {class}}
         /\ \/ /\ stack # <<>> /\ stack' = Tail(stack) /\ waiting = Nothing
               /\ \/ waiting' = Head(stack)
                  \/ /\ waiting' = Nothing
                     /\ class \in failed' \/ ~AliveNext(Head(stack))
            \/ /\ stack' = stack /\ waiting' = Nothing
               /\ class \in failed' \/ ~AliveNext(waiting)
<1>1. CASE CallBack
  <2>1. /\ phase = "stack" /\ waiting = Nothing /\ stack # <<>>
        /\ stack' = Tail(stack)
        /\ UNCHANGED <<class, phase, list, users, closed, pos, hushed>>
    BY <1>1 DEF CallBack
  <2>2. Head(stack) \in Things
    BY <2>1, TailFacts DEF TypeOK
  <2>3. PICK answer \in Harmless \cup Exceptions :
          /\ DeleteCall(Head(stack), answer)
          /\ IF Place[Head(stack)] # "raw" /\ answer \in Harmless
               THEN waiting' = Head(stack) /\ UNCHANGED failed
               ELSE Keep(answer) /\ UNCHANGED waiting
    BY <1>1 DEF CallBack
  <2>4. /\ Declines
        /\ answer \in Harmless /\ Place[Head(stack)] = "raw"
             => ~AliveNext(Head(stack))
    BY <2>2, <2>3, DeleteCallDeclines
  <2>5. CASE Place[Head(stack)] # "raw" /\ answer \in Harmless
    BY <2>1, <2>3, <2>4, <2>5
  <2>6. CASE ~(Place[Head(stack)] # "raw" /\ answer \in Harmless)
    BY <2>1, <2>3, <2>4, <2>6 DEF Keep, Harmless
  <2> QED
    BY <2>5, <2>6
<1>2. CASE AwaitCallBack
  <2>1. /\ phase = "stack" /\ waiting # Nothing /\ waiting' = Nothing
        /\ UNCHANGED <<class, phase, cloud, list, users, stack, closed, pos,
                       hushed>>
    BY <1>2 DEF AwaitCallBack
  <2>2. PICK outcome \in Harmless \cup Exceptions :
          AwaitCall(waiting, outcome) /\ Keep(outcome)
    BY <1>2 DEF AwaitCallBack
  <2>3. waiting \in Things
    BY <2>1 DEF TypeOK
  <2>4. Declines /\ (outcome \in Harmless => ~AliveNext(waiting))
    BY <2>1, <2>2, <2>3, AwaitCallDeclines
  <2> QED
    BY <2>1, <2>2, <2>4 DEF Keep, Harmless
<1> QED
  BY <1>1, <1>2

\* The steps that only move on: the clouds and the registers stay as they are.
MovesOn ==
  \/ SetupDone \/ TestsEnd \/ UsersDone \/ SkipEntry \/ ListDone \/ StackDone
  \/ phase = "tests" /\ SkipClass

\* The class is skipped before resource_cleanup is there to be called.
SkipsOut == phase = "clients" /\ SkipClass

LEMMA MovesOnFacts ==
  ASSUME TypeOK, MovesOn
  PROVE  /\ UNCHANGED <<class, cloud, list, users, stack, closed, waiting,
                        failed, hushed>>
         /\ \/ phase = "clients" /\ phase' = "tests"
            \/ phase = "tests" /\ phase' = "users" /\ pos' = 1
            \/ phase = "users" /\ phase' = "list" /\ pos' = 1 /\ pos > Len(Cleared)
            \/ /\ phase = "list" /\ phase' = "list" /\ pos' = pos + 1
               /\ waiting = Nothing
               /\ pos \in 1 .. Len(list) /\ list[pos] \in closed
            \/ /\ phase = "list" /\ phase' = "stack" /\ pos > Len(list)
               /\ waiting = Nothing
            \/ /\ phase = "stack" /\ phase' = "end" /\ stack = <<>>
               /\ waiting = Nothing
<1>1. CASE SkipEntry
  BY <1>1, AtEntryFacts DEF SkipEntry
<1>2. CASE MovesOn /\ ~SkipEntry
  BY <1>2
  DEF MovesOn, SetupDone, TestsEnd, UsersDone, ListDone, StackDone, SkipClass
<1> QED
  BY <1>1, <1>2

LEMMA SkipsOutFacts ==
  ASSUME TypeOK, SkipsOut
  PROVE  /\ UNCHANGED <<class, cloud, list, users, stack, closed, waiting, hushed>>
         /\ phase = "clients" /\ phase' = "end" /\ failed' = failed \cup {class}
BY DEF SkipsOut, SkipClass

LEMMA Steps ==
  ASSUME [Next]_vars
  PROVE  \/ \E r \in Things : Create(r) \/ CreateFails(r)
         \/ MovesOn \/ SkipsOut \/ DeleteUser \/ (DeleteEntry \/ AwaitEntry)
         \/ (CallBack \/ AwaitCallBack) \/ NextClass \/ Manila
         \/ UNCHANGED vars
BY DEF Next, Worker, MovesOn, SkipsOut, SkipClass

-----------------------------------------------------------------------------
(* Preservation.                                                           *)

LEMMA StepGrounded == TypeOK /\ Grounded /\ Waits /\ [Next]_vars => Grounded'
<1> SUFFICES ASSUME TypeOK, Grounded, Waits, [Next]_vars PROVE Grounded'
  OBVIOUS
<1> DEFINE Smaller == /\ ToSet(stack') \subseteq ToSet(stack)
                      /\ closed' \subseteq ToSet(list) \cup closed
                      /\ Declines /\ UNCHANGED <<list, users>>
<1>0. /\ list \in Seq(Things) /\ users \in Seq(Things) /\ stack \in Seq(Things)
      /\ ToSet(stack) \subseteq Things /\ ToSet(list) \subseteq Things
      /\ closed \subseteq Things
      /\ Needs \in [Things -> SUBSET Things] /\ Owners \in [Things -> SUBSET Things]
  BY RegisterFacts, ClassTeardownAssumption DEF TypeOK
<1>1. ASSUME Smaller PROVE Grounded'
  BY <1>0, <1>1 DEF Grounded, Declines
<1>2. ASSUME cloud' = cloud PROVE Declines
  BY <1>2 DEF Declines, AliveNext, Alive
<1>3. ASSUME NEW r \in Things, Create(r) \/ CreateFails(r) PROVE Grounded'
  <2>1. /\ \A y \in Needs[r] \cup Owners[r] : cloud[y] # "absent"
        /\ cloud[r] = "absent" /\ closed' = closed
        /\ \A y \in Things : y # r => cloud'[y] = cloud[y]
        /\ UNCHANGED <<list, users, stack>> \/ (cloud'[r] = "here" /\ Register(r))
    BY <1>3, CreateFacts
  <2>2. \A y \in Things : cloud[y] # "absent" => cloud'[y] # "absent"
    BY <2>1
  <2>3. CASE UNCHANGED <<list, users, stack>>
    BY <1>0, <2>1, <2>2, <2>3 DEF Grounded
  <2>4. CASE cloud'[r] = "here" /\ Register(r)
    <3>1. /\ ToSet(stack') \in {ToSet(stack), {r} \cup ToSet(stack)}
          /\ \/ ToSet(list') = ToSet(list)
             \/ ToSet(list') = {r} \cup ToSet(list) /\ Place[r] = "list"
          /\ \/ ToSet(users') = ToSet(users)
             \/ ToSet(users') = ToSet(users) \cup {r} /\ Place[r] = "users"
      BY <1>0, <2>4, PushFacts, AppendFacts DEF Register, Push
    <3> QED
      BY <1>0, <2>1, <2>2, <2>4, <3>1 DEF Grounded
  <2> QED
    BY <2>1, <2>3, <2>4
<1>4. CASE MovesOn
  BY <1>1, <1>2, <1>4, MovesOnFacts
<1>5. CASE DeleteUser
  BY <1>1, <1>5, DeleteUserFacts
<1>6. CASE DeleteEntry \/ AwaitEntry
  <2>1. list[pos] \in ToSet(list)
    BY <1>0, <1>6, EntryFacts, RegisterFacts
  <2> QED
    BY <1>1, <1>6, <2>1, EntryFacts
<1>7. CASE CallBack \/ AwaitCallBack
  <2>1. ToSet(stack') \subseteq ToSet(stack)
    BY <1>0, <1>7, CallBackFacts, TailFacts
  <2> QED
    BY <1>1, <1>7, <2>1, CallBackFacts
<1>8. CASE NextClass
  <2>1. ToSet(<<>>) = {}
    BY DEF ToSet
  <2> QED
    BY <1>1, <1>2, <1>8, <2>1 DEF NextClass
<1>9. CASE Manila
  BY <1>1, <1>9, ManilaDeclines
<1>10. CASE SkipsOut
  BY <1>1, <1>2, <1>10, SkipsOutFacts
<1>11. CASE UNCHANGED vars
  BY <1>1, <1>2, <1>11 DEF vars
<1> QED
  BY <1>3, <1>4, <1>5, <1>6, <1>7, <1>8, <1>9, <1>10, <1>11, Steps

LEMMA StepStacked == TypeOK /\ Grounded /\ Stacked /\ Waits /\ [Next]_vars => Stacked'
<1> SUFFICES ASSUME TypeOK, Grounded, Stacked, Waits, [Next]_vars PROVE Stacked'
  OBVIOUS
<1>0. stack \in Seq(Things)
  BY DEF TypeOK
<1>1. ASSUME stack' = stack PROVE Stacked'
  BY <1>1 DEF Stacked
<1>2. ASSUME NEW r \in Things, Create(r) \/ CreateFails(r), stack' # stack
      PROVE  Stacked'
  <2>1. cloud[r] = "absent" /\ stack' = <<r>> \o stack
    BY <1>2, CreateFacts DEF Register, Push
  <2> DEFINE t == <<r>> \o stack
  <2>2. /\ t[1] = r /\ Len(stack) \in Nat
        /\ \A i \in 1 .. Len(t) :
             i = 1 \/ (i - 1 \in 1 .. Len(stack) /\ t[i] = stack[i - 1])
        /\ ToSet(stack) = {stack[i] : i \in 1 .. Len(stack)}
        /\ Len(t) = Len(stack) + 1
    BY <1>0, PushFacts, RegisterFacts
  <2> HIDE DEF t
  <2>3. ASSUME NEW i \in 1 .. Len(t), NEW j \in 1 .. Len(t), i < j
        PROVE  t[i] \notin Needs[t[j]] \cup Owners[t[j]]
    <3>1. j - 1 \in 1 .. Len(stack) /\ t[j] = stack[j - 1]
      BY <2>2, <2>3
    <3>2. CASE i = 1
      BY <2>1, <2>2, <3>1, <3>2 DEF Grounded
    <3>3. CASE i # 1
      <4>1. i - 1 \in 1 .. Len(stack) /\ t[i] = stack[i - 1] /\ i - 1 < j - 1
        BY <2>2, <2>3, <3>3
      <4> QED
        BY <3>1, <4>1 DEF Stacked
    <3> QED
      BY <3>2, <3>3
  <2>4. stack' = t
    BY <2>1 DEF t
  <2> QED
    BY <2>3, <2>4 DEF Stacked
<1>3. ASSUME stack # <<>>, stack' = Tail(stack) PROVE Stacked'
  <2> DEFINE t == Tail(stack)
  <2>1. \A i \in 1 .. Len(t) : t[i] = stack[i + 1] /\ i + 1 \in 1 .. Len(stack)
    BY <1>0, <1>3, TailFacts
  <2>2. Len(t) \in Nat
    BY <1>0, <1>3, TailFacts
  <2> HIDE DEF t
  <2>3. ASSUME NEW i \in 1 .. Len(t), NEW j \in 1 .. Len(t), i < j
        PROVE  t[i] \notin Needs[t[j]] \cup Owners[t[j]]
    <3>1. i + 1 < j + 1
      BY <2>2, <2>3
    <3> QED
      BY <2>1, <3>1 DEF Stacked
  <2>4. stack' = t
    BY <1>3 DEF t
  <2> QED
    BY <2>3, <2>4 DEF Stacked
<1>4. CASE NextClass
  <2>1. stack' = <<>> /\ Len(<<>>) = 0
    BY <1>4 DEF NextClass
  <2> QED
    BY <2>1 DEF Stacked
<1>5. \/ stack' = stack \/ (stack # <<>> /\ stack' = Tail(stack)) \/ NextClass
      \/ \E r \in Things : Create(r) \/ CreateFails(r)
  BY Steps, MovesOnFacts, SkipsOutFacts, DeleteUserFacts, EntryFacts,
     CallBackFacts, ManilaDeclines
  DEF vars
<1> QED
  BY <1>1, <1>2, <1>3, <1>4, <1>5

LEMMA StepWaits == TypeOK /\ Grounded /\ Waits /\ [Next]_vars => Waits'
<1> SUFFICES ASSUME TypeOK, Grounded, Waits, [Next]_vars PROVE Waits'
  OBVIOUS
<1>1. ASSUME NEW r \in Things, Create(r) \/ CreateFails(r) PROVE Waits'
  <2>1. phase \in {"clients", "tests"} /\ waiting' = waiting
    BY <1>1, CreateFacts
  <2>2. waiting' = Nothing
    BY <2>1 DEF Waits
  <2> QED
    BY <2>2 DEF Waits
<1>2. CASE MovesOn
  <2>1. waiting = Nothing /\ waiting' = waiting
    BY <1>2, MovesOnFacts DEF Waits
  <2> QED
    BY <2>1 DEF Waits
<1>3. CASE DeleteUser
  <2>1. waiting = Nothing /\ waiting' = waiting
    BY <1>3, DeleteUserFacts DEF Waits
  <2> QED
    BY <2>1 DEF Waits
<1>4. CASE DeleteEntry \/ AwaitEntry
  <2>1. \/ waiting' = Nothing
        \/ /\ phase' = "list" /\ waiting' = list[pos] /\ pos' = pos /\ list' = list
           /\ pos \in 1 .. Len(list)
    BY <1>4, EntryFacts
  <2> QED
    BY <2>1 DEF Waits
<1>5. CASE CallBack \/ AwaitCallBack
  <2>1. phase' = "stack"
    BY <1>5, CallBackFacts
  <2> QED
    BY <2>1 DEF Waits
<1>6. CASE NextClass \/ Manila \/ UNCHANGED vars
  <2>1. \/ UNCHANGED <<phase, waiting, pos, list>>
        \/ waiting' = Nothing
    BY <1>6, ManilaDeclines DEF NextClass, vars, Waits
  <2> QED
    BY <2>1 DEF Waits
<1>7. CASE SkipsOut
  <2>1. waiting' = Nothing
    BY <1>7, SkipsOutFacts DEF Waits
  <2> QED
    BY <2>1 DEF Waits
<1> QED
  BY <1>1, <1>2, <1>3, <1>4, <1>5, <1>6, <1>7, Steps

LEMMA StepListSeen == IInv /\ [Next]_vars => ListSeen'
<1> SUFFICES ASSUME IInv, [Next]_vars PROVE ListSeen'
  OBVIOUS
<1>0. /\ TypeOK /\ Grounded /\ Waits /\ ListSeen
      /\ list \in Seq(Things) /\ Len(list) \in Nat /\ pos \in Nat \ {0}
  BY DEF IInv, TypeOK
<1>1. ASSUME phase' \in {"clients", "tests", "users"} \/ (phase' = "end" /\ class' \in failed')
      PROVE  ListSeen'
  BY <1>1 DEF ListSeen
<1>2. ASSUME UNCHANGED <<class, phase, list, closed, pos>>, failed \subseteq failed'
      PROVE  ListSeen'
  BY <1>0, <1>2 DEF ListSeen
<1>3. ASSUME NEW r \in Things, Create(r) \/ CreateFails(r) PROVE ListSeen'
  <2>1. \/ phase' \in {"clients", "tests", "users"}
        \/ phase' = "end" /\ class' \in failed'
    BY <1>3 DEF Create, CreateFails, Creatable, After
  <2> QED
    BY <1>1, <2>1
<1>4. ASSUME phase = "list", phase' = "list", pos' = pos + 1, list' = list,
             closed \subseteq closed', list[pos] \in closed'
      PROVE  ListSeen'
  <2>1. \A i \in 1 .. Len(list) : i < pos + 1 => i < pos \/ i = pos
    BY <1>0
  <2>2. \A i \in 1 .. Len(list) : i < pos + 1 => list[i] \in closed'
    BY <1>0, <1>4, <2>1 DEF ListSeen
  <2> QED
    BY <1>4, <2>2 DEF ListSeen
<1>5. CASE MovesOn
  <2>0. UNCHANGED <<class, list, closed, failed>>
    BY <1>0, <1>5, MovesOnFacts
  <2>1. CASE phase' \in {"tests", "users"}
    BY <1>1, <2>1
  <2>2. CASE phase' = "list" /\ pos' = 1
    BY <1>0, <2>2 DEF ListSeen
  <2>3. CASE phase = "list" /\ phase' = "list" /\ pos' = pos + 1
             /\ list[pos] \in closed
    BY <1>4, <2>0, <2>3
  <2>4. CASE phase = "list" /\ phase' = "stack" /\ pos > Len(list)
    <3>1. \A i \in 1 .. Len(list) : list[i] \in closed
      BY <1>0, <2>4 DEF ListSeen
    <3> QED
      BY <2>0, <2>4, <3>1 DEF ListSeen
  <2>5. CASE phase = "stack" /\ phase' = "end"
    BY <1>0, <2>0, <2>5 DEF ListSeen
  <2> QED
    BY <1>0, <1>5, <2>1, <2>2, <2>3, <2>4, <2>5, MovesOnFacts
<1>6. CASE DeleteUser
  <2>1. \/ phase' = "users" \/ (phase' = "end" /\ class' \in failed')
    BY <1>0, <1>6, DeleteUserFacts
  <2> QED
    BY <1>1, <2>1
<1>7. CASE DeleteEntry \/ AwaitEntry
  <2>1. /\ phase = "list" /\ UNCHANGED <<class, list>>
        /\ failed \subseteq failed'
        /\ closed' \in {closed, closed \cup {list[pos]}}
        /\ \/ UNCHANGED <<phase, pos, closed>>
           \/ phase' = phase /\ pos' = pos + 1 /\ closed' = closed \cup {list[pos]}
           \/ phase' = "end" /\ class \in failed'
    BY <1>0, <1>7, EntryFacts
  <2> QED
    BY <1>1, <1>2, <1>4, <2>1
<1>8. CASE CallBack \/ AwaitCallBack
  <2>1. /\ UNCHANGED <<class, phase, list, closed, pos>>
        /\ failed \subseteq failed'
    BY <1>0, <1>8, CallBackFacts
  <2> QED
    BY <1>2, <2>1
<1>9. CASE NextClass
  BY <1>1, <1>9 DEF NextClass
<1>10. CASE Manila \/ UNCHANGED vars
  BY <1>0, <1>2, <1>10, ManilaDeclines DEF vars
<1>11. CASE SkipsOut
  BY <1>0, <1>1, <1>11, SkipsOutFacts
<1> QED
  BY <1>3, <1>5, <1>6, <1>7, <1>8, <1>9, <1>10, <1>11, Steps

LEMMA StepUsersSeen == IInv /\ [Next]_vars => UsersSeen'
<1> SUFFICES ASSUME IInv, [Next]_vars PROVE UsersSeen'
  OBVIOUS
<1>0. /\ TypeOK /\ Grounded /\ Waits /\ UsersSeen
      /\ Len(Cleared) \in Nat /\ pos \in Nat \ {0}
      /\ \A i \in 1 .. Len(Cleared) : Cleared[i] \in Things
  BY ClearedFacts DEF IInv, TypeOK
<1> DEFINE After1(x) == x \in hushed' \/ ~AliveNext(x)
<1>1. ASSUME phase' \in {"clients", "tests"} \/ (phase' = "end" /\ class' \in failed')
      PROVE  UsersSeen'
  BY <1>1 DEF UsersSeen
<1>2. ASSUME Declines, hushed \subseteq hushed'
      PROVE  \A i \in 1 .. Len(Cleared) : Settled(Cleared[i]) => After1(Cleared[i])
  BY <1>0, <1>2 DEF Declines, Settled
<1>3. ASSUME UNCHANGED <<class, users>>,
             phase' = "users" =>
               \A i \in 1 .. Len(Cleared) : i < pos' => After1(Cleared[i]),
             phase' \in {"list", "stack"} \/ (phase' = "end" /\ class' \notin failed') =>
               \A i \in 1 .. Len(Cleared) : After1(Cleared[i])
      PROVE  UsersSeen'
  <2>1. Cleared' = Cleared
    BY <1>0, <1>3, ClearedFacts
  <2> QED
    BY <1>3, <2>1 DEF UsersSeen, Settled, AliveNext, Alive
<1>4. ASSUME UNCHANGED <<class, phase, users>>, pos' = pos \/ phase' # "users",
             Declines, hushed \subseteq hushed', failed \subseteq failed'
      PROVE  UsersSeen'
  BY <1>0, <1>2, <1>3, <1>4 DEF UsersSeen
<1>5. ASSUME cloud' = cloud PROVE Declines
  BY <1>5 DEF Declines, AliveNext, Alive
<1>6. ASSUME NEW r \in Things, Create(r) \/ CreateFails(r) PROVE UsersSeen'
  <2>1. \/ phase' \in {"clients", "tests"}
        \/ phase' = "users" /\ pos' = 1
        \/ phase' = "end" /\ class' \in failed'
    BY <1>6 DEF Create, CreateFails, Creatable, After
  <2>2. CASE phase' = "users" /\ pos' = 1
    BY <2>2 DEF UsersSeen
  <2> QED
    BY <1>1, <2>1, <2>2
<1>7. CASE MovesOn
  <2>0. /\ UNCHANGED <<class, cloud, users, failed, hushed>> /\ Declines
    BY <1>0, <1>5, <1>7, MovesOnFacts
  <2>1. CASE phase' = "tests"
    BY <1>1, <2>1
  <2>2. CASE phase' = "users" /\ pos' = 1
    BY <2>2 DEF UsersSeen
  <2>3. CASE phase = "users" /\ phase' = "list" /\ pos > Len(Cleared)
    <3>1. \A i \in 1 .. Len(Cleared) : Settled(Cleared[i])
      BY <1>0, <2>3 DEF UsersSeen
    <3> QED
      BY <1>2, <1>3, <2>0, <2>3, <3>1
  <2>4. CASE phase \in {"list", "stack"} /\ phase' \in {"list", "stack", "end"}
    <3>1. \A i \in 1 .. Len(Cleared) : Settled(Cleared[i])
      BY <1>0, <2>4 DEF UsersSeen
    <3> QED
      BY <1>2, <1>3, <2>0, <2>4, <3>1
  <2> QED
    BY <1>0, <1>7, <2>1, <2>2, <2>3, <2>4, MovesOnFacts
<1>8. CASE DeleteUser
  <2>1. /\ phase = "users" /\ pos \in 1 .. Len(Cleared) /\ Declines
        /\ UNCHANGED <<class, users>> /\ hushed \subseteq hushed'
        /\ \/ phase' = "users" /\ pos' = pos + 1 /\ After1(Cleared[pos])
           \/ phase' = "end" /\ class \in failed'
    BY <1>0, <1>8, DeleteUserFacts
  <2>2. CASE phase' = "users" /\ pos' = pos + 1 /\ After1(Cleared[pos])
    <3>1. \A i \in 1 .. Len(Cleared) : i < pos + 1 => i < pos \/ i = pos
      BY <1>0
    <3>2. \A i \in 1 .. Len(Cleared) : i < pos => After1(Cleared[i])
      BY <1>0, <1>2, <2>1 DEF UsersSeen
    <3>3. \A i \in 1 .. Len(Cleared) : i < pos' => After1(Cleared[i])
      BY <2>2, <3>1, <3>2
    <3> QED
      BY <1>3, <2>1, <2>2, <3>3
  <2> QED
    BY <1>1, <2>1, <2>2
<1>9. CASE DeleteEntry \/ AwaitEntry
  <2>1. /\ phase = "list" /\ Declines /\ UNCHANGED <<class, users>>
        /\ hushed \subseteq hushed' /\ failed \subseteq failed'
        /\ phase' = "list" \/ (phase' = "end" /\ class \in failed')
    BY <1>0, <1>9, EntryFacts
  <2> QED
    BY <1>1, <1>4, <2>1
<1>10. CASE CallBack \/ AwaitCallBack
  <2>1. /\ Declines /\ UNCHANGED <<class, phase, users, pos, hushed>>
        /\ failed \subseteq failed'
    BY <1>0, <1>10, CallBackFacts
  <2> QED
    BY <1>4, <2>1
<1>11. CASE NextClass
  BY <1>1, <1>11 DEF NextClass
<1>12. CASE Manila
  BY <1>0, <1>4, <1>12, ManilaDeclines
<1>13. CASE UNCHANGED vars
  BY <1>4, <1>5, <1>13 DEF vars
<1>14. CASE SkipsOut
  BY <1>0, <1>1, <1>14, SkipsOutFacts
<1> QED
  BY <1>6, <1>7, <1>8, <1>9, <1>10, <1>11, <1>12, <1>13, <1>14, Steps

LEMMA StepAccounted == IInv /\ [Next]_vars => Accounted'
<1> SUFFICES ASSUME IInv, [Next]_vars,
                    NEW x \in Things, x \notin hushed', AliveNext(x),
                    ClassOf[x] \notin failed'
             PROVE  ClassOf[x] = class' /\ Ahead(x)'
  BY DEF Accounted, Alive, AliveNext
<1>0. /\ TypeOK /\ Grounded /\ Waits /\ ListSeen /\ Accounted
      /\ list \in Seq(Things) /\ users \in Seq(Things) /\ stack \in Seq(Things)
      /\ Nothing # x
      /\ UNCHANGED <<class, users>> => Cleared' = Cleared
  BY ClassTeardownAssumption, ClearedFacts DEF IInv, TypeOK
<1>1. ASSUME Declines, hushed \subseteq hushed', failed \subseteq failed'
      PROVE  ClassOf[x] = class /\ Ahead(x)
  <2>1. x \notin hushed /\ Alive(x) /\ ClassOf[x] \notin failed
    BY <1>1 DEF Declines
  <2> QED
    BY <1>0, <2>1 DEF Accounted
<1>2. ASSUME cloud' = cloud PROVE Declines
  BY <1>2 DEF Declines, AliveNext, Alive
<1>3. ASSUME NEW r \in Things, CreateFails(r)
      PROVE  ClassOf[x] = class' /\ Ahead(x)'
  <2>1. /\ hushed' = hushed /\ failed' = failed \cup {class} /\ class' = class
        /\ ClassOf[r] = class /\ (x # r => cloud'[x] = cloud[x])
    BY <1>0, <1>3, CreateFacts DEF CreateFails
  <2>2. x # r
    BY <2>1
  <2>3. Alive(x) /\ x \notin hushed
    BY <2>1, <2>2 DEF Alive, AliveNext
  <2>4. ClassOf[x] = class
    BY <2>1, <2>3, <1>0 DEF Accounted
  <2> QED
    BY <2>1, <2>4
<1>4. ASSUME NEW r \in Things, Create(r)
      PROVE  ClassOf[x] = class' /\ Ahead(x)'
  <2>1. /\ phase \in {"clients", "tests"} /\ cloud[r] = "absent"
        /\ ClassOf[r] = class /\ Register(r)
        /\ UNCHANGED <<class, phase, closed, waiting, hushed, failed>>
        /\ x # r => cloud'[x] = cloud[x]
    BY <1>0, <1>4, CreateFacts DEF Create
  <2>2. r \notin closed
    BY <1>0, <2>1 DEF Grounded
  <2>3. /\ ToSet(stack') = IF Place[r] \in {"stack", "waited", "raw"}
                             THEN {r} \cup ToSet(stack) ELSE ToSet(stack)
        /\ ToSet(list') = IF Place[r] = "list" THEN {r} \cup ToSet(list)
                                               ELSE ToSet(list)
        /\ ToSet(users') = IF Place[r] = "users" THEN ToSet(users) \cup {r}
                                                 ELSE ToSet(users)
    BY <1>0, <2>1, PushFacts, AppendFacts DEF Register, Push
  <2>4. Place[r] \in {"list", "users", "stack", "waited", "raw"}
    BY ClassTeardownAssumption
  <2>5. CASE x = r
    <3>1. \/ x \in ToSet(list') \ closed' \/ x \in ToSet(users')
          \/ x \in ToSet(stack')
      BY <2>1, <2>2, <2>3, <2>4, <2>5
    <3> QED
      BY <2>1, <2>5, <3>1 DEF Ahead, Pending
  <2>6. CASE x # r
    <3>1. Alive(x) /\ x \notin hushed /\ ClassOf[x] \notin failed
      BY <2>1, <2>6 DEF Alive, AliveNext
    <3>2. ClassOf[x] = class /\ Ahead(x)
      BY <1>0, <3>1 DEF Accounted
    <3>3. x \in ToSet(list) \ closed \/ x \in ToSet(users) \/ x \in ToSet(stack)
      BY <2>1, <3>2 DEF Ahead, Pending
    <3>4. x \in ToSet(list') \ closed' \/ x \in ToSet(users') \/ x \in ToSet(stack')
      BY <2>1, <2>3, <3>3
    <3> QED
      BY <2>1, <3>2, <3>4 DEF Ahead, Pending
  <2> QED
    BY <2>5, <2>6
<1>5. CASE MovesOn
  <2>1. /\ UNCHANGED <<class, cloud, list, users, stack, closed, waiting,
                       failed, hushed>>
        /\ ClassOf[x] = class /\ Ahead(x)
    BY <1>0, <1>1, <1>2, <1>5, MovesOnFacts
  <2>2. CASE phase = "clients" /\ phase' = "tests"
    BY <2>1, <2>2 DEF Ahead, Pending
  <2>3. CASE phase = "tests" /\ phase' = "users" /\ pos' = 1
    <3>1. ASSUME x \in ToSet(users)
          PROVE  \E i \in 1 .. Len(Cleared) : i >= 1 /\ Cleared[i] = x
      <4>1. Place[x] = "users"
        BY <1>0, <3>1 DEF Grounded
      <4>2. Cleared = users
        BY <2>1, <4>1, ClassTeardownAssumption DEF Cleared
      <4> QED
        BY <1>0, <3>1, <4>2, RegisterFacts
    <3> QED
      BY <1>0, <2>1, <2>3, <3>1 DEF Ahead, Pending
  <2>4. CASE phase = "users" /\ phase' = "list" /\ pos > Len(Cleared)
    <3>1. ~ \E i \in 1 .. Len(Cleared) : i >= pos /\ Cleared[i] = x
      BY <1>0, <2>4, ClearedFacts DEF TypeOK
    <3> QED
      BY <2>1, <2>4, <3>1 DEF Ahead, Pending
  <2>5. CASE phase = "list" /\ phase' = "list"
    BY <2>1, <2>5 DEF Ahead, Pending
  <2>6. CASE phase = "list" /\ phase' = "stack" /\ pos > Len(list)
    <3>1. \A i \in 1 .. Len(list) : list[i] \in closed
      BY <1>0, <2>6 DEF ListSeen, TypeOK
    <3>2. x \notin Pending
      BY <1>0, <3>1, RegisterFacts DEF Pending
    <3> QED
      BY <2>1, <2>6, <3>2 DEF Ahead
  <2>7. CASE phase = "stack" /\ stack = <<>> /\ waiting = Nothing
    <3>1. ToSet(stack) = {}
      BY <2>7 DEF ToSet
    <3> QED
      BY <1>0, <2>1, <2>7, <3>1 DEF Ahead
  <2> QED
    BY <1>0, <1>5, <2>2, <2>3, <2>4, <2>5, <2>6, <2>7, MovesOnFacts
<1>6. CASE DeleteUser
  <2>1. /\ phase = "users" /\ pos \in 1 .. Len(Cleared)
        /\ UNCHANGED <<class, list, users, stack, closed, waiting>>
        /\ \/ /\ phase' = "users" /\ pos' = pos + 1
              /\ Cleared[pos] \in hushed' \/ ~AliveNext(Cleared[pos])
           \/ phase' = "end" /\ class \in failed'
        /\ ClassOf[x] = class /\ Ahead(x)
    BY <1>0, <1>1, <1>6, DeleteUserFacts
  <2>2. /\ phase' = "users" /\ pos' = pos + 1 /\ x # Cleared[pos]
    BY <2>1
  <2>3. \A i \in 1 .. Len(Cleared) : i >= pos /\ i # pos => i >= pos + 1
    BY <1>0, <2>1
  <2> QED
    BY <1>0, <2>1, <2>2, <2>3 DEF Ahead, Pending
<1>7. CASE DeleteEntry \/ AwaitEntry
  <2>1. /\ phase = "list"
        /\ UNCHANGED <<class, list, users, stack>>
        /\ closed' \in {closed, closed \cup {list[pos]}}
        /\ \/ UNCHANGED <<phase, pos, closed>>
           \/ /\ phase' = phase
              /\ list[pos] \in hushed' \/ ~AliveNext(list[pos])
           \/ phase' = "end" /\ class \in failed'
        /\ ClassOf[x] = class /\ Ahead(x)
    BY <1>0, <1>1, <1>7, EntryFacts
  <2>2. phase' = "list" /\ (x \in Pending => x \in ToSet(list) \ closed')
    BY <2>1 DEF Pending
  <2> QED
    BY <2>1, <2>2 DEF Ahead, Pending
<1>8. CASE CallBack \/ AwaitCallBack
  <2>1. /\ phase = "stack"
        /\ UNCHANGED <<class, phase, list, users, closed, pos, hushed>>
        /\ \/ /\ stack # <<>> /\ stack' = Tail(stack) /\ waiting = Nothing
              /\ \/ waiting' = Head(stack)
                 \/ /\ waiting' = Nothing
                    /\ class \in failed' \/ ~AliveNext(Head(stack))
           \/ /\ stack' = stack /\ waiting' = Nothing
              /\ class \in failed' \/ ~AliveNext(waiting)
        /\ ClassOf[x] = class /\ Ahead(x)
    BY <1>0, <1>1, <1>8, CallBackFacts
  <2>2. x \in ToSet(stack) \/ waiting = x
    BY <2>1 DEF Ahead
  <2>3. CASE stack # <<>> /\ stack' = Tail(stack) /\ waiting = Nothing
    <3>1. x = Head(stack) \/ x \in ToSet(Tail(stack))
      BY <1>0, <2>2, <2>3, TailFacts
    <3>2. x = Head(stack) => waiting' = x
      BY <2>1, <2>3, <1>0
    <3> QED
      BY <2>1, <2>3, <3>1, <3>2 DEF Ahead
  <2>4. CASE stack' = stack /\ x # waiting
    BY <2>1, <2>2, <2>4 DEF Ahead
  <2> QED
    BY <1>0, <2>1, <2>3, <2>4
<1>9. CASE NextClass
  <2>1. Ahead(x) /\ phase = "end"
    BY <1>1, <1>2, <1>9 DEF NextClass
  <2> QED
    BY <2>1 DEF Ahead
<1>10. CASE Manila
  <2>1. /\ UNCHANGED <<class, phase, list, users, stack, closed, pos, waiting,
                       failed, hushed>>
        /\ ClassOf[x] = class /\ Ahead(x)
    BY <1>0, <1>1, <1>10, ManilaDeclines
  <2> QED
    BY <1>0, <2>1 DEF Ahead, Pending
<1>11. CASE UNCHANGED vars
  <2>1. ClassOf[x] = class /\ Ahead(x)
    BY <1>1, <1>2, <1>11 DEF vars
  <2> QED
    BY <1>0, <1>11, <2>1 DEF vars, Ahead, Pending
<1>12. CASE SkipsOut
  <2>1. /\ UNCHANGED <<class, cloud, hushed>> /\ failed' = failed \cup {class}
        /\ ClassOf[x] = class
    BY <1>0, <1>1, <1>2, <1>12, SkipsOutFacts
  <2> QED
    BY <2>1
<1> QED
  BY <1>3, <1>4, <1>5, <1>6, <1>7, <1>8, <1>9, <1>10, <1>11, <1>12, Steps

-----------------------------------------------------------------------------
(* Theorems.                                                               *)

LEMMA InitIInv == Init => IInv
<1> SUFFICES ASSUME Init PROVE IInv
  OBVIOUS
<1>1. <<>> \in Seq(Things) /\ Len(<<>>) = 0 /\ ToSet(<<>>) = {}
  BY DEF ToSet
<1>2. TypeOK
  BY <1>1, ClassTeardownAssumption DEF Init, TypeOK
<1>3. Grounded /\ Stacked /\ Waits
  BY <1>1 DEF Init, Grounded, Stacked, Waits
<1>4. ListSeen /\ UsersSeen
  BY DEF Init, ListSeen, UsersSeen
<1>5. Accounted
  BY DEF Init, Accounted, Alive
<1> QED
  BY <1>2, <1>3, <1>4, <1>5 DEF IInv

\* The strengthening that the three properties follow from.
THEOREM Inductive == Spec => []IInv
<1>1. IInv /\ [Next]_vars => IInv'
  BY StepTypeOK, StepGrounded, StepStacked, StepWaits, StepListSeen,
     StepUsersSeen, StepAccounted
  DEF IInv
<1> QED
  BY <1>1, InitIInv, PTL DEF Spec

\* The registers, the clouds and the positions keep their types.
THEOREM TypeCorrect == Spec => []TypeOK
<1>1. IInv => TypeOK
  BY DEF IInv
<1> QED
  BY <1>1, Inductive, PTL

\* When a class cleanup is called, nothing that is still registered needs its
\* thing or acts as its user.
THEOREM AlwaysInOrder == Spec => []CleanedUpInOrder
<1>1. IInv => CleanedUpInOrder
  <2> SUFFICES ASSUME IInv, phase = "stack", stack # <<>>,
                      NEW x \in ToSet(Tail(stack)) \cup Pending
               PROVE  Head(stack) \notin Needs[x] \cup Owners[x]
    BY DEF CleanedUpInOrder
  <2>1. list \in Seq(Things) /\ stack \in Seq(Things)
    BY DEF IInv, TypeOK
  <2>2. Pending = {}
    BY <2>1, RegisterFacts DEF IInv, ListSeen, Pending
  <2>3. Tail(stack) \in Seq(Things) /\ Head(stack) = stack[1]
        /\ Len(stack) \in Nat \ {0} /\ Len(Tail(stack)) \in Nat
        /\ \A i \in 1 .. Len(Tail(stack)) :
             Tail(stack)[i] = stack[i + 1] /\ i + 1 \in 1 .. Len(stack)
    BY <2>1, TailFacts
  <2>4. PICK i \in 1 .. Len(Tail(stack)) : x = Tail(stack)[i]
    BY <2>2, <2>3, RegisterFacts
  <2>5. x = stack[i + 1] /\ i + 1 \in 1 .. Len(stack) /\ 1 < i + 1
        /\ 1 \in 1 .. Len(stack)
    BY <2>3, <2>4
  <2> QED
    BY <2>3, <2>5 DEF IInv, Stacked
<1> QED
  BY <1>1, Inductive, PTL

\* A class that ends well, skipped or not, has left nothing behind but what was
\* suppressed or belongs to a class that did not end well.
THEOREM NeverSilentLeak == Spec => []NoSilentLeak
<1>1. IInv => NoSilentLeak
  <2>0. Reported \cup Unheard = failed
    BY DEF Reported, Unheard
  <2> SUFFICES ASSUME IInv, phase = "end", class \notin failed,
                      NEW r \in Things \ hushed, Alive(r)
               PROVE  ClassOf[r] \in failed /\ r \notin Pending \cup ToSet(Cleared)
    BY <2>0 DEF NoSilentLeak
  <2>1. list \in Seq(Things) /\ users \in Seq(Things)
    BY DEF IInv, TypeOK
  <2>2. ClassOf[r] \in failed
    BY DEF IInv, Accounted, Ahead
  <2>3. r \notin Pending
    BY <2>1, RegisterFacts DEF IInv, ListSeen, Pending
  <2>4. r \notin ToSet(Cleared)
    <3>1. Cleared \in Seq(Things)
      BY ClearedFacts DEF IInv
    <3> QED
      BY <3>1, RegisterFacts DEF IInv, UsersSeen, Settled
  <2> QED
    BY <2>2, <2>3, <2>4
<1> QED
  BY <1>1, Inductive, PTL

-----------------------------------------------------------------------------
(* The class list is a ledger.                                             *)

\* An entry stands before those whose things it needs, and only what is in the
\* list is marked as deleted.
Listing ==
  /\ \A x \in ToSet(list) : \A y \in Needs[x] : cloud[y] # "absent"
  /\ \A i, j \in 1 .. Len(list) : i <= j => list[i] \notin Needs[list[j]]
  /\ closed \subseteq ToSet(list)

Book ==
  [r \in Listed |-> CASE r \in closed    -> "closed"
                    [] r \in Pending   -> "pending"
                    [] OTHER           -> "unregistered"]

\* A step that puts nothing into the list.
LEMMA ListingKept ==
  ASSUME TypeOK, Listing, Declines, list' = list,
         closed' \subseteq closed \cup ToSet(list)
  PROVE  Listing'
<1>1. /\ list \in Seq(Things) /\ ToSet(list) \subseteq Things
      /\ Needs \in [Things -> SUBSET Things]
  BY RegisterFacts, ClassTeardownAssumption DEF TypeOK
<1> QED
  BY <1>1 DEF Listing, Declines

\* What is made is put in front of the list: nothing in the list needs it.
LEMMA CreateLists ==
  ASSUME IInv, Listing, NEW r \in Things, Create(r) \/ CreateFails(r)
  PROVE  /\ Listing'
         /\ Book' = Book \/ \E s \in Listed : Ledger!Register(s)
<1>0. /\ TypeOK /\ Grounded
      /\ list \in Seq(Things) /\ ToSet(list) \subseteq Things
      /\ Needs \in [Things -> SUBSET Things]
  BY RegisterFacts, ClassTeardownAssumption DEF IInv, TypeOK
<1>1. /\ cloud[r] = "absent" /\ closed' = closed
      /\ \A y \in Needs[r] : cloud[y] # "absent"
      /\ \A y \in Things : y # r => cloud'[y] = cloud[y]
      /\ UNCHANGED <<list, users, stack>> \/ (cloud'[r] = "here" /\ Register(r))
  BY <1>0, CreateFacts
<1>2. r \notin ToSet(list) /\ r \notin closed
      /\ \A x \in ToSet(list) \cup closed \cup {r} : r \notin Needs[x]
  BY <1>0, <1>1 DEF Grounded, Listing
<1>3. \A y \in Things : cloud[y] # "absent" => cloud'[y] # "absent"
  BY <1>1
<1>4. CASE list' = list
  <2>1. Listing'
    BY <1>0, <1>1, <1>3, <1>4 DEF Listing
  <2>2. Book' = Book
    BY <1>1, <1>4 DEF Book, Pending
  <2> QED
    BY <2>1, <2>2
<1>5. CASE list' # list
  <2>1. cloud'[r] = "here" /\ list' = <<r>> \o list /\ Place[r] = "list"
    BY <1>1, <1>5 DEF Register
  <2> DEFINE t == <<r>> \o list
  <2>2. /\ t[1] = r /\ Len(list) \in Nat /\ Len(t) = Len(list) + 1
        /\ \A i \in 1 .. Len(t) :
             i = 1 \/ (i - 1 \in 1 .. Len(list) /\ t[i] = list[i - 1])
        /\ ToSet(list) = {list[i] : i \in 1 .. Len(list)}
        /\ ToSet(t) = {r} \cup ToSet(list)
    BY <1>0, PushFacts, RegisterFacts
  <2>3. list' = t
    BY <2>1
  <2> HIDE DEF t
  <2>4. ASSUME NEW i \in 1 .. Len(t), NEW j \in 1 .. Len(t), i <= j
        PROVE  t[i] \notin Needs[t[j]]
    <3>1. t[j] \in ToSet(list) \cup {r}
      BY <2>2
    <3>2. CASE i = 1
      BY <1>2, <2>2, <3>1, <3>2
    <3>3. CASE i # 1
      <4>1. /\ i - 1 \in 1 .. Len(list) /\ t[i] = list[i - 1]
            /\ j - 1 \in 1 .. Len(list) /\ t[j] = list[j - 1]
            /\ i - 1 <= j - 1
        BY <2>2, <2>4, <3>3
      <4> QED
        BY <4>1 DEF Listing
    <3> QED
      BY <3>2, <3>3
  <2>5. Listing'
    BY <1>0, <1>1, <1>3, <2>2, <2>3, <2>4 DEF Listing
  <2>6. r \in Listed
    BY <2>1 DEF Listed
  <2>7. /\ Book[r] = "unregistered"
        /\ \A c \in Ledger!Dependents(r) : Book[c] = "unregistered"
    BY <1>2, <2>6 DEF Book, Pending, Ledger!Dependents
  <2>8. Book' = [Book EXCEPT ![r] = "pending"]
    BY <1>1, <1>2, <2>2, <2>3, <2>6 DEF Book, Pending
  <2>9. Ledger!Register(r)
    BY <2>7, <2>8 DEF Ledger!Register, Book
  <2> QED
    BY <2>5, <2>6, <2>9
<1> QED
  BY <1>4, <1>5

\* The entry at pos is closed after all those that need its thing.
LEMMA EntryCloses ==
  ASSUME IInv, Listing, DeleteEntry \/ AwaitEntry
  PROVE  /\ Listing'
         /\ Book' = Book \/ \E s \in Listed : Ledger!Close(s)
<1>0. /\ TypeOK /\ Waits /\ ListSeen
      /\ list \in Seq(Things) /\ ToSet(list) = {list[i] : i \in 1 .. Len(list)}
      /\ pos \in Nat /\ Len(list) \in Nat
  BY RegisterFacts DEF IInv, TypeOK
<1>1. /\ phase = "list" /\ pos \in 1 .. Len(list) /\ list[pos] \in Things
      /\ Declines /\ list' = list
      /\ closed' \in {closed, closed \cup {list[pos]}}
  BY <1>0, EntryFacts
<1>2. Listing'
  BY <1>0, <1>1, ListingKept
<1>3. CASE closed' = closed \/ list[pos] \in closed \/ list[pos] \notin Listed
  <2>1. Book' = Book
    BY <1>1, <1>3 DEF Book, Pending
  <2> QED
    BY <1>2, <2>1
<1>4. CASE /\ closed' = closed \cup {list[pos]}
           /\ list[pos] \notin closed /\ list[pos] \in Listed
  <2>1. PICK r \in Listed : r = list[pos]
    BY <1>4
  <2>2. r \in Pending /\ r \notin closed
    BY <1>0, <1>1, <1>4, <2>1 DEF Pending
  <2>3. Book[r] = "pending"
    BY <2>2 DEF Book
  <2>4. Book' = [Book EXCEPT ![r] = "closed"]
    BY <1>1, <1>4, <2>1 DEF Book, Pending
  <2>5. ASSUME NEW c \in Ledger!Dependents(r), Book[c] = "pending"
        PROVE  FALSE
    <3>1. c \in Listed /\ r \in Needs[c]
      BY <2>5 DEF Ledger!Dependents
    <3>2. c \in Pending
      BY <2>5, <3>1 DEF Book
    <3>3. PICK j \in 1 .. Len(list) : c = list[j] /\ c \notin closed
      BY <1>0, <3>2 DEF Pending
    <3>4. pos <= j
      BY <1>0, <1>1, <3>3 DEF ListSeen
    <3> QED
      BY <1>1, <2>1, <3>1, <3>3, <3>4 DEF Listing
  <2>6. Ledger!Close(r)
    BY <2>3, <2>4, <2>5 DEF Ledger!Close, Book
  <2> QED
    BY <1>2, <2>6
<1> QED
  BY <1>1, <1>3, <1>4

LEMMA LedgerStep ==
  ASSUME IInv, Listing, [Next]_vars
  PROVE  Listing' /\ (Book' = Book \/ Ledger!Next)
<1>0. TypeOK /\ Grounded /\ Waits
  BY DEF IInv
<1>1. ASSUME Declines, UNCHANGED <<list, closed>>
      PROVE  Listing' /\ Book' = Book
  <2>1. Listing'
    BY <1>0, <1>1, ListingKept
  <2> QED
    BY <1>1, <2>1 DEF Book, Pending
<1>2. ASSUME cloud' = cloud PROVE Declines
  BY <1>2 DEF Declines, AliveNext, Alive
<1>3. ASSUME NEW r \in Things, Create(r) \/ CreateFails(r)
      PROVE  Listing' /\ (Book' = Book \/ Ledger!Next)
  BY <1>3, CreateLists DEF Ledger!Next
<1>4. CASE DeleteEntry \/ AwaitEntry
  BY <1>4, EntryCloses DEF Ledger!Next
<1>5. CASE MovesOn \/ SkipsOut
  BY <1>0, <1>1, <1>2, <1>5, MovesOnFacts, SkipsOutFacts
<1>6. CASE DeleteUser
  BY <1>0, <1>1, <1>6, DeleteUserFacts
<1>7. CASE CallBack \/ AwaitCallBack
  BY <1>0, <1>1, <1>7, CallBackFacts
<1>8. CASE NextClass \/ UNCHANGED vars
  BY <1>1, <1>2, <1>8 DEF NextClass, vars
<1>9. CASE Manila
  BY <1>0, <1>1, <1>9, ManilaDeclines
<1> QED
  BY <1>3, <1>4, <1>5, <1>6, <1>7, <1>8, <1>9, Steps

\* class_resources, which all the classes of a worker share, implements the
\* ledger, whatever abandons a resource_cleanup on its way: an entry is closed
\* once, after the entries that need its thing, and never opened again.
THEOREM Refinement == Spec => LedgerSpec
<1>1. Init => Listing /\ Ledger!Init
  <2>1. ToSet(<<>>) = {} /\ Len(<<>>) = 0
    BY DEF ToSet
  <2> QED
    BY <2>1 DEF Init, Listing, Ledger!Init, Pending
<1>2. IInv /\ Listing /\ [Next]_vars => Listing' /\ [Ledger!Next]_Book
  BY LedgerStep
<1> QED
  BY <1>1, <1>2, Inductive, PTL DEF Spec, LedgerSpec, Ledger!Spec, Book

-----------------------------------------------------------------------------
(* The class list, when no request fails by itself.                        *)

\* Nothing outside the list needs what is in it, nothing at all needs a user,
\* and nothing in the list is made by a user that goes before the list.
SelfContained ==
  /\ \A x \in Things : \A y \in Needs[x] :
       Place[y] # "users" /\ (Place[y] = "list" => Place[x] = "list")
  /\ \A r \in Listed : \A o \in Owners[r] : Place[o] = "raw"

\* What is alive is pending, and what is pending can be deleted.
Unfailing ==
  /\ \A r \in Things : cloud[r] # "stuck"
  /\ \A r \in Listed : Alive(r) => r \in Pending
  /\ phase \notin {"stack", "end"} => \A r \in Pending : Works(r)
  /\ phase \in {"stack", "end"} => Pending = {}
  /\ phase = "list" => waiting \notin closed

\* A request that does not fail by itself is answered by what it finds.
LEMMA DeleteAnswered ==
  ASSUME TypeOK, NEW r \in Things, NEW answer, DeleteCall(r, answer),
         faults = 0, faults' = 0
  PROVE  /\ \A x \in Things : AliveNext(x) => Alive(x)
         /\ \A x \in Things : x # r => cloud'[x] = cloud[x]
         /\ (\A x \in Things : cloud[x] # "stuck") =>
              \A x \in Things : cloud'[x] # "stuck"
         /\ Works(r) /\ ~InUse(r) =>
              answer = "none" \/ (answer = "not_found" /\ ~AliveNext(r))
<1>1. /\ cloud' \in {cloud, [cloud EXCEPT ![r] = "gone"],
                       [cloud EXCEPT ![r] = "deleting"]}
      /\ cloud' = cloud \/ Alive(r)
      /\ Works(r) /\ ~InUse(r) =>
           answer = "none" \/ (answer = "not_found" /\ ~Alive(r) /\ cloud' = cloud)
  BY DEF DeleteCall
<1>2. cloud \in [Things -> {"absent", "here", "deleting", "stuck", "gone"}]
  BY DEF TypeOK
<1>3. /\ \A x \in Things : x # r => cloud'[x] = cloud[x]
      /\ cloud'[r] \in {cloud[r], "gone", "deleting"}
  BY <1>1, <1>2
<1>4. \A x \in Things : AliveNext(x) => Alive(x)
  BY <1>1, <1>3 DEF AliveNext, Alive
<1>5. ~Alive(r) /\ cloud' = cloud => ~AliveNext(r)
  BY DEF AliveNext, Alive
<1> QED
  BY <1>1, <1>3, <1>4, <1>5

\* The entry at hand is in nobody's way: what needs it stands before it.
LEMMA EntryAtHand ==
  ASSUME SelfContained, IInv, Listing, Unfailing,
         phase = "list", pos \in 1 .. Len(list), list[pos] \notin closed
  PROVE  list[pos] \in Listed /\ Works(list[pos]) /\ ~InUse(list[pos])
<1>0. /\ Grounded /\ ListSeen
      /\ list \in Seq(Things) /\ ToSet(list) = {list[i] : i \in 1 .. Len(list)}
      /\ pos \in Nat /\ Len(list) \in Nat
  BY RegisterFacts DEF IInv, TypeOK
<1>1. list[pos] \in Pending /\ list[pos] \in Things
  BY <1>0 DEF Pending
<1>2. list[pos] \in Listed
  BY <1>0, <1>1 DEF Grounded, Listed
<1>3. Works(list[pos])
  BY <1>1 DEF Unfailing
<1>4. ASSUME NEW x \in Things, list[pos] \in Needs[x], Alive(x) PROVE FALSE
  <2>1. x \in Listed
    BY <1>2, <1>4 DEF SelfContained, Listed
  <2>2. x \in Pending
    BY <1>4, <2>1 DEF Unfailing
  <2>3. PICK j \in 1 .. Len(list) : x = list[j] /\ x \notin closed
    BY <1>0, <2>2 DEF Pending
  <2>4. pos <= j
    BY <1>0, <2>3 DEF ListSeen
  <2> QED
    BY <1>4, <2>3, <2>4 DEF Listing
<1> QED
  BY <1>2, <1>3, <1>4 DEF InUse

\* A step of the teardown that takes nothing into the registers, and through
\* which the owners of what is pending stay.
LEMMA UnfailingKept ==
  ASSUME Unfailing, UNCHANGED <<class, list>>,
         \A x \in Things : cloud'[x] # "stuck",
         \A x \in Listed : AliveNext(x) => Alive(x) /\ x \notin closed',
         closed \subseteq closed',
         \A x \in Pending : \A o \in Owners[x] : Here(o) => cloud'[o] = "here",
         phase' \in {"stack", "end"} =>
           phase \in {"stack", "end"} \/ ToSet(list) \subseteq closed,
         phase \in {"stack", "end"} => phase' \in {"stack", "end"},
         phase' = "list" => waiting' \notin closed'
  PROVE  Unfailing'
<1>1. Pending' = ToSet(list) \ closed' /\ Pending' \subseteq Pending
  BY DEF Pending
<1>2. \A x \in Listed : Alive(x)' => x \in Pending'
  BY <1>1 DEF Unfailing, Pending, Alive, AliveNext
<1>3. \A x \in Pending : Works(x) => Works(x)'
  BY DEF Works, Here
<1>4. phase' \notin {"stack", "end"} => \A x \in Pending' : Works(x)'
  BY <1>1, <1>3 DEF Unfailing
<1>5. phase' \in {"stack", "end"} => Pending' = {}
  BY <1>1 DEF Unfailing, Pending
<1> QED
  BY <1>2, <1>4, <1>5 DEF Unfailing

\* What is made joins the pending ones.
LEMMA CreateUnfailing ==
  ASSUME SelfContained, IInv, Unfailing, NEW r \in Things, Create(r)
  PROVE  Unfailing'
<1>0. /\ TypeOK /\ Grounded /\ Waits
      /\ list \in Seq(Things)
      /\ Owners \in [Things -> SUBSET Things]
  BY ClassTeardownAssumption DEF IInv, TypeOK
<1>1. /\ phase \in {"clients", "tests"} /\ cloud[r] = "absent"
      /\ ClassOf[r] = class /\ Register(r)
      /\ \A o \in Owners[r] : Here(o)
      /\ UNCHANGED <<class, phase, closed, waiting>>
      /\ cloud' = [cloud EXCEPT ![r] = "here"]
  BY DEF Create, Creatable
<1>2. r \notin closed
  BY <1>0, <1>1 DEF Grounded
<1>3. /\ cloud'[r] = "here"
      /\ \A x \in Things : x # r => cloud'[x] = cloud[x]
      /\ \A o \in Things : Here(o) => cloud'[o] = "here"
  BY <1>0, <1>1 DEF TypeOK, Here
<1>4. Pending' = IF Place[r] = "list" THEN {r} \cup Pending ELSE Pending
  <2>1. ToSet(list') = IF Place[r] = "list" THEN {r} \cup ToSet(list)
                                            ELSE ToSet(list)
    BY <1>0, <1>1, PushFacts DEF Register
  <2> QED
    BY <1>1, <1>2, <2>1 DEF Pending
<1>5. \A x \in Things : Works(x) => Works(x)'
  BY <1>0, <1>1, <1>3 DEF Works, Here
<1>6. Works(r)'
  BY <1>0, <1>1, <1>3 DEF Works, Here
<1>7. Pending \subseteq Things
  BY <1>0, RegisterFacts DEF Pending
<1>8. \A x \in Listed : Alive(x)' => x \in Pending'
  BY <1>3, <1>4 DEF Unfailing, Alive, Listed
<1>9. \A x \in Pending' : Works(x)'
  BY <1>1, <1>4, <1>5, <1>6, <1>7 DEF Unfailing
<1>10. \A x \in Things : cloud'[x] # "stuck"
  BY <1>3 DEF Unfailing
<1> QED
  BY <1>1, <1>8, <1>9, <1>10 DEF Unfailing

\* A user that goes is in nobody's way, and owns nothing of the list.
LEMMA UserUnfailing ==
  ASSUME SelfContained, IInv, Unfailing, DeleteUser, faults = 0, faults' = 0
  PROVE  Unfailing'
<1>0. TypeOK /\ Grounded /\ Waits /\ list \in Seq(Things)
  BY DEF IInv, TypeOK
<1>1. PICK answer \in Harmless \cup Exceptions :
        /\ DeleteCall(Cleared[pos], answer)
        /\ IF Suppressed(answer)
             THEN /\ pos' = pos + 1 /\ Hush(Cleared[pos], answer)
                  /\ UNCHANGED <<phase, failed>>
             ELSE Abandon /\ UNCHANGED <<pos, hushed>>
  BY DEF DeleteUser
<1>2. /\ phase = "users" /\ pos \in 1 .. Len(Cleared)
      /\ Cleared[pos] \in Things
      /\ UNCHANGED <<class, list, closed, waiting>>
  BY <1>0, UserFacts DEF DeleteUser
<1>3. PICK u \in Things : u = Cleared[pos]
  BY <1>2
<1>4. Place[u] = "users"
  BY <1>0, <1>2, <1>3, ClearedFacts, RegisterFacts DEF Grounded
<1>5. Works(u) /\ ~InUse(u)
  BY <1>4 DEF Works, InUse, SelfContained
<1>6. /\ \A x \in Things : AliveNext(x) => Alive(x)
      /\ \A x \in Things : x # u => cloud'[x] = cloud[x]
      /\ \A x \in Things : cloud'[x] # "stuck"
      /\ Suppressed(answer)
  <2>1. answer \in {"none", "not_found"}
    BY <1>0, <1>1, <1>3, <1>5, DeleteAnswered
  <2>2. Suppressed(answer)
    BY <2>1 DEF Suppressed, Harmless
  <2> QED
    BY <1>0, <1>1, <1>3, <2>2, DeleteAnswered DEF Unfailing
<1>7. phase' = "users"
  BY <1>1, <1>2, <1>6
<1>8. \A x \in Pending : \A o \in Owners[x] : Here(o) => cloud'[o] = "here"
  <2>1. Pending \subseteq Listed
    BY <1>0, RegisterFacts DEF Pending, Grounded, Listed
  <2>2. ASSUME NEW x \in Pending, NEW o \in Owners[x] PROVE o # u /\ o \in Things
    BY <1>4, <2>1, <2>2, ClassTeardownAssumption DEF SelfContained, Listed
  <2> QED
    BY <1>6, <2>2 DEF Here
<1>9. \A x \in Listed : AliveNext(x) => Alive(x) /\ x \notin closed'
  BY <1>2, <1>6 DEF Unfailing, Pending, Listed
<1> QED
  BY <1>2, <1>6, <1>7, <1>8, <1>9, UnfailingKept

\* An entry is closed when its resource has gone, and not before.
LEMMA EntryUnfailing ==
  ASSUME SelfContained, IInv, Listing, Unfailing, DeleteEntry \/ AwaitEntry,
         faults = 0, faults' = 0
  PROVE  Unfailing'
<1>0. TypeOK /\ Grounded /\ Waits /\ list \in Seq(Things)
  BY DEF IInv, TypeOK
<1>1. PICK r \in Things : /\ r = list[pos] /\ r \notin closed
                          /\ phase = "list" /\ pos \in 1 .. Len(list)
                          /\ AwaitEntry => waiting = r
                          /\ DeleteEntry => waiting = Nothing
  <2>1. CASE DeleteEntry
    BY <1>0, <2>1, AtEntryFacts, ClassTeardownAssumption
    DEF DeleteEntry, AwaitEntry
  <2>2. CASE AwaitEntry
    <3>1. /\ phase = "list" /\ waiting # Nothing
          /\ pos \in 1 .. Len(list) /\ waiting = list[pos]
      BY <1>0, <2>2 DEF AwaitEntry, Waits
    <3>2. waiting \in Things /\ waiting \notin closed
      BY <1>0, <3>1 DEF TypeOK, Unfailing
    <3> QED
      BY <3>1, <3>2 DEF DeleteEntry, AtEntry
  <2> QED
    BY <2>1, <2>2
<1>2. r \in Listed /\ Works(r) /\ ~InUse(r)
  BY <1>1, EntryAtHand
<1>3. /\ UNCHANGED <<class, list, phase>>
      /\ \A x \in Things : AliveNext(x) => Alive(x)
      /\ \A x \in Things : x # r => cloud'[x] = cloud[x]
      /\ \A x \in Things : cloud'[x] # "stuck"
      /\ \/ closed' = closed /\ waiting' = r
         \/ closed' = closed \cup {r} /\ waiting' = Nothing /\ ~AliveNext(r)
  <2>1. ASSUME NEW exception \in Harmless, EntryEnds(r, exception)
        PROVE  closed' = closed \cup {r} /\ phase' = phase
    BY <2>1 DEF EntryEnds, Suppressed
  <2>2. CASE DeleteEntry
    <3>1. PICK e \in Things \ closed, answer \in Harmless \cup Exceptions :
            /\ AtEntry(e) /\ DeleteCall(e, answer)
            /\ \/ /\ answer = "none" /\ waiting' = e
                  /\ UNCHANGED <<phase, closed, pos, failed, hushed>>
               \/ /\ answer # "none" /\ EntryEnds(e, answer)
                  /\ UNCHANGED waiting
      BY <2>2 DEF DeleteEntry
    <3>2. e = r
      BY <1>1, <3>1 DEF AtEntry
    <3>3. answer = "none" \/ (answer = "not_found" /\ ~AliveNext(r))
      BY <1>0, <1>2, <3>1, <3>2, DeleteAnswered
    <3>4. /\ \A x \in Things : AliveNext(x) => Alive(x)
          /\ \A x \in Things : x # r => cloud'[x] = cloud[x]
          /\ \A x \in Things : cloud'[x] # "stuck"
      BY <1>0, <3>1, <3>2, DeleteAnswered DEF Unfailing
    <3>5. UNCHANGED <<class, list>> /\ waiting = Nothing
      BY <1>1, <2>2 DEF DeleteEntry
    <3>6. CASE answer = "none"
      BY <3>1, <3>2, <3>4, <3>5, <3>6
    <3>7. CASE answer = "not_found"
      <4>1. EntryEnds(r, answer) /\ UNCHANGED waiting /\ answer \in Harmless
        BY <3>1, <3>2, <3>7 DEF Harmless
      <4> QED
        BY <2>1, <3>3, <3>4, <3>5, <3>7, <4>1
    <3> QED
      BY <3>3, <3>6, <3>7
  <2>3. CASE AwaitEntry
    <3>1. PICK outcome \in Harmless \cup Exceptions :
            AwaitCall(waiting, outcome) /\ EntryEnds(waiting, outcome)
      BY <2>3 DEF AwaitEntry
    <3>2. waiting = r /\ UNCHANGED <<class, list, cloud>> /\ waiting' = Nothing
      BY <1>1, <2>3 DEF AwaitEntry
    <3>3. outcome = "none" /\ ~Alive(r)
      BY <1>2, <3>1, <3>2 DEF AwaitCall, Unfailing
    <3>4. closed' = closed \cup {r} /\ phase' = phase
      BY <2>1, <3>1, <3>2, <3>3 DEF Harmless
    <3> QED
      BY <3>2, <3>3, <3>4 DEF Alive, AliveNext, Unfailing
  <2> QED
    BY <2>2, <2>3
<1>4. \A x \in Pending : \A o \in Owners[x] : Here(o) => cloud'[o] = "here"
  <2>1. Pending \subseteq Listed
    BY <1>0, RegisterFacts DEF Pending, Grounded, Listed
  <2>2. ASSUME NEW x \in Pending, NEW o \in Owners[x] PROVE o # r /\ o \in Things
    BY <1>2, <2>1, <2>2, ClassTeardownAssumption DEF SelfContained, Listed
  <2> QED
    BY <1>3, <2>2 DEF Here
<1>5. \A x \in Listed : AliveNext(x) => Alive(x) /\ x \notin closed'
  BY <1>3 DEF Unfailing, Pending, Listed
<1>6. Nothing \notin closed'
  BY <1>0, <1>3, ClassTeardownAssumption DEF TypeOK
<1> QED
  BY <1>1, <1>3, <1>4, <1>5, <1>6, UnfailingKept

LEMMA CallBackUnfailing ==
  ASSUME IInv, Unfailing, CallBack \/ AwaitCallBack, faults = 0, faults' = 0
  PROVE  Unfailing'
<1>0. TypeOK
  BY DEF IInv
<1>1. phase = "stack" /\ UNCHANGED <<class, phase, list, closed>>
  BY <1>0, CallBackFacts
<1>2. /\ \A x \in Things : AliveNext(x) => Alive(x)
      /\ \A x \in Things : cloud'[x] # "stuck"
  <2>1. CASE CallBack
    <3>1. Head(stack) \in Things
      BY <1>0, <2>1, TailFacts DEF CallBack, TypeOK
    <3>2. PICK answer : DeleteCall(Head(stack), answer)
      BY <2>1 DEF CallBack
    <3> QED
      BY <1>0, <3>1, <3>2, DeleteAnswered DEF Unfailing
  <2>2. CASE AwaitCallBack
    BY <2>2 DEF AwaitCallBack, Alive, AliveNext, Unfailing
  <2> QED
    BY <2>1, <2>2
<1>3. Pending = {}
  BY <1>1 DEF Unfailing
<1>4. \A x \in Listed : AliveNext(x) => Alive(x) /\ x \notin closed'
  BY <1>2, <1>3 DEF Unfailing, Listed
<1> QED
  BY <1>1, <1>2, <1>3, <1>4, UnfailingKept

LEMMA StepUnfailing ==
  ASSUME SelfContained, IInv, Listing, [Next]_vars,
         faults = 0 /\ skipped = {} => Unfailing, faults' = 0, skipped' = {}
  PROVE  Unfailing'
<1>0. /\ TypeOK /\ Grounded /\ Waits /\ ListSeen
      /\ list \in Seq(Things) /\ Pending \subseteq Listed
      /\ Owners \in [Things -> SUBSET Things] /\ closed \subseteq Things
      /\ Nothing \notin Things
  BY RegisterFacts, ClassTeardownAssumption
  DEF IInv, TypeOK, Pending, Grounded, Listed
<1>1. faults = 0 /\ skipped = {} /\ ~SkipClass
  <2>1. /\ faults \in Nat
        /\ faults' \in {faults, faults + 1}
        /\ skipped' = skipped \/ (SkipClass /\ skipped' = skipped \cup {class})
    BY ClassTeardownAssumption
    DEF IInv, TypeOK, Next, Worker, Create, CreateFails, SetupDone, TestsEnd,
        DeleteUser, DeleteCall, UsersDone, SkipEntry, DeleteEntry, AwaitEntry,
        AwaitCall, ListDone, CallBack, AwaitCallBack, StackDone, NextClass,
        Manila, SkipClass, vars
  <2>2. SkipClass => class \in skipped'
    BY DEF SkipClass
  <2> QED
    BY <2>1, <2>2
<1>2. Unfailing
  BY <1>1
<1>3. ASSUME NEW r \in Things, Create(r) \/ CreateFails(r) PROVE Unfailing'
  <2>1. Create(r)
    BY <1>1, <1>3 DEF CreateFails
  <2> QED
    BY <1>2, <2>1, CreateUnfailing
<1>4. ASSUME cloud' = cloud
      PROVE  /\ \A x \in Things : cloud'[x] # "stuck"
             /\ \A x \in Listed : AliveNext(x) => Alive(x) /\ x \notin closed
             /\ \A x \in Pending : \A o \in Owners[x] : Here(o) => cloud'[o] = "here"
  BY <1>2, <1>4 DEF Unfailing, AliveNext, Alive, Pending, Here
<1>5. CASE MovesOn
  <2>1. /\ UNCHANGED <<class, cloud, list, closed, waiting>>
        /\ phase' = "list" => waiting = Nothing
        /\ phase' \in {"stack", "end"} =>
             phase \in {"stack", "end"} \/ (phase = "list" /\ pos > Len(list))
        /\ phase \in {"stack", "end"} => phase' \in {"stack", "end"}
    BY <1>0, <1>5, MovesOnFacts DEF Waits
  <2>2. ASSUME phase = "list", pos > Len(list)
        PROVE  ToSet(list) \subseteq closed
    <3>1. \A i \in 1 .. Len(list) : i < pos
      BY <1>0, <2>2 DEF TypeOK
    <3>2. \A i \in 1 .. Len(list) : list[i] \in closed
      BY <1>0, <2>2, <3>1 DEF ListSeen
    <3> QED
      BY <1>0, <3>2, RegisterFacts
  <2> QED
    BY <1>0, <1>2, <1>4, <2>1, <2>2, UnfailingKept
<1>6. CASE DeleteUser
  BY <1>1, <1>2, <1>6, UserUnfailing
<1>7. CASE DeleteEntry \/ AwaitEntry
  BY <1>1, <1>2, <1>7, EntryUnfailing
<1>8. CASE CallBack \/ AwaitCallBack
  BY <1>1, <1>2, <1>8, CallBackUnfailing
<1>9. CASE NextClass
  <2>1. /\ phase = "end" /\ phase' = "clients"
        /\ UNCHANGED <<cloud, list, closed>>
    BY <1>9 DEF NextClass
  <2>2. Pending = {} /\ Pending' = {}
    BY <1>2, <2>1 DEF Unfailing, Pending
  <2> QED
    BY <1>2, <2>1, <2>2 DEF Unfailing, Alive
<1>10. CASE Manila
  <2>1. PICK r \in Things :
          cloud[r] = "deleting" /\ cloud' = [cloud EXCEPT ![r] = "gone"]
    BY <1>1, <1>10 DEF Manila
  <2>2. UNCHANGED <<class, phase, list, closed, waiting>>
    BY <1>10 DEF Manila
  <2>3. /\ cloud'[r] = "gone" /\ \A x \in Things : x # r => cloud'[x] = cloud[x]
    BY <1>0, <2>1 DEF TypeOK
  <2>4. /\ \A x \in Things : cloud'[x] # "stuck"
        /\ \A x \in Things : AliveNext(x) => Alive(x)
        /\ \A o \in Things : Here(o) => cloud'[o] = "here"
    BY <1>2, <2>1, <2>3 DEF Unfailing, AliveNext, Alive, Here
  <2>5. \A x \in Listed : AliveNext(x) => Alive(x) /\ x \notin closed'
    BY <1>2, <2>2, <2>4 DEF Unfailing, Pending, Listed
  <2>6. \A x \in Pending : \A o \in Owners[x] : Here(o) => cloud'[o] = "here"
    BY <1>0, <2>4 DEF Listed
  <2> QED
    BY <1>2, <2>2, <2>4, <2>5, <2>6, UnfailingKept DEF Unfailing
<1>11. CASE UNCHANGED vars
  <2>1. UNCHANGED <<class, cloud, phase, list, closed, waiting>>
    BY <1>11 DEF vars
  <2> QED
    BY <1>2, <1>4, <2>1, UnfailingKept DEF Unfailing
<1> QED
  BY <1>1, <1>3, <1>5, <1>6, <1>7, <1>8, <1>9, <1>10, <1>11, Steps DEF SkipsOut

\* With a Manila that fails no request by itself, and no class skipped,
\* resource_cleanup clears the class list wherever its entries are not made by
\* a user that is deleted before them, and nothing outside the list holds them
\* up.
THEOREM CleanedUpUnlessMadeByAUser ==
  ASSUME SelfContained
  PROVE  Spec => []CleanedUpInResourceCleanup
<1>1. Init => Listing /\ (faults = 0 /\ skipped = {} => Unfailing)
  <2> SUFFICES ASSUME Init PROVE Listing /\ Unfailing
    OBVIOUS
  <2>1. ToSet(<<>>) = {} /\ Len(<<>>) = 0
    BY DEF ToSet
  <2>2. Listing
    BY <2>1 DEF Init, Listing
  <2>3. Unfailing
    BY <2>1 DEF Init, Unfailing, Pending, Alive, Listed
  <2> QED
    BY <2>2, <2>3
<1>2. /\ IInv /\ Listing /\ (faults = 0 /\ skipped = {} => Unfailing) /\ [Next]_vars
      => Listing' /\ (faults = 0 /\ skipped = {} => Unfailing)'
  BY LedgerStep, StepUnfailing
<1>3. (faults = 0 /\ skipped = {} => Unfailing) => CleanedUpInResourceCleanup
  BY DEF Unfailing, CleanedUpInResourceCleanup
<1> QED
  BY <1>1, <1>2, <1>3, Inductive, PTL DEF Spec
=============================================================================

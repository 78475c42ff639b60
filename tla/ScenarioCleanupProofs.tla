----------------------- MODULE ScenarioCleanupProofs -----------------------
(***************************************************************************)
(* Whatever a scenario test has created before it ends: its cleanups ask   *)
(* for no deletion before what is in its way has been seen to, and leave   *)
(* nothing behind without an error.                                        *)
(*                                                                         *)
(* The invariant has three parts.  Settled is about Manila and Nova: what  *)
(* something alive needs is available, since it is refused to whoever asks *)
(* for its deletion.  Running is about the callback that is running.       *)
(* Tracked ties the stack to the services: what is registered and not yet  *)
(* gone has its callback ahead of it, or an error behind it, and no        *)
(* callback comes before those of the things that need its own.            *)
(***************************************************************************)
EXTENDS ScenarioCleanup, SequenceTheorems, TLAPS

Settled ==
  /\ multitenancy \in BOOLEAN
  /\ manila \in [Resources -> Statuses]
  /\ attachment \in [Attachments -> {"unborn", "attached", "detaching", "gone"}]
  /\ vm \in [Vms -> VmStatuses]
  /\ \A r \in Resources : \A p \in Required(r) :
       Alive(r) => manila[p] = "available"
  /\ \A a \in Attachments : Attached(a) =>
       manila[ShareOf[a]] = "available" /\ vm[VmOf[a]] # "gone"

DetachSteps == {"stop", "await_stop", "detach", "await_detach"}

Running ==
  /\ stack \in Seq(Callbacks)
  /\ phase \in {"test", "cleanup", "done"}
  /\ step \in {"call", "servers"} \cup DetachSteps
  /\ todo \subseteq Resources /\ listed \subseteq Resources
  /\ step # "call" => phase = "cleanup" /\ stack # <<>>
  /\ step = "servers" => Head(stack)[1] = "servers"
  /\ step \in DetachSteps => Head(stack)[1] = "detach"
  /\ phase = "done" => stack = <<>>

\* What a callback's own thing needs: it has to go after it.
Below(entry) ==
  IF entry[1] = "detach" THEN {ShareOf[entry[2]]} ELSE Required(entry[2])

Ahead(entry) == \E i \in DOMAIN stack : stack[i] = entry

Stacked ==
  \A i, j \in 1 .. Len(stack) : i < j => stack[i][2] \notin Below(stack[j])

\* What has been registered has been born, and what it needs before it.
Grounded ==
  /\ \A c \in registered \cap Resources :
       manila[c] # "unborn" /\ \A p \in Required(c) : manila[p] # "unborn"
  /\ \A a \in registered \cap Attachments :
       attachment[a] # "unborn" /\ manila[ShareOf[a]] # "unborn"

Accounted ==
  /\ \A c \in registered \cap Resources :
       Alive(c) => c \in errors \/ Ahead(<<"await", c>>)
  /\ \A a \in registered \cap Attachments :
       Attached(a) => Ahead(<<"detach", a>>) \/ \E e \in logged : e[1] = a

Tracked ==
  /\ registered \subseteq Resources \cup Attachments
  /\ errors \subseteq Resources \cup Attachments
  /\ logged \subseteq Attachments \X {"refused", "failed"}
  /\ \A i \in 1 .. Len(stack) : stack[i][2] \in registered
  /\ Stacked /\ Grounded /\ Accounted

IInv == Settled /\ Running /\ Tracked

\* A step of the services never brings back what is gone.
Onward ==
  /\ multitenancy' = multitenancy
  /\ \A r \in Resources : /\ manila[r] # "unborn" => manila'[r] # "unborn"
                          /\ manila[r] = "gone" => manila'[r] = "gone"
  /\ \A a \in Attachments :
       /\ attachment[a] # "unborn" => attachment'[a] # "unborn"
       /\ attachment[a] = "gone" => attachment'[a] = "gone"

-----------------------------------------------------------------------------
(* The services.                                                           *)

LEMMA RequiredFacts ==
  ASSUME NEW r \in Resources
  PROVE  /\ Required(r) \subseteq Needs[r] /\ Required(r) \subseteq Resources
         /\ r \notin Required(r)
BY ScenarioAssumption DEF Required

LEMMA RequiredSame ==
  ASSUME multitenancy' = multitenancy
  PROVE  \A r \in Resources : Required(r)' = Required(r)
BY DEF Required

\* A resource that nothing alive needs and no machine has attached goes, or
\* one changes its status without coming to life or to its end.
LEMMA OneMoves ==
  ASSUME Settled, NEW r \in Resources, NEW s \in Statuses \ {"unborn"},
         manila' = [manila EXCEPT ![r] = s],
         multitenancy' = multitenancy, attachment' = attachment, vm' = vm,
         manila[r] \notin {"unborn", "gone"},
         ~InUse(r) \/ s = "available"
  PROVE  Settled' /\ Onward
<1>1. /\ manila' \in [Resources -> Statuses]
      /\ \A x \in Resources : manila'[x] = IF x = r THEN s ELSE manila[x]
  BY DEF Settled
<1>2. \A x \in Resources : Required(x)' = Required(x)
  BY RequiredSame
<1>3. \A x \in Resources : \A p \in Required(x) :
        Alive(x)' => manila'[p] = "available"
  <2>1. SUFFICES ASSUME NEW x \in Resources, NEW p \in Required(x), Alive(x)'
                 PROVE  manila'[p] = "available"
    OBVIOUS
  <2>2. Alive(x)
    BY <1>1, <2>1 DEF Alive
  <2>3. manila[p] = "available" /\ p \in Resources
    BY <2>1, <2>2, RequiredFacts DEF Settled
  <2>4. CASE p = r
    BY <1>1, <2>1, <2>2, <2>4 DEF InUse
  <2> QED
    BY <1>1, <2>3, <2>4
<1>4. \A a \in Attachments : Attached(a)' =>
        manila'[ShareOf[a]] = "available" /\ vm'[VmOf[a]] # "gone"
  BY <1>1, ScenarioAssumption DEF Settled, Attached, InUse
<1>5. Onward
  BY <1>1 DEF Onward
<1> QED
  BY <1>1, <1>2, <1>3, <1>4, <1>5 DEF Settled

LEMMA StatusNames ==
  {"available", "error", "deleting", "error_deleting", "gone"}
    \subseteq Statuses \ {"unborn"}
BY DEF Statuses

LEMMA DeleteCallKeeps ==
  ASSUME Settled, NEW r \in Resources, NEW reply, DeleteCall(r, reply),
         multitenancy' = multitenancy, attachment' = attachment, vm' = vm
  PROVE  Settled' /\ Onward
<1>1. CASE manila' = manila
  BY <1>1, RequiredSame DEF Settled, Onward, Alive, Attached
<1>2. CASE /\ manila[r] \in {"available", "error"} /\ ~InUse(r)
           /\ manila' = [manila EXCEPT ![r] =
                           IF Kind[r] = "network" THEN "gone" ELSE "deleting"]
  BY <1>2, OneMoves, StatusNames
<1> QED
  BY <1>1, <1>2 DEF DeleteCall

LEMMA ManilaKeeps ==
  ASSUME Settled, NEW r \in Resources, Manila(r)
  PROVE  Settled' /\ Onward
<1>1. multitenancy' = multitenancy /\ attachment' = attachment /\ vm' = vm
  BY DEF Manila
<1>2. manila[r] \in {"busy", "deleting"} => ~InUse(r)
  BY DEF InUse, Settled
<1>3. PICK s \in Statuses \ {"unborn"} :
        manila' = [manila EXCEPT ![r] = s]
  BY StatusNames DEF Manila
<1>4. manila[r] \notin {"unborn", "gone"}
  BY DEF Manila, Alive
<1>5. ~InUse(r)
  BY <1>2 DEF Manila
<1> QED
  BY <1>1, <1>3, <1>4, <1>5, OneMoves

\* A machine that is there stops or starts; an attachment that is there is
\* detached or stays.
LEMMA NovaKeeps ==
  ASSUME Settled, multitenancy' = multitenancy, manila' = manila,
         vm' \in [Vms -> VmStatuses],
         attachment' \in [Attachments ->
                            {"unborn", "attached", "detaching", "gone"}],
         \A a \in Attachments : Attached(a)' =>
           Attached(a) /\ vm'[VmOf[a]] # "gone",
         \A a \in Attachments :
           /\ attachment[a] # "unborn" => attachment'[a] # "unborn"
           /\ attachment[a] = "gone" => attachment'[a] = "gone"
  PROVE  Settled' /\ Onward
<1>1. \A x \in Resources : Required(x)' = Required(x)
  BY RequiredSame
<1>2. \A x \in Resources : \A p \in Required(x) :
        Alive(x)' => manila'[p] = "available"
  BY DEF Settled, Alive
<1>3. \A a \in Attachments : Attached(a)' =>
        manila'[ShareOf[a]] = "available" /\ vm'[VmOf[a]] # "gone"
  BY DEF Settled
<1> QED
  BY <1>1, <1>2, <1>3 DEF Settled, Onward

\* A machine changes without disappearing.
LEMMA VmMoves ==
  ASSUME Settled, NEW v \in Vms, vm[v] # "gone",
         NEW s \in VmStatuses \ {"gone"}, vm' = [vm EXCEPT ![v] = s],
         multitenancy' = multitenancy, manila' = manila,
         attachment' = attachment
  PROVE  Settled' /\ Onward
<1>1. /\ vm' \in [Vms -> VmStatuses]
      /\ \A x \in Vms : vm'[x] = IF x = v THEN s ELSE vm[x]
  BY DEF Settled
<1>2. \A a \in Attachments : Attached(a)' =>
        Attached(a) /\ vm'[VmOf[a]] # "gone"
  BY <1>1, ScenarioAssumption DEF Settled, Attached
<1> QED
  BY <1>1, <1>2, NovaKeeps DEF Settled

LEMMA AttachmentMoves ==
  ASSUME Settled, NEW a \in Attachments, Attached(a),
         NEW s \in {"attached", "detaching", "gone"},
         attachment' = [attachment EXCEPT ![a] = s],
         multitenancy' = multitenancy, manila' = manila, vm' = vm
  PROVE  Settled' /\ Onward
<1>1. /\ attachment' \in [Attachments ->
                            {"unborn", "attached", "detaching", "gone"}]
      /\ \A x \in Attachments :
           attachment'[x] = IF x = a THEN s ELSE attachment[x]
  BY DEF Settled
<1>2. \A x \in Attachments : Attached(x)' =>
        Attached(x) /\ vm'[VmOf[x]] # "gone"
  BY <1>1 DEF Settled, Attached
<1>3. \A x \in Attachments :
        /\ attachment[x] # "unborn" => attachment'[x] # "unborn"
        /\ attachment[x] = "gone" => attachment'[x] = "gone"
  BY <1>1 DEF Attached
<1> QED
  BY <1>1, <1>2, <1>3, NovaKeeps DEF Settled

LEMMA NovaLosesKeeps ==
  ASSUME Settled, NEW v \in Vms, NovaLoses(v)
  PROVE  Settled' /\ Onward
<1>1. /\ vm' \in [Vms -> VmStatuses]
      /\ \A x \in Vms : vm'[x] = IF x = v THEN "gone" ELSE vm[x]
  BY DEF Settled, NovaLoses, VmStatuses
<1>2. /\ attachment' \in [Attachments ->
                            {"unborn", "attached", "detaching", "gone"}]
      /\ \A x \in Attachments :
           attachment'[x] = IF VmOf[x] = v /\ Attached(x) THEN "gone"
                            ELSE attachment[x]
  BY DEF Settled, NovaLoses
<1>3. \A x \in Attachments : Attached(x)' =>
        Attached(x) /\ vm'[VmOf[x]] # "gone"
  BY <1>1, <1>2, ScenarioAssumption DEF Settled, Attached
<1>4. \A x \in Attachments :
        /\ attachment[x] # "unborn" => attachment'[x] # "unborn"
        /\ attachment[x] = "gone" => attachment'[x] = "gone"
  BY <1>2 DEF Attached
<1> QED
  BY <1>1, <1>2, <1>3, <1>4, NovaKeeps DEF NovaLoses

\* A resource is born, and with it the share server it is to be on.
LEMMA BornKeeps ==
  ASSUME Settled, NEW r \in Resources, Creatable(r), Born(r),
         multitenancy' = multitenancy, attachment' = attachment, vm' = vm
  PROVE  /\ Settled' /\ Onward
         /\ manila'[r] # "unborn"
         /\ \A p \in Required(r) : manila'[p] # "unborn"
<1> DEFINE Server(x) == /\ x \in Required(r) /\ Kind[x] = "share_server"
                        /\ manila[x] = "unborn"
<1>1. /\ manila' \in [Resources -> Statuses]
      /\ manila'[r] \in {"available", "busy"}
      /\ \A x \in Resources \ {r} :
           manila'[x] = IF Server(x) THEN "available" ELSE manila[x]
  BY DEF Born, Settled, Statuses
<1>2. \A p \in Required(r) : p \in Resources \ {r} /\ manila'[p] = "available"
  BY <1>1, RequiredFacts DEF Creatable
<1>3. \A x \in Resources : Required(x)' = Required(x)
  BY RequiredSame
<1>4. manila[r] = "unborn"
  BY DEF Creatable
<1>5. \A x \in Resources \ {r} : Server(x) => Required(x) \subseteq Required(r)
  BY ScenarioAssumption DEF Required
<1>6. \A x \in Resources : \A p \in Required(x) :
        Alive(x)' => manila'[p] = "available"
  <2>1. SUFFICES ASSUME NEW x \in Resources, NEW p \in Required(x), Alive(x)'
                 PROVE  manila'[p] = "available"
    OBVIOUS
  <2>2. CASE x = r
    BY <1>2, <2>1, <2>2
  <2>3. CASE x # r /\ Server(x)
    BY <1>2, <1>5, <2>1, <2>3
  <2>4. CASE x # r /\ ~Server(x)
    <3>1. Alive(x)
      BY <1>1, <2>1, <2>4 DEF Alive
    <3>2. manila[p] = "available" /\ p \in Resources \ {r}
      BY <1>4, <2>1, <3>1, RequiredFacts DEF Settled
    <3> QED
      BY <1>1, <3>2
  <2> QED
    BY <2>2, <2>3, <2>4
<1>7. \A a \in Attachments : Attached(a)' =>
        manila'[ShareOf[a]] = "available" /\ vm'[VmOf[a]] # "gone"
  <2>1. SUFFICES ASSUME NEW a \in Attachments, Attached(a)'
                 PROVE  manila'[ShareOf[a]] = "available" /\ vm'[VmOf[a]] # "gone"
    OBVIOUS
  <2>2. manila[ShareOf[a]] = "available" /\ vm[VmOf[a]] # "gone"
    BY <2>1 DEF Attached, Settled
  <2>3. ShareOf[a] \in Resources \ {r}
    BY <1>4, <2>2, ScenarioAssumption
  <2> QED
    BY <1>1, <2>2, <2>3
<1>8. Onward
  BY <1>1, <1>4 DEF Onward
<1> QED
  BY <1>1, <1>2, <1>3, <1>6, <1>7, <1>8 DEF Settled

\* A share is attached to a machine that has stopped.
LEMMA AttachKeeps ==
  ASSUME Settled, NEW a \in Attachments, Attach(a)
  PROVE  Settled' /\ Onward /\ manila[ShareOf[a]] = "available"
<1>1. /\ multitenancy' = multitenancy /\ manila' = manila /\ vm' = vm
      /\ manila[ShareOf[a]] = "available" /\ vm[VmOf[a]] # "gone"
      /\ attachment[a] = "unborn"
  BY DEF Attach
<1>2. /\ attachment' \in [Attachments ->
                            {"unborn", "attached", "detaching", "gone"}]
      /\ \A x \in Attachments :
           attachment'[x] = IF x = a THEN "attached" ELSE attachment[x]
  BY DEF Attach, Settled
<1>3. \A x \in Attachments : Attached(x)' =>
        manila'[ShareOf[x]] = "available" /\ vm'[VmOf[x]] # "gone"
  BY <1>1, <1>2 DEF Settled, Attached
<1>4. \A x \in Resources : Required(x)' = Required(x)
  BY <1>1, RequiredSame
<1>5. \A x \in Resources : \A p \in Required(x) :
        Alive(x)' => manila'[p] = "available"
  BY <1>1 DEF Settled, Alive
<1>6. Onward
  BY <1>1, <1>2 DEF Onward
<1> QED
  BY <1>1, <1>2, <1>3, <1>4, <1>5, <1>6 DEF Settled

LEMMA SameServices ==
  ASSUME Settled, UNCHANGED services
  PROVE  Settled' /\ Onward
BY RequiredSame DEF services, Settled, Onward, Alive, Attached

-----------------------------------------------------------------------------
(* The stack.                                                              *)

\* The callback at the head, and those below it.
LEMMA TailFacts ==
  ASSUME Running, stack # <<>>, stack' = Tail(stack)
  PROVE  /\ Len(stack) \in Nat \ {0} /\ Head(stack) = stack[1]
         /\ Head(stack) \in Callbacks
         /\ stack' \in Seq(Callbacks) /\ Len(stack') = Len(stack) - 1
         /\ \A i \in 1 .. Len(stack') :
              stack'[i] = stack[i + 1] /\ i + 1 \in 1 .. Len(stack)
         /\ \A entry : Ahead(entry) => entry = Head(stack) \/ Ahead(entry)'
<1>1. stack \in Seq(Callbacks)
  BY DEF Running
<1>2. /\ Len(stack) \in Nat \ {0} /\ Head(stack) = stack[1]
      /\ Head(stack) \in Callbacks
      /\ stack' \in Seq(Callbacks) /\ Len(stack') = Len(stack) - 1
      /\ \A i \in 1 .. Len(stack') : stack'[i] = stack[i + 1]
      /\ DOMAIN stack = 1 .. Len(stack) /\ DOMAIN stack' = 1 .. Len(stack')
  BY <1>1, HeadTailProperties
<1>3. \A i \in 1 .. Len(stack') : i + 1 \in 1 .. Len(stack)
  BY <1>2
<1>4. ASSUME NEW entry, Ahead(entry), entry # Head(stack)
      PROVE  Ahead(entry)'
  <2>1. PICK i \in 1 .. Len(stack) : stack[i] = entry
    BY <1>2, <1>4 DEF Ahead
  <2>2. i - 1 \in 1 .. Len(stack') /\ (i - 1) + 1 = i
    BY <1>2, <1>4, <2>1
  <2>3. stack'[i - 1] = entry
    BY <1>2, <2>1, <2>2
  <2> QED
    BY <1>2, <2>2, <2>3 DEF Ahead
<1> QED
  BY <1>2, <1>3, <1>4

\* A callback may be left once its thing is gone or an error is noted of it.
LEMMA PopKeeps ==
  ASSUME IInv, Settled', Onward, Pop, phase = "cleanup", stack # <<>>,
         errors \subseteq errors', logged \subseteq logged',
         errors' \subseteq Resources \cup Attachments,
         logged' \subseteq Attachments \X {"refused", "failed"},
         Head(stack)[1] = "await" =>
           Subject \in errors' \/ manila'[Subject] = "gone",
         Head(stack)[1] = "detach" =>
           (\E e \in logged' : e[1] = Subject) \/ attachment'[Subject] = "gone"
  PROVE  Running' /\ Tracked'
<1>1. /\ stack' = Tail(stack) /\ step' = "call" /\ todo' = {} /\ listed' = {}
      /\ phase' = "cleanup" /\ registered' = registered
  BY DEF Pop
<1>2. /\ Len(stack) \in Nat \ {0} /\ Head(stack) = stack[1]
      /\ Head(stack) \in Callbacks
      /\ stack' \in Seq(Callbacks) /\ Len(stack') = Len(stack) - 1
      /\ \A i \in 1 .. Len(stack') :
           stack'[i] = stack[i + 1] /\ i + 1 \in 1 .. Len(stack)
      /\ \A entry : Ahead(entry) => entry = Head(stack) \/ Ahead(entry)'
  BY <1>1, TailFacts DEF IInv
<1>3. Running'
  BY <1>1, <1>2 DEF Running, DetachSteps
<1>4. \A entry : Below(entry)' = Below(entry)
  BY DEF Below, Onward, Required
<1>5. Stacked'
  <2>1. SUFFICES ASSUME NEW i \in 1 .. Len(stack'), NEW j \in 1 .. Len(stack'),
                        i < j
                 PROVE  stack'[i][2] \notin Below(stack'[j])
    BY <1>4 DEF Stacked
  <2>2. i + 1 < j + 1
    BY <1>2, <2>1
  <2> QED
    BY <1>2, <2>1, <2>2 DEF IInv, Tracked, Stacked
<1>6. Grounded'
  BY <1>1, RequiredFacts, ScenarioAssumption
  DEF Grounded, IInv, Tracked, Onward, Required
<1>7. ASSUME NEW c \in registered \cap Resources, Alive(c)'
      PROVE  c \in errors' \/ Ahead(<<"await", c>>)'
  <2>1. Alive(c)
    BY <1>7 DEF IInv, Tracked, Grounded, Onward, Alive
  <2>2. CASE Head(stack) = <<"await", c>>
    <3>1. Head(stack)[1] = "await" /\ Head(stack)[2] = c
      BY <2>2
    <3> QED
      BY <1>7, <3>1 DEF Subject, Alive
  <2> QED
    BY <1>2, <1>7, <2>1, <2>2 DEF IInv, Tracked, Accounted
<1>8. ASSUME NEW a \in registered \cap Attachments, Attached(a)'
      PROVE  Ahead(<<"detach", a>>)' \/ \E e \in logged' : e[1] = a
  <2>1. Attached(a)
    BY <1>8 DEF IInv, Tracked, Grounded, Onward, Attached, Settled
  <2>2. CASE Head(stack) = <<"detach", a>>
    <3>1. Head(stack)[1] = "detach" /\ Head(stack)[2] = a
      BY <2>2
    <3> QED
      BY <1>8, <3>1 DEF Subject, Attached
  <2> QED
    BY <1>2, <1>8, <2>1, <2>2 DEF IInv, Tracked, Accounted
<1>9. \A i \in 1 .. Len(stack') : stack'[i][2] \in registered'
  BY <1>1, <1>2 DEF IInv, Tracked
<1> QED
  BY <1>1, <1>3, <1>5, <1>6, <1>7, <1>8, <1>9 DEF IInv, Tracked, Accounted

\* The services move on, and nothing is called or registered.
LEMMA OnwardKeeps ==
  ASSUME IInv, Settled', Onward, UNCHANGED <<stack, history>>
  PROVE  Tracked'
<1>1. /\ stack' = stack /\ registered' = registered /\ errors' = errors
      /\ logged' = logged
  BY DEF history
<1>2. \A entry : Below(entry)' = Below(entry)
  BY DEF Below, Onward, Required
<1>3. Stacked'
  BY <1>1, <1>2 DEF IInv, Tracked, Stacked
<1>4. Grounded'
  BY <1>1, RequiredFacts, ScenarioAssumption
  DEF Grounded, IInv, Tracked, Onward, Required
<1>5. Accounted'
  <2>1. \A c \in registered \cap Resources : Alive(c)' => Alive(c)
    BY DEF IInv, Tracked, Grounded, Onward, Alive
  <2>2. \A a \in registered \cap Attachments : Attached(a)' => Attached(a)
    BY DEF IInv, Tracked, Grounded, Onward, Attached, Settled
  <2> QED
    BY <1>1, <2>1, <2>2 DEF IInv, Tracked, Accounted, Ahead
<1> QED
  BY <1>1, <1>3, <1>4, <1>5 DEF IInv, Tracked

\* Callbacks for a thing that nothing registered needs are pushed.
LEMMA PushKeeps ==
  ASSUME IInv, Settled', Onward, NEW x \in Resources \cup Attachments,
         NEW p \in Seq(Callbacks), stack' = p \o stack,
         \A i \in 1 .. Len(p) : p[i][2] = x /\ x \notin Below(p[i]),
         \A j \in 1 .. Len(stack) : x \notin Below(stack[j]),
         registered' = registered \cup {x},
         errors' = errors, logged' = logged,
         x \in Resources => /\ manila'[x] # "unborn"
                            /\ \A q \in Required(x) : manila'[q] # "unborn"
                            /\ \E i \in 1 .. Len(p) : p[i] = <<"await", x>>,
         x \in Attachments => /\ attachment'[x] # "unborn"
                              /\ manila'[ShareOf[x]] # "unborn"
                              /\ \E i \in 1 .. Len(p) : p[i] = <<"detach", x>>
  PROVE  Tracked' /\ stack' \in Seq(Callbacks)
<1>1. stack \in Seq(Callbacks)
  BY DEF IInv, Running
<1>2. /\ stack' \in Seq(Callbacks) /\ Len(stack') = Len(p) + Len(stack)
      /\ Len(p) \in Nat /\ Len(stack) \in Nat
      /\ \A i \in 1 .. Len(stack') :
           stack'[i] = IF i <= Len(p) THEN p[i] ELSE stack[i - Len(p)]
      /\ DOMAIN stack' = 1 .. Len(stack') /\ DOMAIN stack = 1 .. Len(stack)
  BY <1>1, ConcatProperties, LenProperties
<1>3. \A entry : Below(entry)' = Below(entry)
  BY DEF Below, Onward, Required
<1>4. \A i \in 1 .. Len(stack') :
        \/ i <= Len(p) /\ stack'[i] = p[i] /\ i \in 1 .. Len(p)
        \/ i > Len(p) /\ stack'[i] = stack[i - Len(p)] /\ i - Len(p) \in 1 .. Len(stack)
  BY <1>2
<1>5. Stacked'
  <2>1. SUFFICES ASSUME NEW i \in 1 .. Len(stack'), NEW j \in 1 .. Len(stack'),
                        i < j
                 PROVE  stack'[i][2] \notin Below(stack'[j])
    BY <1>3 DEF Stacked
  <2>2. CASE i <= Len(p)
    BY <1>2, <1>4, <2>1, <2>2
  <2>3. CASE i > Len(p)
    <3>1. j > Len(p) /\ i - Len(p) < j - Len(p)
      BY <1>2, <2>1, <2>3
    <3> QED
      BY <1>2, <1>4, <2>3, <3>1 DEF IInv, Tracked, Stacked
  <2> QED
    BY <1>2, <2>2, <2>3
<1>6. \A i \in 1 .. Len(stack') : stack'[i][2] \in registered'
  BY <1>4 DEF IInv, Tracked
<1>7. Grounded'
  <2>1. \A c \in Resources : Required(c)' = Required(c)
    BY RequiredSame DEF Onward
  <2> QED
    BY <2>1, RequiredFacts, ScenarioAssumption
    DEF Grounded, IInv, Tracked, Onward
<1>8. \A entry : Ahead(entry) => Ahead(entry)'
  <2>1. SUFFICES ASSUME NEW entry, NEW i \in 1 .. Len(stack), stack[i] = entry
                 PROVE  Ahead(entry)'
    BY <1>2 DEF Ahead
  <2>2. /\ i + Len(p) \in 1 .. Len(stack') /\ ~(i + Len(p) <= Len(p))
        /\ (i + Len(p)) - Len(p) = i
    BY <1>2
  <2>3. stack'[i + Len(p)] = entry
    BY <1>2, <2>1, <2>2
  <2> QED
    BY <1>2, <2>2, <2>3 DEF Ahead
<1>9. \A i \in 1 .. Len(p) : i \in DOMAIN stack' /\ stack'[i] = p[i]
  BY <1>2
<1>10. Accounted'
  <2>1. ASSUME NEW c \in registered' \cap Resources, Alive(c)'
        PROVE  c \in errors' \/ Ahead(<<"await", c>>)'
    <3>1. CASE c \in registered
      <4>1. Alive(c)
        BY <2>1, <3>1 DEF IInv, Tracked, Grounded, Onward, Alive
      <4> QED
        BY <1>8, <2>1, <3>1, <4>1 DEF IInv, Tracked, Accounted
    <3>2. CASE c = x
      BY <1>9, <2>1, <3>2 DEF Ahead
    <3> QED
      BY <2>1, <3>1, <3>2
  <2>2. ASSUME NEW a \in registered' \cap Attachments, Attached(a)'
        PROVE  Ahead(<<"detach", a>>)' \/ \E e \in logged' : e[1] = a
    <3>1. CASE a \in registered
      <4>1. Attached(a)
        BY <2>2, <3>1 DEF IInv, Tracked, Grounded, Onward, Attached, Settled
      <4> QED
        BY <1>8, <2>2, <3>1, <4>1 DEF IInv, Tracked, Accounted
    <3>2. CASE a = x
      BY <1>9, <2>2, <3>2 DEF Ahead
    <3> QED
      BY <2>2, <3>1, <3>2
  <2> QED
    BY <2>1, <2>2 DEF Accounted
<1> QED
  BY <1>2, <1>5, <1>6, <1>7, <1>10 DEF IInv, Tracked

\* Nothing registered needs what has not been born, or is not a resource.
LEMMA NothingAbove ==
  ASSUME IInv, NEW x \in Resources \cup Attachments,
         x \in Resources => manila[x] = "unborn"
  PROVE  \A j \in 1 .. Len(stack) : x \notin Below(stack[j])
<1>1. SUFFICES ASSUME NEW j \in 1 .. Len(stack)
               PROVE  x \notin Below(stack[j])
  OBVIOUS
<1>2. stack[j] \in Callbacks /\ stack[j][2] \in registered
  <2>1. stack \in Seq(Callbacks)
    BY DEF IInv, Running
  <2> QED
    BY <2>1 DEF IInv, Tracked
<1>3. CASE stack[j][1] = "detach"
  <2>1. stack[j][2] \in registered \cap Attachments
    BY <1>2, <1>3 DEF Callbacks
  <2> QED
    BY <1>3, <2>1, ScenarioAssumption DEF Below, IInv, Tracked, Grounded
<1>4. CASE stack[j][1] # "detach"
  <2>1. stack[j][2] \in registered \cap Resources
    BY <1>2, <1>4 DEF Callbacks
  <2> QED
    BY <1>4, <2>1, RequiredFacts, ScenarioAssumption
    DEF Below, IInv, Tracked, Grounded
<1> QED
  BY <1>3, <1>4

-----------------------------------------------------------------------------
(* The steps.                                                              *)

LEMMA InitIInv == Init => IInv
<1> SUFFICES ASSUME Init PROVE IInv
  OBVIOUS
<1>1. Settled
  BY DEF Init, Settled, Statuses, VmStatuses, Alive, Attached
<1>2. Running
  BY DEF Init, Running, DetachSteps
<1>3. Tracked
  BY DEF Init, Tracked, Stacked, Grounded, Accounted
<1> QED
  BY <1>1, <1>2, <1>3 DEF IInv

\* The callbacks that a helper pushes.
LEMMA PushedFacts ==
  ASSUME NEW r \in Resources
  PROVE  /\ Pushed(r) \in Seq(Callbacks)
         /\ \A i \in 1 .. Len(Pushed(r)) :
              Pushed(r)[i][2] = r /\ Pushed(r)[i][1] # "detach"
         /\ \E i \in 1 .. Len(Pushed(r)) : Pushed(r)[i] = <<"await", r>>
<1> DEFINE d == <<"delete", r>>
           w == <<"await", r>>
           s == <<"servers", r>>
<1>1. {d, w, s} \subseteq Callbacks
  BY DEF Callbacks
<1>2. CASE Kind[r] = "network"
  <2>1. Pushed(r) = <<s>> \o <<d, w>>
    BY <1>2 DEF Pushed
  <2>2. <<s>> \in Seq(Callbacks) /\ <<d, w>> \in Seq(Callbacks)
    BY <1>1
  <2> HIDE DEF s, d, w
  <2>3. /\ Len(<<s>>) = 1 /\ Len(<<d, w>>) = 2
        /\ <<s>>[1] = s /\ <<d, w>>[1] = d /\ <<d, w>>[2] = w
    OBVIOUS
  <2>4. /\ Pushed(r) \in Seq(Callbacks) /\ Len(Pushed(r)) = 3
        /\ \A i \in 1 .. 3 : Pushed(r)[i] =
             IF i <= 1 THEN <<s>>[i] ELSE <<d, w>>[i - 1]
    <3>1. Len(<<s>>) + Len(<<d, w>>) = 3
      BY <2>3
    <3> QED
      BY <2>1, <2>2, <2>3, <3>1, ConcatProperties
  <2>5. Pushed(r)[1] = s /\ Pushed(r)[2] = d /\ Pushed(r)[3] = w
    <3>1. 1 - 1 = 0 /\ 2 - 1 = 1 /\ 3 - 1 = 2
      OBVIOUS
    <3> QED
      BY <2>3, <2>4, <3>1
  <2> QED
    BY <2>4, <2>5 DEF s, d, w
<1>3. CASE Kind[r] # "network"
  <2>1. Pushed(r) = <<d, w>>
    BY <1>3 DEF Pushed
  <2> QED
    BY <1>1, <2>1
<1> QED
  BY <1>2, <1>3

LEMMA CreateKeeps ==
  ASSUME IInv, NEW r \in Resources, Create(r)
  PROVE  IInv'
<1>1. /\ phase = "test" /\ manila[r] = "unborn" /\ Creatable(r) /\ Born(r)
      /\ multitenancy' = multitenancy /\ attachment' = attachment /\ vm' = vm
      /\ errors' = errors /\ logged' = logged
  BY DEF Create, Creatable
<1>2. step = "call"
  BY <1>1 DEF IInv, Running
<1>3. /\ Settled' /\ Onward /\ manila'[r] # "unborn"
      /\ \A p \in Required(r) : manila'[p] # "unborn"
  BY <1>1, BornKeeps DEF IInv
<1>4. CASE /\ stack' = Pushed(r) \o stack /\ registered' = registered \cup {r}
           /\ UNCHANGED <<phase, step, todo, listed>>
  <2>1. /\ Pushed(r) \in Seq(Callbacks)
        /\ \A i \in 1 .. Len(Pushed(r)) :
             Pushed(r)[i][2] = r /\ Pushed(r)[i][1] # "detach"
        /\ \E i \in 1 .. Len(Pushed(r)) : Pushed(r)[i] = <<"await", r>>
    BY PushedFacts
  <2>2. \A i \in 1 .. Len(Pushed(r)) : r \notin Below(Pushed(r)[i])
    BY <2>1, RequiredFacts DEF Below
  <2>3. r \notin Attachments
    BY ScenarioAssumption
  <2>4. \A j \in 1 .. Len(stack) : r \notin Below(stack[j])
    BY <1>1, NothingAbove
  <2>5. Tracked' /\ stack' \in Seq(Callbacks)
    BY <1>1, <1>3, <1>4, <2>1, <2>2, <2>3, <2>4, PushKeeps
  <2>6. Running'
    BY <1>1, <1>2, <1>4, <2>5 DEF IInv, Running, DetachSteps
  <2> QED
    BY <1>3, <2>5, <2>6 DEF IInv
<1>5. CASE /\ UNCHANGED <<stack, step, todo, listed, registered>>
           /\ phase' \in {"test", "cleanup"}
  <2>1. Running'
    BY <1>2, <1>5 DEF IInv, Running, DetachSteps
  <2>2. Tracked'
    BY <1>1, <1>3, <1>5, OnwardKeeps DEF history
  <2> QED
    BY <1>3, <2>1, <2>2 DEF IInv
<1> QED
  BY <1>1, <1>4, <1>5 DEF Create, EndTest, runner

LEMMA AttachStep ==
  ASSUME IInv, NEW a \in Attachments, Attach(a)
  PROVE  IInv'
<1>1. phase = "test" /\ errors' = errors /\ logged' = logged
  BY DEF Attach
<1>2. step = "call"
  BY <1>1 DEF IInv, Running
<1>3. Settled' /\ Onward /\ manila[ShareOf[a]] = "available"
  BY AttachKeeps DEF IInv
<1>4. CASE /\ stack' = << <<"detach", a>> >> \o stack
           /\ registered' = registered \cup {a}
           /\ UNCHANGED <<phase, step, todo, listed>>
  <2> DEFINE p == << <<"detach", a>> >>
  <2>1. /\ p \in Seq(Callbacks) /\ Len(p) = 1 /\ p[1] = <<"detach", a>>
    BY DEF Callbacks
  <2>2. a \notin Resources /\ ShareOf[a] \in Resources
    BY ScenarioAssumption
  <2>3. a \notin Below(<<"detach", a>>)
    BY <2>2 DEF Below
  <2>4. attachment'[a] # "unborn" /\ manila'[ShareOf[a]] # "unborn"
    BY <1>3, <2>2 DEF Attach, IInv, Settled, Onward
  <2>5. \A j \in 1 .. Len(stack) : a \notin Below(stack[j])
    BY <2>2, NothingAbove
  <2>6. \A i \in 1 .. Len(p) : p[i][2] = a /\ a \notin Below(p[i])
    BY <2>1, <2>3
  <2>7. \E i \in 1 .. Len(p) : p[i] = <<"detach", a>>
    BY <2>1
  <2> HIDE DEF p
  <2>8. stack' = p \o stack
    BY <1>4 DEF p
  <2>9. Tracked' /\ stack' \in Seq(Callbacks)
    BY <1>1, <1>3, <1>4, <2>1, <2>2, <2>4, <2>5, <2>6, <2>7, <2>8, PushKeeps
  <2>10. Running'
    BY <1>1, <1>2, <1>4, <2>9 DEF IInv, Running, DetachSteps
  <2> QED
    BY <1>3, <2>9, <2>10 DEF IInv
<1>5. CASE /\ UNCHANGED <<stack, step, todo, listed, registered>>
           /\ phase' \in {"test", "cleanup"}
  <2>1. Running'
    BY <1>2, <1>5 DEF IInv, Running, DetachSteps
  <2>2. Tracked'
    BY <1>1, <1>3, <1>5, OnwardKeeps DEF history
  <2> QED
    BY <1>3, <2>1, <2>2 DEF IInv
<1> QED
  BY <1>1, <1>4, <1>5 DEF Attach, EndTest, runner

\* A step of the services with the runner standing still.
LEMMA StandsStill ==
  ASSUME IInv, Settled', Onward, UNCHANGED <<runner, history>>
  PROVE  IInv'
<1>1. Running'
  BY DEF IInv, Running, runner
<1>2. Tracked'
  BY OnwardKeeps DEF runner
<1> QED
  BY <1>1, <1>2 DEF IInv

LEMMA TestKeeps == ASSUME IInv, Test PROVE IInv'
<1>1. CASE TestEnds
  <2>1. Settled' /\ Onward
    BY <1>1, SameServices DEF IInv, TestEnds
  <2>2. Running'
    BY <1>1 DEF IInv, Running, TestEnds, EndTest, DetachSteps
  <2>3. Tracked'
    BY <1>1, <2>1, OnwardKeeps DEF TestEnds
  <2> QED
    BY <2>1, <2>2, <2>3 DEF IInv
<1>2. CASE \E r \in Resources : Create(r)
  BY <1>2, CreateKeeps
<1>3. CASE \E a \in Attachments : Attach(a)
  BY <1>3, AttachStep
<1>4. ASSUME NEW a \in Attachments, TestDetaches(a) PROVE IInv'
  <2>1. Settled' /\ Onward
    BY <1>4, AttachmentMoves DEF IInv, TestDetaches, Attached
  <2> QED
    BY <1>4, <2>1, StandsStill DEF TestDetaches
<1>5. ASSUME NEW v \in Vms, TestSwitches(v) PROVE IInv'
  <2>1. Settled' /\ Onward
    BY <1>5, VmMoves DEF IInv, TestSwitches, VmStatuses
  <2> QED
    BY <1>5, <2>1, StandsStill DEF TestSwitches
<1> QED
  BY <1>1, <1>2, <1>3, <1>4, <1>5 DEF Test

LEMMA ServicesKeep == ASSUME IInv, Services PROVE IInv'
<1>1. ASSUME NEW r \in Resources, Manila(r) PROVE IInv'
  BY <1>1, ManilaKeeps, StandsStill DEF IInv, Manila
<1>2. ASSUME NEW a \in Attachments, NovaDetaches(a) PROVE IInv'
  <2>1. Settled' /\ Onward
    BY <1>2, AttachmentMoves DEF IInv, NovaDetaches, Attached
  <2> QED
    BY <1>2, <2>1, StandsStill DEF NovaDetaches
<1>3. ASSUME NEW v \in Vms, NovaMoves(v) PROVE IInv'
  <2>1. Settled' /\ Onward
    BY <1>3, VmMoves DEF IInv, NovaMoves, VmStatuses
  <2> QED
    BY <1>3, <2>1, StandsStill DEF NovaMoves
<1>4. ASSUME NEW v \in Vms, NovaLoses(v) PROVE IInv'
  BY <1>4, NovaLosesKeeps, StandsStill DEF IInv, NovaLoses
<1> QED
  BY <1>1, <1>2, <1>3, <1>4 DEF Services

\* A callback that is running goes on to its next step.
LEMMA GoKeeps ==
  ASSUME IInv, Settled', Onward, NEW next \in DetachSteps, Go(next),
         Head(stack)[1] = "detach", phase = "cleanup", stack # <<>>
  PROVE  IInv'
<1>1. Running'
  BY DEF IInv, Running, Go, DetachSteps
<1>2. Tracked'
  BY OnwardKeeps DEF Go
<1> QED
  BY <1>1, <1>2 DEF IInv

\* What is known of the callback that is running, and of its thing.
LEMMA SubjectFacts ==
  ASSUME IInv, stack # <<>>
  PROVE  /\ Head(stack) \in Callbacks
         /\ Head(stack)[1] = "detach" =>
              /\ Subject \in Attachments \cap registered
              /\ VmOf[Subject] \in Vms
              /\ Head(stack) = <<"detach", Subject>>
         /\ Head(stack)[1] # "detach" =>
              Subject \in Resources \cap registered
<1>1. stack \in Seq(Callbacks)
  BY DEF IInv, Running
<1>2. Head(stack) = stack[1] /\ 1 \in 1 .. Len(stack) /\ Head(stack) \in Callbacks
  BY <1>1
<1>3. Subject \in registered
  BY <1>2 DEF IInv, Tracked, Subject
<1> QED
  BY <1>2, <1>3, ScenarioAssumption DEF Callbacks, Subject

\* The running callback raises.
LEMMA RaiseKeeps ==
  ASSUME IInv, Settled', Onward, Raise, phase = "cleanup", stack # <<>>,
         Head(stack)[1] # "detach"
  PROVE  IInv'
<1>1. /\ Pop /\ errors' = errors \cup {Subject} /\ logged' = logged
      /\ Subject \in Resources
  BY SubjectFacts DEF Raise
<1>2. errors' \subseteq Resources \cup Attachments
  BY <1>1 DEF IInv, Tracked
<1>3. logged' \subseteq Attachments \X {"refused", "failed"}
  BY <1>1 DEF IInv, Tracked
<1>4. Running' /\ Tracked'
  BY <1>1, <1>2, <1>3, PopKeeps
<1> QED
  BY <1>4 DEF IInv

\* It returns, with nothing left for it to wait for.
LEMMA ReturnKeeps ==
  ASSUME IInv, Settled', Onward, Return, phase = "cleanup", stack # <<>>,
         Head(stack)[1] = "await" => manila'[Subject] = "gone",
         Head(stack)[1] = "detach" => attachment'[Subject] = "gone"
  PROVE  IInv'
<1>1. Pop /\ errors' = errors /\ logged' = logged
  BY DEF Return
<1>2. /\ errors' \subseteq Resources \cup Attachments
      /\ logged' \subseteq Attachments \X {"refused", "failed"}
  BY <1>1 DEF IInv, Tracked
<1>3. Running' /\ Tracked'
  BY <1>1, <1>2, PopKeeps
<1> QED
  BY <1>3 DEF IInv

\* cleanup_share_attachment logs what went wrong.
LEMMA LogKeeps ==
  ASSUME IInv, Settled', Onward, NEW why \in {"refused", "failed"}, Log(why),
         phase = "cleanup", stack # <<>>, Head(stack)[1] = "detach"
  PROVE  IInv'
<1>1. /\ Pop /\ errors' = errors /\ logged' = logged \cup {<<Subject, why>>}
      /\ Subject \in Attachments
  BY SubjectFacts DEF Log
<1>2. /\ errors' \subseteq Resources \cup Attachments
      /\ logged' \subseteq Attachments \X {"refused", "failed"}
  BY <1>1 DEF IInv, Tracked
<1>3. \E e \in logged' : e[1] = Subject
  <2>1. <<Subject, why>> \in logged' /\ <<Subject, why>>[1] = Subject
    BY <1>1
  <2> QED
    BY <2>1
<1>4. Running' /\ Tracked'
  BY <1>1, <1>2, <1>3, PopKeeps
<1> QED
  BY <1>4 DEF IInv

LEMMA CallingFacts ==
  ASSUME NEW what, Calling(what)
  PROVE  phase = "cleanup" /\ stack # <<>> /\ Head(stack)[1] = what
BY DEF Calling

LEMMA InDetach ==
  ASSUME IInv, step \in DetachSteps
  PROVE  phase = "cleanup" /\ stack # <<>> /\ Head(stack)[1] = "detach"
BY DEF IInv, Running, DetachSteps

LEMMA InServers ==
  ASSUME IInv, step = "servers"
  PROVE  phase = "cleanup" /\ stack # <<>> /\ Head(stack)[1] = "servers"
BY DEF IInv, Running

LEMMA DeleteKeeps == ASSUME IInv, Delete \/ Await PROVE IInv'
<1>1. CASE Delete
  <2>1. phase = "cleanup" /\ stack # <<>> /\ Head(stack)[1] = "delete"
    BY <1>1, CallingFacts DEF Delete
  <2>2. PICK reply \in Replies :
          DeleteCall(Subject, reply) /\ (Return \/ Raise)
    BY <1>1 DEF Delete
  <2>3. Subject \in Resources
    BY <2>1, SubjectFacts
  <2>4. Settled' /\ Onward
    BY <1>1, <2>2, <2>3, DeleteCallKeeps DEF IInv, Delete
  <2> QED
    BY <2>1, <2>2, <2>4, RaiseKeeps, ReturnKeeps
<1>2. CASE Await
  <2>1. phase = "cleanup" /\ stack # <<>> /\ Head(stack)[1] = "await"
    BY <1>2, CallingFacts DEF Await
  <2>2. Settled' /\ Onward /\ manila' = manila
    BY <1>2, SameServices DEF IInv, Await, services
  <2>3. (manila'[Subject] = "gone" /\ Return) \/ Raise
    BY <1>2, <2>2 DEF Await
  <2> QED
    BY <2>1, <2>2, <2>3, RaiseKeeps, ReturnKeeps
<1> QED
  BY <1>1, <1>2

\* _wait_for_share_server_deletion.
LEMMA ServersKeep ==
  ASSUME IInv,
         ListServers \/ ServersDone
           \/ \E s \in Resources : DeleteServer(s) \/ AwaitServer(s)
  PROVE  IInv'
<1>1. phase = "cleanup" /\ stack # <<>> /\ Head(stack)[1] = "servers"
  BY CallingFacts, InServers
  DEF ListServers, ServersDone, DeleteServer, AwaitServer
<1>2. CASE ListServers
  <2>1. Settled' /\ Onward
    BY <1>2, SameServices DEF IInv, ListServers
  <2>2. CASE Raise
    BY <1>1, <2>1, <2>2, RaiseKeeps
  <2>3. CASE /\ listed' \subseteq Resources
             /\ todo' = listed' /\ step' = "servers"
             /\ UNCHANGED <<stack, phase, history>>
    <3>1. Running'
      BY <1>1, <2>3 DEF IInv, Running, DetachSteps
    <3>2. Tracked'
      BY <2>1, <2>3, OnwardKeeps
    <3> QED
      BY <2>1, <3>1, <3>2 DEF IInv
  <2> QED
    BY <1>2, <2>2, <2>3 DEF ListServers
<1>3. ASSUME NEW s \in Resources, DeleteServer(s) PROVE IInv'
  <2>1. PICK reply \in Replies :
          /\ DeleteCall(s, reply)
          /\ \/ /\ todo' = todo \ {s}
                /\ UNCHANGED <<stack, phase, step, listed, history>>
             \/ Raise
    BY <1>3 DEF DeleteServer
  <2>2. Settled' /\ Onward
    BY <1>3, <2>1, DeleteCallKeeps DEF IInv, DeleteServer
  <2>3. CASE Raise
    BY <1>1, <2>2, <2>3, RaiseKeeps
  <2>4. CASE /\ todo' = todo \ {s}
             /\ UNCHANGED <<stack, phase, step, listed, history>>
    <3>1. Running'
      BY <2>4 DEF IInv, Running
    <3>2. Tracked'
      BY <2>2, <2>4, OnwardKeeps
    <3> QED
      BY <2>2, <3>1, <3>2 DEF IInv
  <2> QED
    BY <2>1, <2>3, <2>4
<1>4. ASSUME NEW s \in Resources, AwaitServer(s) PROVE IInv'
  <2>1. Settled' /\ Onward
    BY <1>4, SameServices DEF IInv, AwaitServer
  <2>2. CASE Raise
    BY <1>1, <2>1, <2>2, RaiseKeeps
  <2>3. CASE /\ listed' = listed \ {s}
             /\ UNCHANGED <<stack, phase, step, todo, history>>
    <3>1. Running'
      BY <2>3 DEF IInv, Running
    <3>2. Tracked'
      BY <2>1, <2>3, OnwardKeeps
    <3> QED
      BY <2>1, <3>1, <3>2 DEF IInv
  <2> QED
    BY <1>4, <2>2, <2>3 DEF AwaitServer
<1>5. CASE ServersDone
  BY <1>1, <1>5, SameServices, ReturnKeeps DEF IInv, ServersDone
<1> QED
  BY <1>2, <1>3, <1>4, <1>5

\* cleanup_share_attachment: a machine that is gone has no attachment left.
LEMMA DetachKeeps ==
  ASSUME IInv,
         LookAtServer \/ StopServer \/ AwaitStop \/ DetachShare \/ AwaitDetach
  PROVE  IInv'
<1>1. phase = "cleanup" /\ stack # <<>> /\ Head(stack)[1] = "detach"
  BY CallingFacts, InDetach
  DEF LookAtServer, StopServer, AwaitStop, DetachShare, AwaitDetach,
      DetachSteps
<1>2. /\ Subject \in Attachments /\ VmOf[Subject] \in Vms
      /\ attachment[Subject] \in {"unborn", "attached", "detaching", "gone"}
      /\ attachment[Subject] # "unborn"
      /\ vm[VmOf[Subject]] = "gone" => attachment[Subject] = "gone"
  BY <1>1, SubjectFacts DEF IInv, Settled, Tracked, Grounded, Attached
<1>3. ASSUME UNCHANGED services, attachment[Subject] = "gone", Pass
      PROVE  IInv'
  BY <1>1, <1>3, SameServices, ReturnKeeps DEF IInv, services, Pass
<1>4. ASSUME UNCHANGED services, NEW why \in {"refused", "failed"}, Log(why)
      PROVE  IInv'
  BY <1>1, <1>4, SameServices, LogKeeps DEF IInv
<1>5. ASSUME UNCHANGED services, NEW next \in DetachSteps, Go(next)
      PROVE  IInv'
  BY <1>1, <1>5, SameServices, GoKeeps DEF IInv
<1>6. CASE LookAtServer
  BY <1>2, <1>3, <1>4, <1>5, <1>6 DEF LookAtServer, DetachSteps
<1>7. CASE StopServer
  <2>1. CASE UNCHANGED vm /\ ((vm[VmOf[Subject]] = "gone" /\ Pass)
                                \/ Log("refused") \/ Log("failed"))
    BY <1>2, <1>3, <1>4, <1>7, <2>1 DEF StopServer, services
  <2>2. CASE /\ vm[VmOf[Subject]] = "active"
             /\ vm' = [vm EXCEPT ![VmOf[Subject]] = "stopping"]
             /\ Go("await_stop")
    <3>1. Settled' /\ Onward
      BY <1>2, <1>7, <2>2, VmMoves DEF IInv, StopServer, VmStatuses
    <3> QED
      BY <1>1, <2>2, <3>1, GoKeeps DEF DetachSteps
  <2> QED
    BY <1>7, <2>1, <2>2 DEF StopServer
<1>8. CASE AwaitStop
  BY <1>2, <1>3, <1>4, <1>5, <1>8 DEF AwaitStop, DetachSteps
<1>9. CASE DetachShare
  <2>1. CASE UNCHANGED attachment /\ ((attachment[Subject] = "gone" /\ Pass)
                                        \/ Log("refused") \/ Log("failed"))
    BY <1>2, <1>3, <1>4, <1>9, <2>1 DEF DetachShare, services
  <2>2. CASE /\ attachment[Subject] = "attached"
             /\ attachment' = [attachment EXCEPT ![Subject] = "detaching"]
             /\ Go("await_detach")
    <3>1. Settled' /\ Onward
      BY <1>2, <1>9, <2>2, AttachmentMoves DEF IInv, DetachShare, Attached
    <3> QED
      BY <1>1, <2>2, <3>1, GoKeeps DEF DetachSteps
  <2> QED
    BY <1>9, <2>1, <2>2 DEF DetachShare
<1>10. CASE AwaitDetach
  BY <1>2, <1>3, <1>4, <1>10 DEF AwaitDetach
<1> QED
  BY <1>6, <1>7, <1>8, <1>9, <1>10

LEMMA CleanupKeeps == ASSUME IInv, Cleanup PROVE IInv'
<1>1. CASE CleanupDone
  <2>1. Settled' /\ Onward
    BY <1>1, SameServices DEF IInv, CleanupDone
  <2>2. Running'
    BY <1>1 DEF IInv, Running, CleanupDone, DetachSteps
  <2>3. Tracked'
    BY <1>1, <2>1, OnwardKeeps DEF CleanupDone
  <2> QED
    BY <2>1, <2>2, <2>3 DEF IInv
<1> QED
  BY <1>1, DeleteKeeps, ServersKeep, DetachKeeps DEF Cleanup

LEMMA StepIInv == IInv /\ [Next]_vars => IInv'
<1> SUFFICES ASSUME IInv, [Next]_vars PROVE IInv'
  OBVIOUS
<1>1. CASE UNCHANGED vars
  <2>1. UNCHANGED services /\ UNCHANGED <<runner, history>>
    BY <1>1 DEF vars, services, runner, history
  <2> QED
    BY <2>1, SameServices, StandsStill DEF IInv
<1> QED
  BY <1>1, TestKeeps, CleanupKeeps, ServicesKeep DEF Next

THEOREM Inductive == Spec => []IInv
BY InitIInv, StepIInv, PTL DEF Spec

-----------------------------------------------------------------------------
(* What follows from it.                                                   *)

\* The services, the stack and the history stay in range.
THEOREM TypeCorrect == Spec => []TypeOK
<1>1. IInv => TypeOK
  BY DEF IInv, Settled, Running, Tracked, TypeOK, DetachSteps
<1> QED
  BY <1>1, Inductive, PTL

\* The order of the callbacks provokes no refusal.
THEOREM DependentsAlwaysFirst == Spec => []DependentsFirst
<1>1. IInv => DependentsFirst
  <2>1. SUFFICES ASSUME IInv, Calling("delete") PROVE DependentsFirst
    BY DEF DependentsFirst
  <2>2. /\ phase = "cleanup" /\ stack # <<>> /\ Head(stack)[1] = "delete"
        /\ Subject \in Resources /\ Head(stack)[2] = Subject
    BY <2>1, CallingFacts, SubjectFacts DEF Subject
  <2>3. ASSUME NEW entry, Ahead(entry), entry # Head(stack)
        PROVE  Subject \notin Below(entry)
    <3>1. stack \in Seq(Callbacks)
      BY <2>1 DEF IInv, Running
    <3>2. PICK i \in 1 .. Len(stack) : stack[i] = entry
      BY <2>3, <3>1 DEF Ahead
    <3>3. 1 \in 1 .. Len(stack) /\ 1 < i /\ stack[1] = Head(stack)
      BY <2>2, <2>3, <3>1, <3>2
    <3> QED
      BY <2>1, <2>2, <3>2, <3>3 DEF IInv, Tracked, Stacked
  <2>4. ASSUME NEW c \in Resources, Subject \in Required(c), Alive(c),
               c \in registered
        PROVE  c \in errors
    <3>1. c \in errors \/ Ahead(<<"await", c>>)
      BY <2>1, <2>4 DEF IInv, Tracked, Accounted
    <3>2. Subject \in Below(<<"await", c>>) /\ <<"await", c>> # Head(stack)
      BY <2>2, <2>4 DEF Below
    <3> QED
      BY <2>3, <3>1, <3>2
  <2>5. ASSUME NEW a \in Attachments, ShareOf[a] = Subject, Attached(a),
               a \in registered
        PROVE  \E e \in logged : e[1] = a
    <3>1. Ahead(<<"detach", a>>) \/ \E e \in logged : e[1] = a
      BY <2>1, <2>5 DEF IInv, Tracked, Accounted
    <3>2. Subject \in Below(<<"detach", a>>) /\ <<"detach", a>> # Head(stack)
      BY <2>2, <2>5 DEF Below
    <3> QED
      BY <2>3, <3>1, <3>2
  <2> QED
    BY <2>4, <2>5 DEF DependentsFirst
<1> QED
  BY <1>1, Inductive, PTL

\* A cleanup without an error has left nothing behind of what it was given.
THEOREM NeverSilentLeak == Spec => []NoSilentLeak
<1>1. IInv => NoSilentLeak
  <2>1. SUFFICES ASSUME IInv, phase = "done", errors = {} PROVE NoSilentLeak
    BY DEF NoSilentLeak
  <2>2. \A entry : ~Ahead(entry)
    BY <2>1 DEF IInv, Running, Ahead
  <2>3. \A c \in registered \cap Resources : manila[c] = "gone"
    BY <2>1, <2>2 DEF IInv, Tracked, Accounted, Grounded, Alive
  <2>4. \A r \in Resources : Alive(r) =>
          r \notin registered /\ Required(r) \cap registered = {}
    BY <2>1, <2>3, RequiredFacts DEF IInv, Settled, Alive
  <2>5. \A a \in Attachments : Attached(a) => ShareOf[a] \notin registered
    BY <2>1, <2>3, ScenarioAssumption DEF IInv, Settled
  <2> QED
    BY <2>4, <2>5 DEF NoSilentLeak
<1> QED
  BY <1>1, Inductive, PTL

-----------------------------------------------------------------------------
(* Where the docstring of cleanup_share_attachment is right.  Nova refuses *)
(* what it is asked for while it is at work on the machine.  If it is at   *)
(* work on none when the cleanup begins, only the callbacks themselves set *)
(* it to work, each on its own machine, and each waits for that.           *)

\* A machine that Nova is not at work on.
Rest == {"active", "shutoff", "gone"}

\* The test ends with no machine being stopped or started.
EndsAtRest ==
  phase = "test" /\ phase' = "cleanup" => \A v \in Vms : vm[v] \in Rest

Detaching(entry) == entry[1] = "detach"

Once ==
  \A i, j \in 1 .. Len(stack) :
    Detaching(stack[i]) /\ Detaching(stack[j]) /\ i # j =>
      stack[i][2] # stack[j][2]

\* The machines of the callbacks that are still to be called.
RestAhead ==
  phase = "cleanup" =>
    \A i \in 1 .. Len(stack) :
      Detaching(stack[i]) /\ (i # 1 \/ step = "call") =>
        vm[VmOf[stack[i][2]]] \in Rest

\* The machine of the one that is running, where it is about to ask.
AtHand ==
  /\ step = "stop"   => vm[VmOf[Subject]] \in {"active", "gone"}
  /\ step = "detach" => vm[VmOf[Subject]] \in {"shutoff", "gone"}

NoRefusal == \A e \in logged : e[2] # "refused"

Quiet == Once /\ RestAhead /\ AtHand /\ NoRefusal

LEMMA EntryFacts ==
  ASSUME IInv, NEW i \in 1 .. Len(stack), Detaching(stack[i])
  PROVE  /\ stack[i][2] \in Attachments /\ stack[i][2] \in registered
         /\ VmOf[stack[i][2]] \in Vms
<1>1. stack[i] \in Callbacks /\ stack[i][2] \in registered
  BY DEF IInv, Running, Tracked
<1> QED
  BY <1>1, ScenarioAssumption DEF Callbacks, Detaching

LEMMA HeadFacts ==
  ASSUME IInv, step \in DetachSteps
  PROVE  /\ phase = "cleanup" /\ stack # <<>> /\ Len(stack) \in Nat
         /\ 1 \in 1 .. Len(stack) /\ Detaching(stack[1])
         /\ Subject = stack[1][2]
         /\ Subject \in Attachments /\ VmOf[Subject] \in Vms
<1>1. phase = "cleanup" /\ stack # <<>> /\ Head(stack)[1] = "detach"
  BY InDetach
<1>2. /\ Head(stack) = stack[1] /\ 1 \in 1 .. Len(stack)
      /\ Len(stack) \in Nat
  BY <1>1 DEF IInv, Running
<1> QED
  BY <1>1, <1>2, EntryFacts DEF Detaching, Subject

\* Nova moves only what it is at work on, or loses a machine.
LEMMA QuietStands ==
  ASSUME IInv, Quiet, UNCHANGED <<stack, phase, step, logged>>,
         \A v \in Vms : vm[v] \in Rest => vm'[v] \in {vm[v], "gone"}
  PROVE  Quiet'
<1>1. Once' /\ NoRefusal'
  BY DEF Quiet, Once, NoRefusal, Detaching
<1>2. RestAhead'
  BY EntryFacts DEF Quiet, RestAhead, Detaching, Rest
<1>3. AtHand'
  BY HeadFacts DEF Quiet, AtHand, DetachSteps, Rest, Subject
<1> QED
  BY <1>1, <1>2, <1>3 DEF Quiet

\* A callback ends; those below it find what they found.
LEMMA QuietPops ==
  ASSUME IInv, Quiet, phase = "cleanup", stack # <<>>, Pop, vm' = vm,
         \A e \in logged' : e[2] # "refused"
  PROVE  Quiet'
<1>1. /\ stack' = Tail(stack) /\ step' = "call" /\ phase' = phase
  BY DEF Pop
<1>2. /\ Len(stack) \in Nat \ {0} /\ Len(stack') = Len(stack) - 1
      /\ \A i \in 1 .. Len(stack') :
           stack'[i] = stack[i + 1] /\ i + 1 \in 1 .. Len(stack)
  BY <1>1, TailFacts DEF IInv
<1>3. Once'
  <2>1. SUFFICES ASSUME NEW i \in 1 .. Len(stack'), NEW j \in 1 .. Len(stack'),
                        Detaching(stack'[i]), Detaching(stack'[j]), i # j
                 PROVE  stack'[i][2] # stack'[j][2]
    BY DEF Once, Detaching
  <2>2. i + 1 # j + 1
    BY <1>2, <2>1
  <2> QED
    BY <1>2, <2>1, <2>2 DEF Quiet, Once
<1>4. RestAhead'
  <2>1. SUFFICES ASSUME NEW i \in 1 .. Len(stack'), Detaching(stack'[i])
                 PROVE  vm[VmOf[stack'[i][2]]] \in Rest
    BY DEF RestAhead, Detaching
  <2>2. i + 1 # 1
    BY <1>2, <2>1
  <2> QED
    BY <1>2, <2>1, <2>2 DEF Quiet, RestAhead
<1> QED
  BY <1>1, <1>3, <1>4 DEF Quiet, AtHand, NoRefusal

\* The callback at hand goes on, and may have set its own machine to work.
LEMMA QuietGoes ==
  ASSUME IInv, Quiet, \A a, b \in Attachments : VmOf[a] = VmOf[b] => a = b,
         phase = "cleanup", stack # <<>>, Head(stack)[1] = "detach",
         NEW next \in DetachSteps, Go(next),
         \A v \in Vms : v # VmOf[Subject] => vm'[v] = vm[v],
         next = "stop" => vm'[VmOf[Subject]] \in {"active", "gone"},
         next = "detach" => vm'[VmOf[Subject]] \in {"shutoff", "gone"}
  PROVE  Quiet'
<1>1. /\ stack' = stack /\ phase' = phase /\ logged' = logged /\ step' = next
  BY DEF Go, history
<1>2. /\ Head(stack) = stack[1] /\ 1 \in 1 .. Len(stack)
      /\ Detaching(stack[1]) /\ Subject = stack[1][2]
  BY DEF IInv, Running, Detaching, Subject
<1>3. Once' /\ NoRefusal'
  BY <1>1 DEF Quiet, Once, NoRefusal, Detaching
<1>4. RestAhead'
  <2>1. SUFFICES ASSUME NEW i \in 1 .. Len(stack), Detaching(stack[i]), i # 1
                 PROVE  vm'[VmOf[stack[i][2]]] \in Rest
    BY <1>1 DEF RestAhead, Detaching, DetachSteps
  <2>2. stack[i][2] # Subject
    BY <1>2, <2>1 DEF Quiet, Once
  <2>3. VmOf[stack[i][2]] # VmOf[Subject] /\ VmOf[stack[i][2]] \in Vms
    BY <1>2, <2>1, <2>2, EntryFacts
  <2> QED
    BY <2>1, <2>3 DEF Quiet, RestAhead
<1>5. AtHand'
  BY <1>1 DEF AtHand, Subject
<1> QED
  BY <1>3, <1>4, <1>5 DEF Quiet

\* What a test registers is not registered already.
LEMMA QuietPushes ==
  ASSUME IInv, Quiet, phase = "test", NEW p \in Seq(Callbacks),
         stack' = p \o stack \/ stack' = stack,
         \/ \A i \in 1 .. Len(p) : ~Detaching(p[i])
         \/ \E a : p = << <<"detach", a>> >> /\ a \notin registered,
         UNCHANGED <<vm, step, logged>>, phase' \in {"test", "cleanup"},
         EndsAtRest
  PROVE  Quiet'
<1>1. stack \in Seq(Callbacks) /\ step = "call" /\ stack' \in Seq(Callbacks)
  <2>1. stack \in Seq(Callbacks) /\ step = "call"
    BY DEF IInv, Running
  <2>2. p \o stack \in Seq(Callbacks)
    BY <2>1, ConcatProperties
  <2> QED
    BY <2>1, <2>2
<1>2. Once'
  <2>1. CASE stack' = stack
    BY <2>1 DEF Quiet, Once, Detaching
  <2>2. CASE stack' = p \o stack
    <3>1. /\ Len(stack') = Len(p) + Len(stack)
          /\ Len(p) \in Nat /\ Len(stack) \in Nat
          /\ \A i \in 1 .. Len(stack') :
               stack'[i] = IF i <= Len(p) THEN p[i] ELSE stack[i - Len(p)]
      BY <1>1, <2>2, ConcatProperties
    <3>2. SUFFICES ASSUME NEW i \in 1 .. Len(stack'), NEW j \in 1 .. Len(stack'),
                          Detaching(stack'[i]), Detaching(stack'[j]), i < j
                   PROVE  stack'[i][2] # stack'[j][2]
      <4>1. \A i, j \in 1 .. Len(stack') : i # j => i < j \/ j < i
        BY <3>1
      <4> QED
        BY <3>2, <4>1 DEF Once, Detaching
    <3>3. CASE i > Len(p)
      <4>1. /\ i - Len(p) \in 1 .. Len(stack) /\ j - Len(p) \in 1 .. Len(stack)
            /\ i - Len(p) # j - Len(p)
            /\ stack'[i] = stack[i - Len(p)] /\ stack'[j] = stack[j - Len(p)]
        BY <3>1, <3>2, <3>3
      <4> QED
        BY <3>2, <4>1 DEF Quiet, Once
    <3>4. CASE i <= Len(p)
      <4>1. stack'[i] = p[i] /\ i \in 1 .. Len(p)
        BY <3>1, <3>2, <3>4
      <4>2. PICK a : p = << <<"detach", a>> >> /\ a \notin registered
        BY <3>2, <4>1
      <4>3. Len(p) = 1 /\ p[1] = <<"detach", a>>
        BY <4>2
      <4>4. stack'[i][2] = a
        BY <4>1, <4>3
      <4>5. j - 1 \in 1 .. Len(stack) /\ stack'[j] = stack[j - 1]
        BY <3>1, <3>2, <4>1, <4>3
      <4>6. stack'[j][2] \in registered
        BY <3>2, <4>5, EntryFacts
      <4> QED
        BY <4>2, <4>4, <4>6
    <3> QED
      BY <3>1, <3>2, <3>3, <3>4
  <2> QED
    BY <2>1, <2>2
<1>3. RestAhead'
  <2>1. SUFFICES ASSUME phase' = "cleanup", NEW i \in 1 .. Len(stack'),
                        Detaching(stack'[i])
                 PROVE  vm[VmOf[stack'[i][2]]] \in Rest
    BY DEF RestAhead, Detaching
  <2>2. stack'[i] \in Callbacks
    BY <1>1, <2>1
  <2>3. VmOf[stack'[i][2]] \in Vms
    BY <2>1, <2>2, ScenarioAssumption DEF Callbacks, Detaching
  <2> QED
    BY <2>1, <2>3 DEF EndsAtRest
<1>4. AtHand' /\ NoRefusal'
  BY <1>1 DEF AtHand, NoRefusal, Quiet
<1> QED
  BY <1>2, <1>3, <1>4 DEF Quiet

LEMMA QuietTests ==
  ASSUME IInv, Quiet, Test, EndsAtRest
  PROVE  Quiet'
<1>1. phase = "test" /\ step = "call" /\ logged' = logged
  BY DEF Test, TestEnds, Create, Creatable, Attach, TestDetaches,
         TestSwitches, EndTest, history, IInv, Running
<1>2. CASE TestEnds
  <2>1. PICK p \in Seq(Callbacks) : \A i \in 1 .. Len(p) : ~Detaching(p[i])
    <3>1. <<>> \in Seq(Callbacks) /\ 1 .. Len(<<>>) = {}
      OBVIOUS
    <3> QED
      BY <3>1
  <2>2. /\ UNCHANGED <<vm, step, logged>> /\ stack' = stack
        /\ phase' \in {"test", "cleanup"}
    BY <1>2 DEF TestEnds, EndTest, services, history
  <2> QED
    BY <1>1, <2>1, <2>2, QuietPushes
<1>3. ASSUME NEW r \in Resources, Create(r) PROVE Quiet'
  <2>1. /\ UNCHANGED <<vm, step, logged>> /\ phase' \in {"test", "cleanup"}
        /\ stack' = Pushed(r) \o stack \/ stack' = stack
    BY <1>1, <1>3 DEF Create, EndTest, runner
  <2>2. /\ Pushed(r) \in Seq(Callbacks)
        /\ \A i \in 1 .. Len(Pushed(r)) : ~Detaching(Pushed(r)[i])
    BY PushedFacts DEF Detaching
  <2> QED
    BY <1>1, <2>1, <2>2, QuietPushes
<1>4. ASSUME NEW a \in Attachments, Attach(a) PROVE Quiet'
  <2> DEFINE p == << <<"detach", a>> >>
  <2>1. /\ UNCHANGED <<vm, step, logged>> /\ phase' \in {"test", "cleanup"}
        /\ stack' = p \o stack \/ stack' = stack
    BY <1>1, <1>4 DEF Attach, EndTest, runner
  <2>2. p \in Seq(Callbacks)
    BY DEF Callbacks
  <2>3. a \notin registered
    BY <1>4 DEF Attach, IInv, Tracked, Grounded
  <2> QED
    BY <1>1, <2>1, <2>2, <2>3, QuietPushes
<1>5. CASE \/ \E a \in Attachments : TestDetaches(a)
           \/ \E v \in Vms : TestSwitches(v)
  <2>1. UNCHANGED <<stack, phase, step, logged>>
    BY <1>5 DEF TestDetaches, TestSwitches, runner, history
  <2> QED
    BY <1>1, <2>1 DEF Quiet, Once, RestAhead, AtHand, NoRefusal, Detaching
<1> QED
  BY <1>2, <1>3, <1>4, <1>5 DEF Test

LEMMA QuietServices ==
  ASSUME IInv, Quiet, Services
  PROVE  Quiet'
<1>1. UNCHANGED <<stack, phase, step, logged>>
  BY DEF Services, Manila, NovaDetaches, NovaMoves, NovaLoses, runner, history
<1>2. vm \in [Vms -> VmStatuses]
  BY DEF IInv, Settled
<1>3. \A v \in Vms : vm[v] \in Rest => vm'[v] \in {vm[v], "gone"}
  BY <1>2 DEF Services, Manila, NovaDetaches, NovaMoves, NovaLoses, Rest
<1> QED
  BY <1>1, <1>3, QuietStands

\* The callbacks that ask Manila.
LEMMA QuietDeletes ==
  ASSUME IInv, Quiet,
         \/ Delete \/ Await \/ ListServers \/ ServersDone
         \/ \E s \in Resources : DeleteServer(s) \/ AwaitServer(s)
  PROVE  Quiet'
<1>1. /\ phase = "cleanup" /\ stack # <<>>
      /\ Head(stack)[1] \in {"delete", "await", "servers"}
  BY CallingFacts, InServers
  DEF Delete, Await, ListServers, ServersDone, DeleteServer, AwaitServer
<1>2. vm' = vm /\ logged' = logged
  BY DEF Delete, Await, ListServers, ServersDone, DeleteServer, AwaitServer,
         Return, Raise, services, history
<1>3. CASE Pop
  BY <1>1, <1>2, <1>3, QuietPops DEF Quiet, NoRefusal
<1>4. CASE UNCHANGED <<stack, phase, step>>
  BY <1>2, <1>4, QuietStands
<1>5. CASE UNCHANGED <<stack, phase>> /\ step' = "servers"
  <2>1. Once' /\ NoRefusal' /\ AtHand'
    BY <1>2, <1>5 DEF Quiet, Once, NoRefusal, AtHand, Detaching
  <2>2. ~Detaching(stack[1])
    BY <1>1 DEF IInv, Running, Detaching
  <2>3. RestAhead'
    BY <1>2, <1>5, <2>2 DEF Quiet, RestAhead, Detaching
  <2> QED
    BY <2>1, <2>3 DEF Quiet
<1> QED
  BY <1>3, <1>4, <1>5
  DEF Delete, Await, ListServers, ServersDone, DeleteServer, AwaitServer,
      Return, Raise

\* cleanup_share_attachment: nothing it asks for is refused.
LEMMA QuietDetaches ==
  ASSUME IInv, Quiet, \A a, b \in Attachments : VmOf[a] = VmOf[b] => a = b,
         LookAtServer \/ StopServer \/ AwaitStop \/ DetachShare \/ AwaitDetach
  PROVE  Quiet'
<1> DEFINE v == VmOf[Subject]
<1>1. phase = "cleanup" /\ stack # <<>> /\ Head(stack)[1] = "detach"
  BY CallingFacts, InDetach
  DEF LookAtServer, StopServer, AwaitStop, DetachShare, AwaitDetach,
      DetachSteps
<1>2. /\ Subject \in Attachments /\ v \in Vms
      /\ vm \in [Vms -> VmStatuses]
      /\ Attached(Subject) => vm[v] # "gone"
  BY <1>1, SubjectFacts DEF IInv, Settled
<1>3. ASSUME vm' = vm, Pass \/ Log("failed") PROVE Quiet'
  BY <1>1, <1>3, QuietPops DEF Pass, Return, Log, Quiet, NoRefusal
<1>4. ASSUME NEW next \in DetachSteps, Go(next),
             \A w \in Vms : w # v => vm'[w] = vm[w],
             next = "stop" => vm'[v] \in {"active", "gone"},
             next = "detach" => vm'[v] \in {"shutoff", "gone"}
      PROVE  Quiet'
  BY <1>1, <1>4, QuietGoes
<1>5. CASE LookAtServer
  <2>1. vm' = vm /\ step = "call"
    BY <1>5 DEF LookAtServer, Calling, services
  <2>2. Head(stack) = stack[1] /\ 1 \in 1 .. Len(stack)
    BY <1>1 DEF IInv, Running
  <2>3. vm[v] \in Rest
    BY <1>1, <2>1, <2>2 DEF Quiet, RestAhead, Detaching, Subject
  <2>4. /\ Reported(v) = "ACTIVE" => vm[v] = "active"
        /\ Reported(v) = "SHUTOFF" => vm[v] = "shutoff"
    BY <2>3 DEF Reported, Rest
  <2> QED
    BY <1>3, <1>4, <1>5, <2>1, <2>4 DEF LookAtServer, DetachSteps
<1>6. CASE StopServer
  <2>1. vm[v] \in {"active", "gone"}
    BY <1>6 DEF StopServer, Quiet, AtHand
  <2>2. CASE vm' = [vm EXCEPT ![v] = "stopping"] /\ Go("await_stop")
    BY <1>2, <1>4, <2>2 DEF DetachSteps
  <2> QED
    BY <1>3, <1>6, <2>1, <2>2 DEF StopServer
<1>7. CASE AwaitStop
  <2>1. vm' = vm
    BY <1>7 DEF AwaitStop, services
  <2> QED
    BY <1>3, <1>4, <1>7, <2>1 DEF AwaitStop, DetachSteps
<1>8. CASE DetachShare
  <2>1. vm' = vm /\ vm[v] \in {"shutoff", "gone"}
    BY <1>8 DEF DetachShare, Quiet, AtHand
  <2> QED
    BY <1>2, <1>3, <1>4, <1>8, <2>1 DEF DetachShare, DetachSteps
<1>9. CASE AwaitDetach
  <2>1. vm' = vm
    BY <1>9 DEF AwaitDetach, services
  <2> QED
    BY <1>3, <1>9, <2>1 DEF AwaitDetach
<1> QED
  BY <1>5, <1>6, <1>7, <1>8, <1>9

LEMMA StepQuiet ==
  ASSUME \A a, b \in Attachments : VmOf[a] = VmOf[b] => a = b,
         IInv, Quiet, [Next]_vars, [EndsAtRest]_vars
  PROVE  Quiet'
<1>1. CASE UNCHANGED vars
  BY <1>1 DEF vars, Quiet, Once, RestAhead, AtHand, NoRefusal, Detaching,
              Subject
<1>2. CASE Test /\ EndsAtRest
  BY <1>2, QuietTests
<1>3. CASE CleanupDone
  BY <1>3 DEF CleanupDone, Quiet, Once, RestAhead, AtHand, NoRefusal,
              Detaching, services, history
<1> QED
  BY <1>1, <1>2, <1>3, QuietServices, QuietDeletes, QuietDetaches
  DEF Next, Cleanup

\* If every attachment is to a machine of its own, and no test ends while Nova
\* is at work on a machine, the share of every registered attachment is
\* detached, except where a request has failed by itself or has run out of
\* time.
THEOREM DetachedIfAtRest ==
  ASSUME \A a, b \in Attachments : VmOf[a] = VmOf[b] => a = b
  PROVE  Spec /\ [][EndsAtRest]_vars => []DetachmentEnsured
<1>1. Init => Quiet
  BY DEF Init, Quiet, Once, RestAhead, AtHand, NoRefusal
<1>2. IInv /\ Quiet /\ [Next]_vars /\ [EndsAtRest]_vars => Quiet'
  BY StepQuiet
<1>3. IInv /\ Quiet => DetachmentEnsured
  <2>1. SUFFICES ASSUME IInv, Quiet, NEW a \in registered \cap Attachments,
                        Attached(a), ~Ahead(<<"detach", a>>)
                 PROVE  <<a, "failed">> \in logged
    BY DEF DetachmentEnsured, Ahead
  <2>2. PICK e \in logged : e[1] = a
    BY <2>1 DEF IInv, Tracked, Accounted
  <2>3. e \in Attachments \X {"refused", "failed"} /\ e[2] # "refused"
    BY <2>1, <2>2 DEF IInv, Tracked, Quiet, NoRefusal
  <2>4. e = <<a, "failed">>
    BY <2>2, <2>3
  <2> QED
    BY <2>2, <2>4
<1> QED
  BY <1>1, <1>2, <1>3, Inductive, PTL DEF Spec
=============================================================================

----------------------------- MODULE AtomicWait -----------------------------
(***************************************************************************)
(* What a wait promises its caller, with nothing said of how it looks: the *)
(* result is decided in one instant by the state of the resource in that   *)
(* very instant, or the wait is given up; and no result is revised.  It is *)
(* what the other modules take a wait for.                                 *)
(***************************************************************************)

CONSTANTS
  Waiters,   \* the functions that wait
  States,    \* the states of the resource that a waiter tells apart
  Verdict    \* Verdict[w][s]: how state s ends w, or "none" if w goes on

VARIABLES
  waiter,    \* the function that was called
  world,     \* the state of the resource
  result     \* what the call comes to, "none" while that is open

vars == <<waiter, world, result>>

Init ==
  /\ waiter \in Waiters
  /\ world \in States
  /\ result = "none"

\* The state of the resource decides.
Conclude ==
  /\ result = "none"
  /\ result' = Verdict[waiter][world]
  /\ UNCHANGED <<waiter, world>>

\* Time is up.
GiveUp ==
  /\ result = "none"
  /\ result' = "timed_out"
  /\ UNCHANGED <<waiter, world>>

\* The resource changes, during the wait and before its caller goes on.
Move ==
  /\ world' \in States
  /\ UNCHANGED <<waiter, result>>

Next == Conclude \/ GiveUp \/ Move

Spec == Init /\ [][Next]_vars
=============================================================================

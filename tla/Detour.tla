------------------------------- MODULE Detour -------------------------------
(***************************************************************************)
(* What HookLib promises its caller, without any machine code: each        *)
(* function has a route, the place where calls of it end up.  Hooking      *)
(* changes the route of one function, in two stores to its entry, and      *)
(* between them a call may end anywhere; unhooking gives the function its  *)
(* own calls back.  No other function is ever disturbed.                   *)
(***************************************************************************)
EXTENDS Integers

CONSTANTS Functions, Targets

VARIABLES
  route,   \* for each function, where calls of it end up
  busy     \* the function whose entry is half written, or Nobody

vars == <<route, busy>>

Own    == 0     \* in the function itself
Torn   == -1
Nobody == -1

Init == route = [f \in Functions |-> Own] /\ busy = Nobody

Begin(f) ==
  /\ busy = Nobody /\ busy' = f
  /\ route' = [route EXCEPT ![f] = Torn]

End(t) ==
  /\ busy # Nobody /\ busy' = Nobody
  /\ route' = [route EXCEPT ![busy] = t]

Unhook(f) ==
  /\ busy = Nobody /\ UNCHANGED busy
  /\ route' = [route EXCEPT ![f] = Own]

Next ==
  \/ \E f \in Functions : Begin(f) \/ Unhook(f)
  \/ \E t \in Targets : End(t)

Spec == Init /\ [][Next]_vars
=============================================================================

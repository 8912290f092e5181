--------------------------- MODULE NearAllocation ---------------------------
(***************************************************************************)
(* What allocate_around_2gb promises to apply_hook_x64, without the search *)
(* that finds it: in one step it either hands out a block within reach of  *)
(* the function whose pages were all free, or it gives up and changes      *)
(* nothing.  Other threads allocate and release pages at any time, but     *)
(* never a page of the block handed out.                                   *)
(***************************************************************************)
EXTENDS AddressSpace

VARIABLES free, result

vars == <<free, result>>

Init == free \in SUBSET Pages /\ result = Pending

Allocate ==
  /\ result = Pending
  /\ result' \in Nat
  /\ InReach(result') /\ result' % Gran = 0
  /\ PagesAt(result') \subseteq free
  /\ free' = free \ PagesAt(result')

GiveUp == result = Pending /\ result' = Null /\ UNCHANGED free

OtherThread == 
  \E p \in OtherPages : 
    /\ result # Null /\ result # Pending => p \notin PagesAt(result)
    /\ free' \in {free \cup {p}, free \ {p}}
    /\ UNCHANGED result

Next == Allocate \/ GiveUp \/ OtherThread

Spec == Init /\ [][Next]_vars
=============================================================================

--------------------------- MODULE AllocateAround ---------------------------
(***************************************************************************)
(* HookLib::allocate_around_2gb: the search for a trampoline near enough   *)
(* to the hooked function for rel32 jumps.  It probes one address per 64   *)
(* KB with VirtualQuery, upwards and then downwards, and allocates at the  *)
(* first probe that shows a large enough free region.  VirtualQuery and    *)
(* VirtualAlloc are separate system calls: other threads allocate and      *)
(* release pages between any two steps.                                    *)
(***************************************************************************)
EXTENDS AddressSpace

VARIABLES
  pc,         \* "high" and "low": the two loops; "alloc": after found = true;
              \* "none": returned nullptr, nothing found; "done": returned
              \* what VirtualAlloc gave
  curr,
  result,
  free,       \* pages in state MEM_FREE
  untouched   \* history: pages free since the call began

vars == <<pc, curr, result, free, untouched>>

Init ==
  /\ pc = "high" /\ curr = base_aligned + Gran /\ result = Pending
  /\ free \in SUBSET Pages /\ untouched = free

\* VirtualQuery(a): the region that starts at a's page is MEM_FREE and spans
\* the pages wanted.  Beyond the user addresses the query fails: no room.
HasRoom(a) == PagesAt(a) \subseteq free

Found == 
  /\ HasRoom(curr) 
  /\ pc' = "alloc" 
  /\ UNCHANGED curr

\* Mutant: steps by two granules.
ProbeHighSkipping ==
  /\ pc = "high" /\ curr < high_bound
  /\ \/ Found
     \/ ~HasRoom(curr) /\ curr' = curr + 2 * Gran /\ UNCHANGED pc
  /\ UNCHANGED <<result, free, untouched>>

ProbeHigh ==
  /\ pc = "high" /\ curr < high_bound
  /\ \/ Found
     \/ ~HasRoom(curr) /\ curr' = curr + Gran /\ UNCHANGED pc
  /\ UNCHANGED <<result, free, untouched>>

TurnBack ==
  /\ pc = "high" /\ ~(curr < high_bound)
  /\ pc' = "low" /\ curr' = base_aligned - Gran
  /\ UNCHANGED <<result, free, untouched>>

\* Mutant: does not step.
ProbeLowStuck ==
  /\ pc = "low" /\ curr > low_bound
  /\ \/ Found
     \/ ~HasRoom(curr) /\ UNCHANGED <<curr, pc>>
  /\ UNCHANGED <<result, free, untouched>>

ProbeLow ==
  /\ pc = "low" /\ curr > low_bound
  /\ \/ Found
     \/ ~HasRoom(curr) /\ curr' = curr - Gran /\ UNCHANGED pc
  /\ UNCHANGED <<result, free, untouched>>

NotFound ==
  /\ pc = "low" /\ ~(curr > low_bound)
  /\ pc' = "none" /\ result' = Null
  /\ UNCHANGED <<curr, free, untouched>>

\* Mutant: returns curr whether or not VirtualAlloc could have it.
TryAllocUnchecked ==
  /\ pc = "alloc" /\ pc' = "done"
  /\ result' = curr /\ free' = free \ PagesAt(curr)
  /\ UNCHANGED <<curr, untouched>>

\* VirtualAlloc(curr, size, MEM_COMMIT | MEM_RESERVE, ...) fails when a page
\* was taken since the query, or for want of memory.
TryAlloc ==
  /\ pc = "alloc" /\ pc' = "done"
  /\ \/ /\ HasRoom(curr)
        /\ result' = curr /\ free' = free \ PagesAt(curr)
     \/ result' = Null /\ UNCHANGED free
  /\ UNCHANGED <<curr, untouched>>

Search == ProbeHigh \/ TurnBack \/ ProbeLow \/ NotFound \/ TryAlloc

OtherTakes(p) ==
  /\ p \in free
  /\ free' = free \ {p} /\ untouched' = untouched \ {p}
  /\ UNCHANGED <<pc, curr, result>>

OtherReleases(p) ==
  /\ p \notin free
  /\ result # Null /\ result # Pending => p \notin PagesAt(result)
  /\ free' = free \cup {p}
  /\ UNCHANGED <<pc, curr, result, untouched>>

Next == Search \/ \E p \in OtherPages : OtherTakes(p) \/ OtherReleases(p)

Spec == Init /\ [][Next]_vars

\* The calling thread is scheduled; nothing is assumed of the other threads.
FairSpec == Spec /\ WF_vars(Search)

-----------------------------------------------------------------------------
(* Properties *)

\* Types; in particular the comment on `curr` (HookLib.h:202): it is always
\* aligned to the allocation granularity, which VirtualAlloc needs to reserve
\* at curr itself and not below it.
TypeOK ==
  /\ pc \in {"high", "low", "alloc", "none", "done"}
  /\ curr \in Nat /\ curr % Gran = 0
  /\ result \in Nat \cup {Null, Pending}
  /\ free \subseteq Pages
  /\ pc # "done" => untouched \subseteq free

\* A trampoline that is returned is near enough: for every hook size both
\* place_jump displacements of apply_hook_x64 fit in rel32, and relocate's
\* distance check, whose result the caller drops, cannot fail.
JumpsReach ==
  result \in Nat =>
    /\ \A s \in HookSizes : Fits32(JumpIn(result, s)) /\ Fits32(JumpBack(result, s))
    /\ -Reach <= Base - result /\ Base - result <= Reach

\* The places the comments of the function promise to search: above and below
\* the function, as far as rel32 reaches.
Blocks == {a \in 0 .. Base + Reach : a % Gran = 0 /\ InReach(a)} \ {base_aligned}

\* The search gives up only if every block within reach was, at some moment of
\* the call, partly in use: no block that stayed free is overlooked.
NoMissedBlock ==
  pc = "none" => \A a \in Blocks : ~(PagesAt(a) \subseteq untouched)

\* The search implements its one-step specification: what it returns is within
\* reach and was free at the instant it was taken, whatever other threads did
\* between the query and the allocation.
Near == INSTANCE NearAllocation
NearAllocationSpec == Near!Spec

\* The call returns, however other threads allocate and release meanwhile.
SearchEnds == <>(pc \in {"none", "done"})
=============================================================================

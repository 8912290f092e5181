-------------------------- MODULE ConcurrentHooks --------------------------
(***************************************************************************)
(* Several threads hook and unhook functions through one HookLib, each a   *)
(* function of its own: ensure_protection, whose calls may fail and are    *)
(* not checked, around the stores to the function, and active_hooks, an    *)
(* unordered_map that no lock guards: remove_hook finds its entry first and *)
(* erases it, by the iterator it kept, last.  The stores themselves are    *)
(* HookLib's.                                                              *)
(***************************************************************************)
EXTENDS Integers

CONSTANTS
  Threads,
  Pages,
  Region,   \* for each thread the pages that the first bytes of its function touch
  First,    \* and the lowest of them
  MaxCalls  \* bound on calls of apply_hook_x64 and remove_hook

ASSUME RegionAssumption ==
  /\ Region \in [Threads -> SUBSET Pages]
  /\ First \in [Threads -> Pages] /\ \A t \in Threads : First[t] \in Region[t]

ASSUME MaxCallsAssumption == MaxCalls \in Nat

RX  == "execute_read"
RWX == "execute_readwrite"
Protections == {RX, RWX}

VARIABLES
  pc,
  calls,          \* counts to MaxCalls
  protection,     \* of each page
  old_protection, \* local of ensure_protection
  hooked,         \* whether the bytes of the thread's function are overwritten
  active_hooks,   \* threads whose function has an entry
  seen,           \* the map as the insert or erase in progress found it
  it,             \* local of remove_hook; in apply_hook_x64, and outside, "end"
  pristine,       \* history: protection at the start
  spoilt,         \* history: pages that were met in a window of ensure_protection
  raced           \* history: threads whose change of the map met another's

vars == <<pc, calls, protection, old_protection, hooked, active_hooks, seen, it, pristine, spoilt, raced>>

Init ==
  /\ pc = [t \in Threads |-> "idle"] /\ calls = 0
  /\ protection \in [Pages -> Protections] /\ pristine = protection
  /\ old_protection = [t \in Threads |-> RX]
  /\ hooked = [t \in Threads |-> FALSE]
  /\ active_hooks = {} /\ seen = [t \in Threads |-> {}]
  /\ it = [t \in Threads |-> "end"]
  /\ spoilt = {} /\ raced = {}

Inside(t)   == pc[t] \in {"write", "reprotect", "faulted"}
Shared(t)   == {p \in Region[t] : \E u \in Threads \ {t} : Inside(u) /\ p \in Region[u]}
Mixed(t)    == IF \E p \in Region[t] : protection[p] # protection[First[t]] THEN Region[t] ELSE {}
Change(t,x) == protection' = [p \in Pages |-> IF p \in Region[t] THEN x ELSE protection[p]]

\* Mutant: PAGE_EXECUTE_READ.
new_protection_read == RX

new_protection == RWX

\* What VirtualProtect stores as the old protection: that of the first page.
Reported(t) == protection[First[t]]

\* Others in the middle of an insert or erase.
Changing(t) == {u \in Threads \ {t} : pc[u] = "update"}

\* A call of apply_hook_x64 or remove_hook begins.
Called(t) == pc[t] = "idle" /\ calls < MaxCalls /\ calls' = calls + 1

\* remove_hook begins.  Without an entry it is no step; while another thread changes
\* the map the iterator may point anywhere.
Find(t) ==
  /\ Called(t) /\ t \in active_hooks
  /\ pc' = [pc EXCEPT ![t] = "found"]
  /\ \/ /\ Changing(t) = {}
        /\ it' = [it EXCEPT ![t] = "valid"] /\ UNCHANGED raced
     \/ /\ Changing(t) # {}
        /\ \E x \in {"valid", "stale"} : it' = [it EXCEPT ![t] = x]
        /\ raced' = raced \cup {t}
  /\ UNCHANGED <<protection, old_protection, hooked, active_hooks, seen, pristine, spoilt>>

\* The first VirtualProtect, in apply_hook_x64 or in remove_hook.  When it fails
\* old_protection stays uninitialized; of the values it may then have only the two
\* make a difference, since VirtualProtect rejects what is no protection.
Unprotect(t) ==
  /\ Called(t) \/ (pc[t] = "found" /\ UNCHANGED calls)
  /\ pc' = [pc EXCEPT ![t] = "write"]
  /\ \/ /\ Change(t, new_protection)
        /\ old_protection' = [old_protection EXCEPT ![t] = Reported(t)]
        /\ spoilt' = spoilt \cup Shared(t) \cup Mixed(t)
     \/ /\ \E x \in Protections : old_protection' = [old_protection EXCEPT ![t] = x]
        /\ spoilt' = spoilt \cup Region[t]
        /\ UNCHANGED protection
  /\ UNCHANGED <<hooked, active_hooks, seen, it, pristine, raced>>

\* The stores of `action`; on a page that is not writable they end the process.
Write(t) ==
  /\ pc[t] = "write"
  /\ \/ /\ \A p \in Region[t] : protection[p] = RWX
        /\ pc' = [pc EXCEPT ![t] = "reprotect"]
        /\ hooked' = [hooked EXCEPT ![t] = it[t] = "end"]
     \/ /\ \E p \in Region[t] : protection[p] # RWX
        /\ pc' = [pc EXCEPT ![t] = "faulted"]
        /\ UNCHANGED hooked
  /\ UNCHANGED <<calls, protection, old_protection, active_hooks, seen, it, pristine, spoilt, raced>>

\* Mutant: old and new protection are mixed up.
RestoredNew(t) == RWX

\* Mutant: PAGE_READWRITE, whatever there was.
RestoredReadWrite(t) == "readwrite"

Restored(t) == old_protection[t]

\* The second VirtualProtect may fail as well.
Reprotect(t) ==
  /\ pc[t] = "reprotect" /\ pc' = [pc EXCEPT ![t] = "map"]
  /\ \/ Change(t, Restored(t)) /\ UNCHANGED spoilt
     \/ UNCHANGED protection /\ spoilt' = spoilt \cup Region[t]
  /\ old_protection' = [old_protection EXCEPT ![t] = RX]
  /\ UNCHANGED <<calls, hooked, active_hooks, seen, it, pristine, raced>>

\* insert, at the end of apply_hook_x64, or erase(it) begins.
UpdateBegins(t) ==
  /\ pc[t] = "map" /\ pc' = [pc EXCEPT ![t] = "update"]
  /\ seen' = [seen EXCEPT ![t] = active_hooks]
  /\ raced' = IF Changing(t) = {} THEN raced ELSE raced \cup Changing(t) \cup {t}
  /\ UNCHANGED <<calls, protection, old_protection, hooked, active_hooks, it, pristine, spoilt>>

\* Mutant: remove_hook leaves the entry.
UpdatedInsertsOnly(t) == seen[t] \cup {t}

Updated(t) == IF it[t] = "end" THEN seen[t] \cup {t} ELSE seen[t] \ {t}

\* Threads in remove_hook whose iterators an insert by t makes invalid, if it rehashes.
Rehashed(t) ==
  IF it[t] = "end" /\ t \notin seen[t] THEN {u \in Threads \ {t} : it[u] # "end"} ELSE {}

\* insert or erase ends: of the outcomes of a race, the lost update, and of erasing
\* by an invalid iterator, that the entry may stay.
Update(t) ==
  /\ pc[t] = "update" /\ pc' = [pc EXCEPT ![t] = "idle"]
  /\ active_hooks' \in {Updated(t)} \cup (IF it[t] = "stale" THEN {seen[t]} ELSE {})
  /\ seen' = [seen EXCEPT ![t] = {}]
  /\ \E invalid \in {{}, Rehashed(t)} :
       /\ it' = [u \in Threads |-> IF u = t THEN "end" ELSE IF u \in invalid THEN "stale" ELSE it[u]]
       /\ raced' = raced \cup invalid
  /\ UNCHANGED <<calls, protection, old_protection, hooked, pristine, spoilt>>

Step(t) == Find(t) \/ Unprotect(t) \/ Write(t) \/ Reprotect(t) \/ UpdateBegins(t) \/ Update(t)
Running == \A t \in Threads : pc[t] # "faulted"
Next    == Running /\ \E t \in Threads : Step(t)
Spec    == Init /\ [][Next]_vars
-----------------------------------------------------------------------------
(* Properties *)

TypeOK ==
  /\ pc \in [Threads -> {"idle", "found", "write", "reprotect", "faulted", "map", "update"}]
  /\ calls \in 0 .. MaxCalls
  /\ protection \in [Pages -> Protections] /\ pristine \in [Pages -> Protections]
  /\ old_protection \in [Threads -> Protections]
  /\ hooked \in [Threads -> BOOLEAN]
  /\ active_hooks \subseteq Threads /\ seen \in [Threads -> SUBSET Threads]
  /\ it \in [Threads -> {"end", "valid", "stale"}]
  /\ spoilt \subseteq Pages /\ raced \subseteq Threads

\* A store into a function faults only where a call of VirtualProtect failed,
\* two threads were inside ensure_protection for one page, or a function lies
\* across pages of different protection.
FaultOnlyIfSpoilt ==
  \A t \in Threads : pc[t] = "faulted" => Region[t] \cap spoilt # {}

\* No other page is left writable, or otherwise changed, by hooking.
ProtectionKept ==
  \A p \in Pages \ spoilt :
    (\A t \in Threads : Inside(t) => p \notin Region[t]) => protection[p] = pristine[p]

\* A thread whose insert, find and erase met no other thread's change of the map,
\* and whose iterator no rehash made invalid between find and erase, leaves its
\* function with an entry if and only if its bytes are overwritten, also when it is
\* hooked again (HookLib.h:103, 109-125).
RecordsMatch ==
  \A t \in Threads \ raced : pc[t] = "idle" => (hooked[t] <=> t \in active_hooks)
=============================================================================

----------------------------- MODULE SystemInfo -----------------------------
(***************************************************************************)
(* The lazily filled fields of SystemInfo.  Every thread that searches for *)
(* a trampoline divides by them, the first calls may come from several     *)
(* threads at once, and no lock guards them.  A stored field is one word,  *)
(* so a read returns what it held before or after a store.                 *)
(***************************************************************************)
CONSTANTS
  Threads,
  Fields,   \* m_allocation_granularity and m_page_size
  Actual,   \* what GetSystemInfo reports for each
  Unset     \* zero

ASSUME ActualAssumption == \A f \in Fields : Actual[f] # Unset

VARIABLES
  field,     \* the static members
  pc,
  asked,     \* the field whose getter a thread is in
  todo       \* the stores of init it has yet to make

vars == <<field, pc, asked, todo>>

Init ==
  /\ field = [f \in Fields |-> Unset]
  /\ pc = [t \in Threads |-> "idle"]
  /\ asked \in [Threads -> Fields]
  /\ todo = [t \in Threads |-> {}]

\* Mutant: one flag for both fields.
Known_either(f) == \E g \in Fields : field[g] # Unset

Known(f) == field[f] # Unset

Getter(t, f) ==
  /\ pc[t] = "idle" /\ asked' = [asked EXCEPT ![t] = f]
  /\ IF Known(f)
     THEN pc' = [pc EXCEPT ![t] = "return"] /\ UNCHANGED todo
     ELSE /\ pc' = [pc EXCEPT ![t] = "init"]
          /\ todo' = [todo EXCEPT ![t] = Fields]
  /\ UNCHANGED field

\* Mutant: the members are cleared instead of the local SYSTEM_INFO.
StoreCleared(t, f) ==
  /\ pc[t] = "init" /\ f \in todo[t]
  /\ field' = [g \in Fields |-> IF g = f THEN Actual[f]
                                ELSE IF todo[t] = Fields THEN Unset ELSE field[g]]
  /\ todo' = [todo EXCEPT ![t] = @ \ {f}]
  /\ UNCHANGED <<pc, asked>>

\* Mutant: every field gets what belongs in some field.
StoreSwapped(t, f) ==
  /\ pc[t] = "init" /\ f \in todo[t]
  /\ \E g \in Fields : field' = [field EXCEPT ![f] = Actual[g]]
  /\ todo' = [todo EXCEPT ![t] = @ \ {f}]
  /\ UNCHANGED <<pc, asked>>

\* Nothing orders the two stores of init for other threads.
Store(t, f) ==
  /\ pc[t] = "init" /\ f \in todo[t]
  /\ field' = [field EXCEPT ![f] = Actual[f]]
  /\ todo' = [todo EXCEPT ![t] = @ \ {f}]
  /\ UNCHANGED <<pc, asked>>

Initialized(t) ==
  /\ pc[t] = "init" /\ todo[t] = {}
  /\ pc' = [pc EXCEPT ![t] = "return"]
  /\ UNCHANGED <<field, asked, todo>>

\* The member is read again, and that value returned.
Return(t) ==
  /\ pc[t] = "return" /\ pc' = [pc EXCEPT ![t] = "idle"]
  /\ UNCHANGED <<field, asked, todo>>

Next ==
  \E t \in Threads :
    Initialized(t) \/ Return(t) \/ \E f \in Fields : Getter(t, f) \/ Store(t, f)

Spec == Init /\ [][Next]_vars
-----------------------------------------------------------------------------
(* Properties *)

\* Types; a field is unset or holds its own value.
TypeOK ==
  /\ field \in [Fields -> {Unset} \cup {Actual[f] : f \in Fields}]
  /\ \A f \in Fields : field[f] \in {Unset, Actual[f]}
  /\ pc \in [Threads -> {"idle", "init", "return"}]
  /\ asked \in [Threads -> Fields]
  /\ todo \in [Threads -> SUBSET Fields]

\* No getter returns zero, by which the search would divide or never advance
\* (HookLib.h:174, 177, 203), however the first calls of several threads meet.
SizesKnown ==
  \A t \in Threads : pc[t] = "return" => field[asked[t]] = Actual[asked[t]]

\* A second initialization, by a thread that raced with the first, changes
\* nothing that was read: both loops of the search step by one granularity.
FieldsStable == [][\A f \in Fields : field[f] # Unset => field'[f] = field[f]]_vars
=============================================================================

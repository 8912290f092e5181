-------------------------- MODULE SystemInfoProofs --------------------------
(***************************************************************************)
(* Any number of threads may call the getters of SystemInfo first.         *)
(***************************************************************************)
EXTENDS SystemInfo, TLAPS

\* What init has stored stays; a thread leaves init with all of it stored.
Stored ==
  /\ \A t \in Threads : pc[t] = "init" =>
       \A f \in Fields \ todo[t] : field[f] = Actual[f]
  /\ SizesKnown

SysInv == TypeOK /\ Stored

LEMMA SysInit == Init => SysInv
BY DEF Init, SysInv, TypeOK, Stored, SizesKnown

LEMMA SysNext == SysInv /\ [Next]_vars => SysInv'
<1> SUFFICES ASSUME SysInv, [Next]_vars PROVE SysInv'
  OBVIOUS
<1> USE DEF SysInv, TypeOK, Stored, SizesKnown
<1>1. CASE UNCHANGED vars
  BY <1>1 DEF vars
<1>2. ASSUME NEW t \in Threads, Initialized(t) PROVE SysInv'
  BY <1>2 DEF Initialized
<1>3. ASSUME NEW t \in Threads, Return(t) PROVE SysInv'
  BY <1>3 DEF Return
<1>4. ASSUME NEW t \in Threads, NEW f \in Fields, Getter(t, f) PROVE SysInv'
  <2>1. CASE Known(f)
    BY <1>4, <2>1 DEF Getter, Known
  <2>2. CASE ~Known(f)
    BY <1>4, <2>2 DEF Getter
  <2> QED BY <2>1, <2>2
<1>5. ASSUME NEW t \in Threads, NEW f \in Fields, Store(t, f) PROVE SysInv'
  <2>1. /\ field' = [field EXCEPT ![f] = Actual[f]] /\ todo' = [todo EXCEPT ![t] = @ \ {f}]
        /\ pc' = pc /\ asked' = asked
    BY <1>5 DEF Store
  <2>2. \A g \in Fields : field'[g] = IF g = f THEN Actual[g] ELSE field[g]
    BY <2>1
  <2>3. TypeOK'
    BY <2>1, <2>2
  <2>4. Stored'
    BY <2>1, <2>2
  <2> QED BY <2>3, <2>4
<1> QED BY <1>1, <1>2, <1>3, <1>4, <1>5 DEF Next

LEMMA SysStable ==
  SysInv /\ [Next]_vars =>
    [\A f \in Fields : field[f] # Unset => field'[f] = field[f]]_vars
<1> SUFFICES ASSUME SysInv, Next
             PROVE  \A f \in Fields : field[f] # Unset => field'[f] = field[f]
  OBVIOUS
<1>1. field' = field \/ \E f \in Fields : field' = [field EXCEPT ![f] = Actual[f]]
  BY DEF Next, Initialized, Return, Getter, Store
<1> QED BY <1>1 DEF SysInv, TypeOK

\* However many threads race, a field is unset or holds its own value.
THEOREM SpecTypeOK == Spec => []TypeOK
<1>1. Spec => []SysInv
  BY SysInit, SysNext, PTL DEF Spec
<1>2. SysInv => TypeOK
  BY DEF SysInv
<1> QED BY <1>1, <1>2, PTL

\* The search never computes with a zero size (SystemInfo.cpp:16-30).
THEOREM SpecSizesKnown == Spec => []SizesKnown
<1>1. Spec => []SysInv
  BY SysInit, SysNext, PTL DEF Spec
<1>2. SysInv => SizesKnown
  BY DEF SysInv, Stored
<1> QED BY <1>1, <1>2, PTL

\* A second initialization changes nothing (SystemInfo.cpp:12-13).
THEOREM SpecFieldsStable == Spec => FieldsStable
<1>1. Spec => []SysInv
  BY SysInit, SysNext, PTL DEF Spec
<1> QED BY <1>1, SysStable, PTL DEF Spec, FieldsStable
=============================================================================
